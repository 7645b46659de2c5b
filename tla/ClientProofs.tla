---------------------------- MODULE ClientProofs -----------------------------
(***************************************************************************)
(* What a client keeps of its subscriptions (Subscription), for every      *)
(* listing of indexers, every limit, and a cancellation at any of its      *)
(* awaits; and of its calls that write (Signing), for every text, byte     *)
(* field and number in every transaction and every change of identity.     *)
(*                                                                         *)
(* The parts: subscriptions; bodies and the messages the node builds of    *)
(* them; what tells two texts apart as they are read, up to one message,   *)
(* one body; the steps of a call; the theorems about calls.                *)
(***************************************************************************)
EXTENDS Subscription, Signing, WellFoundedInduction, TLAPS

Frames == {"data", "error", "end"}
Flags == {reconnect, first, delivered, pending} \subseteq BOOLEAN
Shapes ==
  /\ limit \in Nat \cup {Forever}
  /\ pc \in PumpStates \cup Done \cup {"calling", "failed"}
  /\ exit \in Exits /\ attempts \in Nat
  /\ asked \in Nat /\ now \in Nat
  /\ queue \in Seq(Frames)
  /\ consumer \in {"idle", "waiting", "stopped", "again"}
  /\ unsub \in {"no", "called", "returned"}
  /\ unclosed \in Int
  /\ cutAt \in PumpStates \cup {Nothing}
  /\ fruitless \in Nat

TypeOK == Flags /\ Shapes

\* Before subscribe returns there is nothing to unsubscribe; its caller may
\* be cancelled.  From then on the task is at one of its awaits, or done, and
\* is cancelled at most once, while it is at an await.
CutOnce ==
  /\ first => /\ pc \in Connecting \cup {"calling", "failed"}
              /\ ~pending /\ unsub = "no"
              /\ cutAt # Nothing => pc = "failed"
  /\ ~first => pc \in PumpStates \cup Done /\ (cutAt # Nothing => unsub # "no")
  /\ pending => pc \in PumpStates /\ cutAt = Nothing /\ unsub # "no"

\* Attempts are counted from the last payload: from its socket's end when that
\* delivered one.
AttemptsCounted ==
  /\ pc \in Connecting \cup {"calling", "backoff"} => fruitless = attempts
  /\ pc \in {"created", "pumping", "closing"} =>
       fruitless = IF delivered THEN 0 ELSE attempts
  /\ pc = "finalclose" => exit = "failed" \/ cutAt # Nothing
  /\ limit # Forever => fruitless =< limit

SubInv == TypeOK /\ CutOnce /\ AttemptsCounted /\ SocketsClosed /\ GivesUpAtLimit

-----------------------------------------------------------------------------
\* What a step that makes a connection, or fails to, does.
Connects ==
  /\ pc \in {"calling", "backoff", "fetching", "opening", "aborting"} /\ ~pending
  /\ UNCHANGED <<config, first, delivered, caller, unclosed, cutAt>>
  /\ now' = now /\ asked' \in {asked, now}
  /\ \/ pc' \in {"fetching", "opening"} /\ UNCHANGED <<attempts, exit, queue, fruitless>>
     \/ first /\ pc' = "failed" /\ UNCHANGED <<attempts, exit, queue, fruitless>>
     \/ ~first /\ Retry(attempts)

\* Each of these steps does that.
LEMMA ConnectsFacts ==
  ASSUME CutOnce, Subscribe \/ Wake \/ Listed \/ NotListed \/ NotOpened \/ Aborted
  PROVE  Connects
<1>1. ASSUME NEW c, Connect(c)
      PROVE  \/ pc' = "opening" /\ UNCHANGED <<attempts, exit, queue, fruitless>>
             \/ ConnectionFailed
  BY <1>1 DEF Connect
<1>2. ConnectionFailed =>
        \/ first /\ pc' = "failed" /\ UNCHANGED <<attempts, exit, queue, fruitless>>
        \/ ~first /\ Retry(attempts)
  BY DEF ConnectionFailed
<1>3. CASE Resolve /\ pc \in {"calling", "backoff"} /\ ~pending
  <2>1. /\ UNCHANGED <<config, first, delivered, caller, unclosed, cutAt>>
        /\ now' = now /\ asked' \in {asked, now}
        /\ \/ pc' = "fetching" /\ UNCHANGED <<attempts, exit, queue, fruitless>>
           \/ \E c : Connect(c)
    BY <1>3 DEF Resolve
  <2> QED
    BY <1>1, <1>2, <1>3, <2>1 DEF Connects
<1>4. Subscribe => ~pending
  BY DEF Subscribe, CutOnce, PumpStates, Connecting
<1>5. CASE Listed
  <2>1. /\ UNCHANGED <<config, first, delivered, caller, unclosed, cutAt>>
        /\ UNCHANGED <<now, asked>> /\ pc = "fetching" /\ ~pending
        /\ \E c : Connect(c)
    BY <1>5 DEF Listed
  <2> QED
    BY <1>1, <1>2, <2>1 DEF Connects
<1>6. CASE NotListed \/ NotOpened \/ Aborted
  <2>1. /\ UNCHANGED <<config, first, delivered, caller, unclosed, cutAt>>
        /\ UNCHANGED <<now, asked>> /\ pc \in {"fetching", "opening", "aborting"} /\ ~pending
        /\ ConnectionFailed
    BY <1>6 DEF NotListed, NotOpened, Aborted, discovery
  <2> QED
    BY <1>2, <2>1 DEF Connects
<1> QED
  BY <1>3, <1>4, <1>5, <1>6 DEF Subscribe, Wake

\* What an interruption does, wherever the task is.
InterruptedAt ==
  /\ pending /\ pending' = FALSE /\ cutAt' = pc
  /\ UNCHANGED <<config, first, delivered, attempts, discovery, consumer, unsub, fruitless>>
  /\ \/ /\ pc \in {"created", "finalclose"} /\ pc' = "silent"
        /\ UNCHANGED <<queue, exit, unclosed>>
     \/ /\ pc = "pumping" /\ pc' = "closing" /\ exit' = "cancelled"
        /\ unclosed' = unclosed - 1 /\ UNCHANGED queue
     \/ pc = "closing" /\ pc' = "finalclose" /\ UNCHANGED <<queue, exit, unclosed>>
     \/ /\ pc \in Connecting \cup {"backoff"} /\ Finish
        /\ UNCHANGED <<exit, unclosed>>

\* It is at one of these awaits.
LEMMA InterruptedFacts ==
  ASSUME CutOnce, Interrupted
  PROVE  InterruptedAt
<1>1. pending /\ pc \in PumpStates
  BY DEF Interrupted, CutOnce
<1> QED
  BY <1>1 DEF Interrupted, InterruptedAt, PumpStates, Connecting

\* The steps that neither make a connection nor are an interruption.
Plain ==
  \/ Opened \/ Start \/ Closed \/ FinalClosed
  \/ Acked \/ Refused \/ Payload \/ ErrorFrame \/ Complete \/ Drop \/ BadFrame
  \/ Unsubscribe \/ Unsubscribed \/ Abandon \/ Iterate \/ Take \/ OtherUse \/ Tick
  \/ UNCHANGED vars

\* Every step is of one kind.
LEMMA NextKinds ==
  ASSUME CutOnce, [Next]_vars
  PROVE  Connects \/ InterruptedAt \/ Plain
BY ConnectsFacts, InterruptedFacts DEF Next, Progress, Server, Plain

\* The subscription's variables keep their shapes.
LEMMA StepTypes ==
  ASSUME TypeOK, Connects \/ InterruptedAt \/ Plain
  PROVE  TypeOK'
<1>1. Flags'
  <2>1. reconnect' = reconnect
    BY DEF Connects, InterruptedAt, Plain, Opened, Start, Closed, FinalClosed, Acked, Refused,
       Payload, ErrorFrame, Complete, Drop, PumpEnds, BadFrame, Unsubscribe, Unsubscribed, Abandon,
       Iterate, Take, OtherUse, Tick, vars, config
  <2>2. first' \in {first, FALSE}
    BY DEF Connects, InterruptedAt, Plain, Opened, Start, Closed, FinalClosed, Acked, Refused,
       Payload, ErrorFrame, Complete, Drop, PumpEnds, BadFrame, Unsubscribe, Unsubscribed, Abandon,
       Iterate, Take, OtherUse, Tick, vars
  <2>3. delivered' \in {delivered, TRUE, FALSE}
    BY DEF Connects, InterruptedAt, Plain, Opened, Start, Closed, FinalClosed, Acked, Refused,
       Payload, ErrorFrame, Complete, Drop, PumpEnds, BadFrame, Unsubscribe, Unsubscribed, Abandon,
       Iterate, Take, OtherUse, Tick, vars, link
  <2>4. pending' \in {pending, TRUE, FALSE}
    BY DEF Connects, InterruptedAt, Plain, Opened, Start, Closed, FinalClosed, Acked, Refused,
       Payload, ErrorFrame, Complete, Drop, PumpEnds, BadFrame, Unsubscribe, Unsubscribed, Abandon,
       Iterate, Take, OtherUse, Tick, vars, caller
  <2> QED
    BY <2>1, <2>2, <2>3, <2>4 DEF TypeOK, Flags
<1>2. Shapes'
  <2>0. Shapes /\ {"data", "error", "end"} \subseteq Frames
    BY DEF TypeOK, Frames
  <2> USE <2>0 DEF Shapes, PumpStates, Connecting, Done, Exits, Finish, config, caller, link,
                   discovery
  <2>1. CASE Connects
    BY <2>1, SMTT(20) DEF Connects, Retry
  <2>2. CASE InterruptedAt
    BY <2>2 DEF InterruptedAt
  <2>3. CASE Closed
    BY <2>3, SMTT(20) DEF Closed, Retry
  <2>4. CASE Opened \/ Start \/ Refused
    BY <2>4 DEF Opened, Start, Refused
  <2>5. CASE FinalClosed
    BY <2>5 DEF FinalClosed
  <2>6. CASE Acked
    BY <2>6 DEF Acked
  <2>7. CASE Payload \/ ErrorFrame
    <3>1. queue' \in Seq(Frames)
      BY <2>7, SMTT(20) DEF Payload, ErrorFrame
    <3>2. CASE Payload
      BY <3>1, <3>2 DEF Payload
    <3>3. CASE ErrorFrame
      BY <3>1, <3>3 DEF ErrorFrame
    <3> QED
      BY <2>7, <3>2, <3>3
  <2>8. CASE Complete \/ Drop \/ BadFrame
    BY <2>8 DEF Complete, Drop, PumpEnds, BadFrame
  <2>9. CASE Unsubscribe \/ Unsubscribed \/ Abandon \/ OtherUse \/ Tick \/ UNCHANGED vars
    BY <2>9 DEF Unsubscribe, Unsubscribed, Abandon, OtherUse, Tick, vars
  <2>10. CASE Iterate
    BY <2>10 DEF Iterate
  <2>11. CASE Take
    BY <2>11 DEF Take
  <2> QED
    BY <2>1, <2>2, <2>3, <2>4, <2>5, <2>6, <2>7, <2>8, <2>9, <2>10, <2>11 DEF Plain
<1> QED
  BY <1>1, <1>2 DEF TypeOK

\* The task is cancelled at most once, and not before it is created.
LEMMA StepCutOnce ==
  ASSUME TypeOK, CutOnce, Connects \/ InterruptedAt \/ Plain
  PROVE  CutOnce'
<1> USE DEF CutOnce, TypeOK, Shapes, PumpStates, Connecting, Done, Finish, config, caller, link, Nothing
<1>1. CASE Connects
  BY <1>1 DEF Connects, Retry
<1>2. CASE InterruptedAt
  BY <1>2 DEF InterruptedAt
<1>3. CASE Closed
  BY <1>3 DEF Closed, Retry
<1>4. CASE Opened \/ Start \/ FinalClosed \/ Acked \/ Refused
  BY <1>4 DEF Opened, Start, FinalClosed, Acked, Refused
<1>5. CASE Payload \/ ErrorFrame \/ Complete \/ Drop \/ BadFrame
  BY <1>5 DEF Payload, ErrorFrame, Complete, Drop, PumpEnds, BadFrame
<1>6. CASE Unsubscribe \/ Unsubscribed \/ Abandon
  BY <1>6 DEF Unsubscribe, Unsubscribed, Abandon
<1>7. CASE Iterate \/ Take \/ OtherUse \/ Tick \/ UNCHANGED vars
  BY <1>7 DEF Iterate, Take, OtherUse, Tick, vars
<1> QED
  BY <1>1, <1>2, <1>3, <1>4, <1>5, <1>6, <1>7 DEF Plain

\* A socket that is used no more was closed, unless the cancellation came in
\* its handshake or before the task ran.
LEMMA StepSockets ==
  ASSUME TypeOK, CutOnce, SocketsClosed, Connects \/ InterruptedAt \/ Plain
  PROVE  SocketsClosed'
<1> USE DEF SocketsClosed, CutOnce, TypeOK, Shapes, PumpStates, Connecting, Done, Finish, config, caller,
            link, Nothing
<1>1. CASE Connects
  BY <1>1 DEF Connects, Retry
<1>2. CASE InterruptedAt
  BY <1>2 DEF InterruptedAt
<1>3. CASE Closed
  BY <1>3 DEF Closed, Retry
<1>4. CASE Opened \/ Start \/ FinalClosed \/ Acked \/ Refused
  BY <1>4 DEF Opened, Start, FinalClosed, Acked, Refused
<1>5. CASE Payload \/ ErrorFrame \/ Complete \/ Drop \/ BadFrame
  BY <1>5 DEF Payload, ErrorFrame, Complete, Drop, PumpEnds, BadFrame
<1>6. CASE Unsubscribe \/ Unsubscribed \/ Abandon
  BY <1>6 DEF Unsubscribe, Unsubscribed, Abandon
<1>7. CASE Iterate \/ Take \/ OtherUse \/ Tick \/ UNCHANGED vars
  BY <1>7 DEF Iterate, Take, OtherUse, Tick, vars
<1> QED
  BY <1>1, <1>2, <1>3, <1>4, <1>5, <1>6, <1>7 DEF Plain

-----------------------------------------------------------------------------
\* With a attempts made since the last payload, the loop's next step is one
\* more, counted, or its end.
LEMMA RetryCounts ==
  ASSUME TypeOK, NEW a \in Nat, Retry(a), fruitless = a,
         limit # Forever => fruitless =< limit, UNCHANGED <<config, cutAt>>
  PROVE  /\ pc' \in {"backoff", "ended"} /\ (pc' = "backoff" => fruitless' = attempts')
         /\ limit # Forever => fruitless' =< limit
         /\ pc' = "ended" /\ limit # Forever => fruitless' = limit \/ exit' = "overflow"
<1>1. limit # Forever => limit \in Nat
  BY DEF TypeOK, Shapes
<1>2. CASE limit # Forever /\ a >= limit
  BY <1>1, <1>2 DEF Retry, Finish
<1>3. CASE ~(limit # Forever /\ a >= limit) /\ a >= DoubleRange
  BY <1>3 DEF Retry, Finish
<1>4. CASE ~(limit # Forever /\ a >= limit) /\ ~(a >= DoubleRange)
  <2>1. attempts' = a + 1 /\ pc' = "backoff" /\ fruitless' = fruitless + 1
    BY <1>4, DoubleRangeAssumption DEF Retry
  <2> QED
    BY <1>1, <1>4, <2>1
<1> QED
  BY <1>2, <1>3, <1>4

\* The count is of the attempts since the last payload.
LEMMA StepCounts ==
  ASSUME TypeOK, TypeOK', CutOnce, AttemptsCounted, GivesUpAtLimit, Connects \/ InterruptedAt \/ Plain
  PROVE  AttemptsCounted' /\ GivesUpAtLimit'
<1>1. CASE Connects
  <2>1. /\ UNCHANGED <<config, cutAt>> /\ fruitless = attempts
        /\ limit # Forever => fruitless =< limit
    BY <1>1 DEF Connects, AttemptsCounted, Connecting
  <2>2. CASE UNCHANGED <<attempts, exit, queue, fruitless>>
             /\ pc' \in {"fetching", "opening", "failed"}
    BY <2>1, <2>2 DEF AttemptsCounted, GivesUpAtLimit, Connecting, config
  <2>3. CASE Retry(attempts)
    <3>1. attempts \in Nat
      BY DEF TypeOK, Shapes
    <3>2. /\ pc' \in {"backoff", "ended"} /\ (pc' = "backoff" => fruitless' = attempts')
          /\ limit # Forever => fruitless' =< limit
          /\ pc' = "ended" /\ limit # Forever => fruitless' = limit \/ exit' = "overflow"
      BY <2>1, <2>3, <3>1, RetryCounts
    <3> QED
      BY <2>1, <3>2 DEF AttemptsCounted, GivesUpAtLimit, Connecting, config
  <2> QED
    BY <1>1, <2>2, <2>3 DEF Connects
<1>2. CASE InterruptedAt
  BY <1>2 DEF InterruptedAt, AttemptsCounted, GivesUpAtLimit, Connecting, PumpStates, Finish, config, Nothing,
     TypeOK, Shapes
<1>3. CASE Closed
  <2>1. UNCHANGED <<config, cutAt, delivered>> /\ pc = "closing"
    BY <1>3 DEF Closed
  <2>2. CASE (exit \in {"complete", "cancelled"} \/ ~reconnect) /\ Finish
             /\ UNCHANGED <<attempts, exit, fruitless>>
    BY <2>1, <2>2 DEF AttemptsCounted, GivesUpAtLimit, Connecting, config, Finish
  <2>3. ASSUME NEW a \in Nat, Retry(a), fruitless = a
        PROVE  AttemptsCounted' /\ GivesUpAtLimit'
    <3>1. limit # Forever => fruitless =< limit
      BY DEF AttemptsCounted
    <3>2. /\ pc' \in {"backoff", "ended"} /\ (pc' = "backoff" => fruitless' = attempts')
          /\ limit # Forever => fruitless' =< limit
          /\ pc' = "ended" /\ limit # Forever => fruitless' = limit \/ exit' = "overflow"
      BY <2>1, <2>3, <3>1, RetryCounts
    <3> QED
      BY <2>1, <3>2 DEF AttemptsCounted, GivesUpAtLimit, Connecting, config
  <2>4. fruitless = IF delivered THEN 0 ELSE attempts
    BY <2>1 DEF AttemptsCounted
  <2> QED
    BY <1>3, <2>2, <2>3, <2>4 DEF Closed, TypeOK, Shapes
<1>4. CASE Opened \/ Start \/ FinalClosed \/ Acked \/ Refused
  BY <1>4 DEF Opened, Start, FinalClosed, Acked, Refused, AttemptsCounted, GivesUpAtLimit, Connecting,
     Finish, config, link, TypeOK, Shapes
<1>5. CASE Payload \/ ErrorFrame \/ Complete \/ Drop \/ BadFrame
  BY <1>5 DEF Payload, ErrorFrame, Complete, Drop, PumpEnds, BadFrame, AttemptsCounted, GivesUpAtLimit,
     Connecting, config, link, TypeOK, Shapes
<1>6. CASE Unsubscribe \/ Unsubscribed \/ Iterate \/ Take \/ OtherUse \/ Tick \/ UNCHANGED vars
  <2>1. UNCHANGED <<config, pc, exit, delivered, attempts, cutAt, fruitless>>
    BY <1>6 DEF Unsubscribe, Unsubscribed, Iterate, Take, OtherUse, Tick, vars, config, link
  <2> QED
    BY <2>1 DEF AttemptsCounted, GivesUpAtLimit, config
<1>7. CASE Abandon
  BY <1>7 DEF Abandon, AttemptsCounted, GivesUpAtLimit, Connecting, config, link
<1> QED
  BY <1>1, <1>2, <1>3, <1>4, <1>5, <1>6, <1>7 DEF Plain

-----------------------------------------------------------------------------
\* A subscription that was not asked for yet.
LEMMA InitSubInv == Init => SubInv
<1> SUFFICES ASSUME Init PROVE SubInv
  OBVIOUS
<1>1. TypeOK
  <2>1. limit \in Nat \cup {Forever}
    BY LimitsAssumption DEF Init
  <2>2. Flags
    BY DEF Init, Flags
  <2>3. Shapes
    BY <2>1 DEF Init, Shapes, Exits
  <2> QED
    BY <2>2, <2>3 DEF TypeOK
<1>2. CutOnce
  BY DEF Init, CutOnce, Connecting
<1>3. AttemptsCounted /\ GivesUpAtLimit
  BY <1>1 DEF Init, AttemptsCounted, GivesUpAtLimit, Connecting, TypeOK, Shapes
<1>4. SocketsClosed
  BY DEF Init, SocketsClosed
<1> QED
  BY <1>1, <1>2, <1>3, <1>4 DEF SubInv

\* Every step keeps it.
LEMMA NextSubInv == SubInv /\ [Next]_vars => SubInv'
BY NextKinds, StepTypes, StepCutOnce, StepSockets, StepCounts DEF SubInv

\* The invariant holds in every reachable state.
THEOREM SubscriptionInvariant == Spec => []SubInv
BY InitSubInv, NextSubInv, PTL DEF Spec

\* The subscription's variables keep their shapes.
THEOREM SubscriptionTypeCorrect == Spec => []TypeOK
<1>1. SubInv => TypeOK
  BY DEF SubInv
<1> QED
  BY <1>1, SubscriptionInvariant, PTL

\* No reconnect leaves the old socket open and no failed connection its own,
\* also when a cancellation ends the subscription anywhere but in a handshake
\* or before the task's first step.
THEOREM SocketsAreClosed == Spec => []SocketsClosed
<1>1. SubInv => SocketsClosed
  BY DEF SubInv
<1> QED
  BY <1>1, SubscriptionInvariant, PTL

\* The loop makes max_reconnect_attempts attempts since the last payload at
\* most, and gives up on a dropped socket only when it has made them all.
THEOREM LimitIsKept == Spec => []GivesUpAtLimit
<1>1. SubInv => GivesUpAtLimit
  BY DEF SubInv
<1> QED
  BY <1>1, SubscriptionInvariant, PTL

-----------------------------------------------------------------------------
\* A set of naturals that is not empty has a least.
LEMMA LeastNat ==
  ASSUME NEW S, S \subseteq Nat, S # {}
  PROVE  \E b \in S : \A m \in S : b =< m
<1>1. IsWellFoundedOn(OpToRel(<, Nat), Nat)
  BY NatLessThanWellFounded
<1>2. \E b \in S : \A m \in S : ~(<<m, b>> \in OpToRel(<, Nat))
  BY <1>1, WFMin
<1>3. PICK b \in S : \A m \in S : ~(m < b)
  BY <1>2 DEF OpToRel
<1>4. \A m \in S : b =< m
  BY <1>3
<1> QED
  BY <1>4

-----------------------------------------------------------------------------
(* Powers of what a byte counts to.                                        *)

\* f holds the powers up to the n-th.
PowersTo(f, n) == f \in [0..n -> Nat \ {0}] /\ f[0] = 1 /\ \A i \in 1..n : f[i] = Base * f[i - 1]

LEMMA PowersExist ==
  ASSUME NEW n \in Nat
  PROVE  \E f : PowersTo(f, n)
<1> DEFINE Without == {k \in Nat : ~\E f : PowersTo(f, k)}
<1> SUFFICES ASSUME Without # {} PROVE FALSE
  OBVIOUS
<1>1. Without \subseteq Nat
  OBVIOUS
<1> HIDE DEF Without
<1>2. PICK k \in Without : \A m \in Without : k =< m
  BY <1>1, LeastNat
<1>3. k \in Nat /\ ~\E f : PowersTo(f, k)
  BY <1>2 DEF Without
<1>4. k # 0
  <2>1. PowersTo([i \in 0..0 |-> 1], 0)
    BY DEF PowersTo
  <2> QED
    BY <1>3, <2>1
<1>5. PICK f : PowersTo(f, k - 1)
  <2>1. k - 1 \in Nat /\ ~(k =< k - 1)
    BY <1>3, <1>4
  <2> QED
    BY <1>2, <2>1 DEF Without
<1> DEFINE g == [i \in 0..k |-> IF i = k THEN Base * f[k - 1] ELSE f[i]]
<1>6. PowersTo(g, k)
  <2>1. Base \in Nat \ {0} /\ f \in [0..(k - 1) -> Nat \ {0}] /\ f[k - 1] \in Nat \ {0}
    BY <1>3, <1>4, <1>5, TextFieldsAssumption DEF PowersTo
  <2>2. Base * f[k - 1] \in Nat \ {0}
    BY <2>1
  <2>3. g \in [0..k -> Nat \ {0}]
    BY <1>3, <2>1, <2>2
  <2>4. ASSUME NEW i \in 1..k PROVE g[i] = Base * g[i - 1]
    <3>1. i \in 0..k /\ i - 1 \in 0..(k - 1) /\ i - 1 \in 0..k /\ i - 1 # k /\ g[i - 1] = f[i - 1]
      BY <1>3, <1>4
    <3>2. i # k => i \in 1..(k - 1) /\ f[i] = Base * f[i - 1]
      BY <1>3, <1>5 DEF PowersTo
    <3>3. CASE i = k
      BY <3>1, <3>3
    <3>4. CASE i # k
      BY <3>1, <3>2, <3>4
    <3> QED
      BY <3>3, <3>4
  <2>5. g[0] = 1
    BY <1>3, <1>4, <1>5 DEF PowersTo
  <2> QED
    BY <2>3, <2>4, <2>5 DEF PowersTo
<1> QED
  BY <1>3, <1>6

\* Two that hold the powers agree as far as both go.
LEMMA PowersAgree ==
  ASSUME NEW f, NEW g, NEW n \in Nat, NEW m \in Nat, PowersTo(f, n), PowersTo(g, m), NEW i \in 0..n, i \in 0..m
  PROVE  f[i] = g[i]
<1> DEFINE Differ == {k \in 0..i : f[k] # g[k]}
<1> SUFFICES ASSUME Differ # {} PROVE FALSE
  OBVIOUS
<1>1. Differ \subseteq Nat
  OBVIOUS
<1> HIDE DEF Differ
<1>2. PICK k \in Differ : \A j \in Differ : k =< j
  BY <1>1, LeastNat
<1>3. k \in 0..i /\ f[k] # g[k] /\ k # 0
  BY <1>2 DEF Differ, PowersTo
<1>4. k - 1 \in 0..i /\ ~(k =< k - 1)
  BY <1>3
<1>5. f[k - 1] = g[k - 1]
  BY <1>2, <1>4 DEF Differ
<1>6. k \in 1..n /\ k \in 1..m
  BY <1>3
<1>7. f[k] = Base * f[k - 1] /\ g[k] = Base * g[k - 1]
  BY <1>6 DEF PowersTo
<1> QED
  BY <1>3, <1>5, <1>7

LEMMA PowerFacts ==
  /\ Power \in [Nat -> Nat \ {0}] /\ Power[0] = 1
  /\ \A n \in Nat : Power[n + 1] = Base * Power[n]
<1> DEFINE To(n) == CHOOSE f : PowersTo(f, n)
           F == [n \in Nat |-> To(n)[n]]
           step(f) == [n \in Nat |-> IF n = 0 THEN 1 ELSE Base * f[n - 1]]
<1>1. \A n \in Nat : PowersTo(To(n), n)
  BY PowersExist
<1> HIDE DEF To
<1>2. \A n \in Nat : To(n)[n] \in Nat \ {0}
  BY <1>1 DEF PowersTo
<1>3. F[0] = 1
  BY <1>1 DEF PowersTo
<1>4. ASSUME NEW n \in Nat \ {0} PROVE F[n] = Base * F[n - 1]
  <2>1. PowersTo(To(n), n) /\ PowersTo(To(n - 1), n - 1) /\ n \in 1..n /\ n - 1 \in 0..n /\ n - 1 \in 0..(n - 1)
    BY <1>1
  <2>2. To(n)[n] = Base * To(n)[n - 1]
    BY <2>1 DEF PowersTo
  <2>3. To(n)[n - 1] = To(n - 1)[n - 1]
    BY <2>1, PowersAgree
  <2> QED
    BY <2>2, <2>3
<1>5. F = step(F)
  BY <1>3, <1>4
<1> HIDE DEF F
<1>6. Power = step(Power)
  <2> HIDE DEF step
  <2>1. \E f : f = step(f)
    BY <1>5
  <2>2. Power = CHOOSE f : f = step(f)
    BY DEF Power, step
  <2> QED
    BY <2>1, <2>2
<1> DEFINE Differ == {k \in Nat : Power[k] # F[k]}
<1>7. Differ = {}
  <2> SUFFICES ASSUME Differ # {} PROVE FALSE
    OBVIOUS
  <2>1. Differ \subseteq Nat
    OBVIOUS
  <2> HIDE DEF Differ
  <2>2. PICK k \in Differ : \A j \in Differ : k =< j
    BY <2>1, LeastNat
  <2>3. k \in Nat /\ Power[k] # F[k]
    BY <2>2 DEF Differ
  <2>4. Power[k] = (IF k = 0 THEN 1 ELSE Base * Power[k - 1]) /\ F[k] = (IF k = 0 THEN 1 ELSE Base * F[k - 1])
    BY <1>5, <1>6, <2>3
  <2>5. k # 0 => k - 1 \in Nat /\ ~(k =< k - 1)
    BY <2>3
  <2>6. k # 0 => Power[k - 1] = F[k - 1]
    BY <2>2, <2>5 DEF Differ
  <2> QED
    BY <2>3, <2>4, <2>6
<1>8. \A n \in Nat : Power[n] = F[n]
  BY <1>7
<1>9. Power = F
  <2>1. Power = [n \in Nat |-> Power[n]]
    BY <1>6
  <2>2. F = [n \in Nat |-> F[n]]
    BY <1>5
  <2> QED
    BY <1>8, <2>1, <2>2
<1>10. \A n \in Nat : F[n] \in Nat \ {0}
  BY <1>2 DEF F
<1>11. \A n \in Nat : Power[n] \in Nat \ {0}
  BY <1>8, <1>10
<1>12. \A n \in Nat : Power[n + 1] = Base * Power[n]
  BY <1>6
<1> QED
  BY <1>3, <1>6, <1>8, <1>11, <1>12

-----------------------------------------------------------------------------
(* Options, byte fields, grants.                                           *)

\* An option with a value, and one without.
LEMMA OptionFacts ==
  ASSUME NEW v
  PROVE  Some(v) # None /\ Some(v)[1] = v /\ Len(Some(v)) = 1 /\ DOMAIN Some(v) = 1..1
<1>1. Len(<<v>>) = 1 /\ Len(<< >>) = 0
  OBVIOUS
<1>2. <<v>> # << >>
  BY <1>1
<1> QED
  BY <1>1, <1>2 DEF Some, None

\* Writing out an option again changes nothing.
LEMMA WrittenAgain ==
  ASSUME NEW option, NEW default
  PROVE  Written(Written(option, default), default) = Written(option, default)
<1>1. Default(Some(Default(option, default)), default) = Default(option, default)
  BY OptionFacts DEF Default
<1> QED
  BY <1>1 DEF Written

\* The value of an option that has one.
LEMMA OptionalFacts ==
  ASSUME NEW S, NEW option \in Optional(S), option # None
  PROVE  option[1] \in S /\ option = Some(option[1])
<1>1. option \in Seq(S) /\ Len(option) =< 1 /\ option # << >> /\ Len(option) \in Nat
  BY DEF Optional, None
<1>2. Len(option) = 1
  BY <1>1
<1> QED
  BY <1>1, <1>2 DEF Some

\* A byte field sent: a list of the same bytes.
LEMMA ByteValuesFacts ==
  ASSUME NEW field \in ByteField
  PROVE  /\ ByteValues(field) \in ByteField /\ ByteValues(field).form = "list" /\ ByteValues(field).bytes = field.bytes
         /\ ByteValues(ByteValues(field)) = ByteValues(field)
<1> DEFINE B == List(0..(Base - 1))
<1> HIDE DEF B
<1>1. field \in [form : ByteForms, bytes : B] /\ ByteField = [form : ByteForms, bytes : B]
  BY DEF ByteField, B
<1> QED
  BY <1>1 DEF ByteValues, ByteForms

\* A grant as sent: the same lines, and read back as it is.
LEMMA KeyGrantFacts ==
  ASSUME NEW g \in EncryptedKeyGrants
  PROVE  /\ KeyGrant(g) \in EncryptedKeyGrants /\ GrantReads(KeyGrant(g))
         /\ KeyGrant(KeyGrant(g)) = KeyGrant(g)
         /\ GrantLines(KeyGrant(g)) = GrantLines(g)
         /\ KeyGrant(g).grantee_did = g.grantee_did
<1> USE DEF EncryptedKeyGrants
<1> HIDE DEF Text, ByteField
<1>1. g.ephemeral_public_key \in ByteField /\ g.encrypted_key \in ByteField
  OBVIOUS
<1> DEFINE e == ByteValues(g.ephemeral_public_key)
           k == ByteValues(g.encrypted_key)
<1>a. KeyGrant(g) = [g EXCEPT !.ephemeral_public_key = e, !.encrypted_key = k] /\ e \in ByteField /\ k \in ByteField
  BY <1>1, ByteValuesFacts DEF KeyGrant
<1> HIDE DEF e, k
<1>b. /\ KeyGrant(g) \in EncryptedKeyGrants /\ KeyGrant(g).grantee_did = g.grantee_did
      /\ KeyGrant(g).key_epoch = g.key_epoch /\ KeyGrant(g).grantee_public_key_id = g.grantee_public_key_id
      /\ KeyGrant(g).ephemeral_public_key = e /\ KeyGrant(g).encrypted_key = k
      /\ KeyGrant(g).granted_by = g.granted_by /\ KeyGrant(g).granted_at = g.granted_at
  BY <1>a
<1>3. KeyGrant(g) \in EncryptedKeyGrants /\ KeyGrant(g).grantee_did = g.grantee_did
  BY <1>b
<1>2. /\ KeyGrant(g).key_epoch = g.key_epoch /\ KeyGrant(g).grantee_public_key_id = g.grantee_public_key_id
      /\ KeyGrant(g).ephemeral_public_key = ByteValues(g.ephemeral_public_key)
      /\ KeyGrant(g).encrypted_key = ByteValues(g.encrypted_key)
      /\ KeyGrant(g).granted_by = g.granted_by /\ KeyGrant(g).granted_at = g.granted_at
  BY <1>b DEF e, k
<1>4. GrantReads(KeyGrant(g))
  BY <1>1, <1>2, ByteValuesFacts DEF GrantReads
<1>5. KeyGrant(KeyGrant(g)) = KeyGrant(g)
  <2> DEFINE again == KeyGrant(g)
  <2>1. ByteValues(again.ephemeral_public_key) = again.ephemeral_public_key /\ ByteValues(again.encrypted_key) = again.encrypted_key
    BY <1>1, <1>2, ByteValuesFacts
  <2>2. again \in EncryptedKeyGrants
    BY <1>3
  <2> HIDE DEF again
  <2>3. KeyGrant(again) = again
    BY <2>1, <2>2 DEF KeyGrant
  <2> QED
    BY <2>3 DEF again
<1>6. GrantLines(KeyGrant(g)) = GrantLines(g)
  <2>1. ByteValues(g.ephemeral_public_key).bytes = g.ephemeral_public_key.bytes /\ ByteValues(g.encrypted_key).bytes = g.encrypted_key.bytes
    BY <1>1, ByteValuesFacts
  <2> QED
    BY <1>2, <1>3, <2>1 DEF GrantLines
<1> QED
  BY <1>3, <1>4, <1>5, <1>6

\* Each kind of transaction, by its kind.
LEMMA Kinds ==
  ASSUME NEW tx \in Transactions
  PROVE  \/ tx \in StoreDataTxs /\ tx.kind = "StoreData"
         \/ tx \in StoreFileManifestTxs /\ tx.kind = "StoreFileManifest"
         \/ tx \in DeleteFileManifestTxs /\ tx.kind = "DeleteFileManifest"
         \/ tx \in GrantTxs /\ tx.kind = "GrantSubgroveKey"
         \/ tx \in RotateTxs /\ tx.kind = "RotateSubgroveKey"
         \/ tx \in RevokeTxs /\ tx.kind = "RevokeSubgroveKey"
         \/ tx \in UnregisterTxs /\ tx.kind = "UnregisterStorageNode"
         \/ tx \in RegisterDidTxs /\ tx.kind = "RegisterDid"
         \/ tx \in RegisterSubgroveTxs /\ tx.kind = "RegisterSubgrove"
         \/ tx \in TransferTxs /\ tx.kind = "Transfer"
         \/ tx \in DeregisterTxs /\ tx.kind = "DeregisterSubgrove"
<1> USE DEF StoreDataTxs, StoreFileManifestTxs, DeleteFileManifestTxs, GrantTxs, RotateTxs, RevokeTxs, UnregisterTxs,
        RegisterDidTxs, RegisterSubgroveTxs, TransferTxs, DeregisterTxs
<1> HIDE DEF Text, ByteField, EncryptedKeyGrants
<1>1. CASE tx \in StoreDataTxs \cup StoreFileManifestTxs \cup DeleteFileManifestTxs \cup GrantTxs
  BY <1>1
<1>2. CASE tx \in RotateTxs \cup RevokeTxs \cup UnregisterTxs \cup RegisterDidTxs
  BY <1>2
<1>3. CASE tx \in RegisterSubgroveTxs \cup TransferTxs \cup DeregisterTxs
  BY <1>3
<1> QED
  BY <1>1, <1>2, <1>3 DEF Transactions

-----------------------------------------------------------------------------
(* What the node builds from the body it decodes is what was signed: the   *)
(* body is one it reads, and its message the transaction's.                *)
Same(tx) == NodeReads(WireBody(tx)) /\ SignMessage(WireBody(tx)) = SignMessage(tx)

LEMMA ManifestSame ==
  ASSUME NEW tx \in StoreFileManifestTxs, tx.kind = "StoreFileManifest"
  PROVE  Same(tx)
<1> DEFINE b == [tx EXCEPT !.content_hash = ByteValues(tx.content_hash), !.chunk_merkle_root = ByteValues(tx.chunk_merkle_root)]
<1>1. WireBody(tx) = b
  BY DEF WireBody
<1> USE DEF StoreFileManifestTxs
<1> HIDE DEF Text, ByteField, Encryptions
<1>2. tx.content_hash \in ByteField /\ tx.chunk_merkle_root \in ByteField
  OBVIOUS
<1>3. /\ b.kind = tx.kind /\ b.subgrove_id = tx.subgrove_id /\ b.file_key = tx.file_key /\ b.owner_did = tx.owner_did
      /\ b.filename = tx.filename /\ b.content_type = tx.content_type /\ b.total_size = tx.total_size
      /\ b.chunk_count = tx.chunk_count /\ b.chunk_size = tx.chunk_size /\ b.encryption = tx.encryption /\ b.nonce = tx.nonce
      /\ b.content_hash = ByteValues(tx.content_hash) /\ b.chunk_merkle_root = ByteValues(tx.chunk_merkle_root)
  OBVIOUS
<1> HIDE DEF b
<1>4. /\ b.content_hash.bytes = tx.content_hash.bytes /\ b.chunk_merkle_root.bytes = tx.chunk_merkle_root.bytes
      /\ b.content_hash.form = "list" /\ b.chunk_merkle_root.form = "list"
  BY <1>2, <1>3, ByteValuesFacts
<1>5. StoreFileManifestMessage(b) = StoreFileManifestMessage(tx)
  BY <1>3, <1>4 DEF StoreFileManifestMessage, NonceLine, Kind
<1>6. SignMessage(b) = SignMessage(tx) /\ NodeReads(b)
  BY <1>3, <1>4, <1>5 DEF SignMessage, NodeReads
<1> QED
  BY <1>1, <1>6 DEF Same

LEMMA GrantSame ==
  ASSUME NEW tx \in GrantTxs, tx.kind = "GrantSubgroveKey"
  PROVE  Same(tx)
<1> DEFINE b == [tx EXCEPT !.grant = KeyGrant(tx.grant)]
<1>1. WireBody(tx) = b
  BY DEF WireBody
<1> USE DEF GrantTxs
<1> HIDE DEF Text, EncryptedKeyGrants
<1>2. tx.grant \in EncryptedKeyGrants
  OBVIOUS
<1>3. /\ b.kind = tx.kind /\ b.subgrove_id = tx.subgrove_id /\ b.sender_did = tx.sender_did /\ b.nonce = tx.nonce
      /\ b.grant = KeyGrant(tx.grant)
  OBVIOUS
<1> HIDE DEF b
<1>4. GrantLines(b.grant) = GrantLines(tx.grant) /\ GrantReads(b.grant)
  BY <1>2, <1>3, KeyGrantFacts
<1>5. GrantMessage(b) = GrantMessage(tx)
  BY <1>3, <1>4 DEF GrantMessage, NonceLine, Kind
<1>6. SignMessage(b) = SignMessage(tx) /\ NodeReads(b)
  BY <1>3, <1>4, <1>5 DEF SignMessage, NodeReads
<1> QED
  BY <1>1, <1>6 DEF Same

LEMMA RotateSame ==
  ASSUME NEW tx \in RotateTxs, tx.kind = "RotateSubgroveKey"
  PROVE  Same(tx)
<1> DEFINE grants == [i \in DOMAIN tx.new_grants |-> KeyGrant(tx.new_grants[i])]
           b == [tx EXCEPT !.new_grants = grants]
<1>1. WireBody(tx) = b
  BY DEF WireBody
<1> HIDE DEF grants
<1> USE DEF RotateTxs
<1> HIDE DEF Text, EncryptedKeyGrants
<1>2. tx.new_grants \in Seq(EncryptedKeyGrants)
  OBVIOUS
<1>3. /\ b.kind = tx.kind /\ b.subgrove_id = tx.subgrove_id /\ b.sender_did = tx.sender_did /\ b.nonce = tx.nonce
      /\ b.new_epoch = tx.new_epoch /\ b.new_grants = grants
  OBVIOUS
<1> HIDE DEF b
<1>4. DOMAIN grants = DOMAIN tx.new_grants /\ DOMAIN grants = 1..Len(tx.new_grants) /\ Len(tx.new_grants) \in Nat
  BY <1>2 DEF grants
<1>5. Len(grants) = Len(tx.new_grants)
  BY <1>2, <1>4 DEF grants
<1>6. \A i \in DOMAIN grants : GrantLines(grants[i]) = GrantLines(tx.new_grants[i]) /\ GrantReads(grants[i])
  BY <1>2, KeyGrantFacts DEF grants
<1>7. [i \in DOMAIN b.new_grants |-> GrantLines(b.new_grants[i])] = [i \in DOMAIN tx.new_grants |-> GrantLines(tx.new_grants[i])]
  BY <1>3, <1>4, <1>6
<1>8. RotateMessage(b) = RotateMessage(tx)
  BY <1>3, <1>5, <1>7 DEF RotateMessage, NonceLine, Kind
<1>9. SignMessage(b) = SignMessage(tx) /\ NodeReads(b)
  BY <1>3, <1>6, <1>8 DEF SignMessage, NodeReads
<1> QED
  BY <1>1, <1>9 DEF Same

\* A document sent, sent again.
LEMMA DocumentAgain ==
  ASSUME NEW d \in DidDocuments
  PROVE  DidDocumentBody(DidDocumentBody(d)) = DidDocumentBody(d)
<1> DEFINE keys == [i \in DOMAIN d.public_keys |-> PublicKey(d.public_keys[i])]
           services == [i \in DOMAIN Default(d.service, << >>) |-> Service(d.service[1][i])]
           b == DidDocumentBody(d)
<1> HIDE DEF keys, services
<1> USE DEF DidDocuments
<1> HIDE DEF Text, PublicKeys, Services, DidProofs
<1>1. /\ d.public_keys \in Seq(PublicKeys) /\ d.service \in Optional(Seq(Services)) /\ d.proof \in Optional(DidProofs)
      /\ b = [d EXCEPT !.public_keys = keys, !.service = Some(services), !.proof = Mapped(d.proof, Proof), !.extra = FALSE]
  BY DEF DidDocumentBody, keys, services
<1>a. /\ DOMAIN b = DOMAIN d /\ DOMAIN d = {"id", "public_keys", "authentication", "service", "created", "updated", "proof", "extra"}
      /\ b.public_keys = keys /\ b.service = Some(services) /\ b.proof = Mapped(d.proof, Proof) /\ b.extra = FALSE
      /\ b = [z \in DOMAIN b |-> b[z]]
  BY <1>1
<1> HIDE DEF b
<1>2. [i \in DOMAIN keys |-> PublicKey(keys[i])] = keys
  <2>1. ASSUME NEW i \in DOMAIN d.public_keys PROVE PublicKey(PublicKey(d.public_keys[i])) = PublicKey(d.public_keys[i])
    <3>1. d.public_keys[i] \in PublicKeys
      BY <1>1
    <3> QED
      BY <3>1 DEF PublicKey, PublicKeys
  <2> QED
    BY <2>1 DEF keys
<1>3. [i \in DOMAIN services |-> Service(services[i])] = services
  <2>1. ASSUME NEW i \in DOMAIN Default(d.service, << >>)
        PROVE  Service(Service(d.service[1][i])) = Service(d.service[1][i])
    <3>1. d.service # None
      <4>1. DOMAIN << >> = {}
        OBVIOUS
      <4> QED
        BY <4>1 DEF Default
    <3>2. d.service[1] \in Seq(Services)
      BY <1>1, <3>1, OptionalFacts
    <3>3. d.service[1][i] \in Services
      BY <3>1, <3>2 DEF Default
    <3> QED
      BY <3>3 DEF Service, Services
  <2> QED
    BY <2>1 DEF services
<1>4. Mapped(Mapped(d.proof, Proof), Proof) = Mapped(d.proof, Proof)
  <2>1. CASE d.proof = None
    BY <2>1 DEF Mapped
  <2>2. CASE d.proof # None
    <3>1. d.proof[1] \in DidProofs
      BY <1>1, <2>2, OptionalFacts
    <3>2. Proof(Proof(d.proof[1])) = Proof(d.proof[1])
      BY <3>1 DEF Proof, DidProofs
    <3> QED
      BY <2>2, <3>2, OptionFacts DEF Mapped
  <2> QED
    BY <2>1, <2>2
<1>5. Default(b.service, << >>) = services /\ b.service[1] = services
  BY <1>a, OptionFacts DEF Default
<1>6. DidDocumentBody(b) = b
  <2>1. [i \in DOMAIN b.public_keys |-> PublicKey(b.public_keys[i])] = b.public_keys
    BY <1>a, <1>2
  <2>2. Some([i \in DOMAIN Default(b.service, << >>) |-> Service(b.service[1][i])]) = b.service
    BY <1>a, <1>3, <1>5
  <2>3. Mapped(b.proof, Proof) = b.proof
    BY <1>a, <1>4
  <2>4. [b EXCEPT !.public_keys = b.public_keys, !.service = b.service, !.proof = b.proof, !.extra = FALSE] = b
    BY <1>a
  <2> QED
    BY <2>1, <2>2, <2>3, <2>4 DEF DidDocumentBody
<1> QED
  BY <1>6 DEF b

LEMMA DocumentSame ==
  ASSUME NEW tx \in RegisterDidTxs, tx.kind = "RegisterDid"
  PROVE  Same(tx)
<1> DEFINE b == [tx EXCEPT !.did_document = DidDocumentBody(tx.did_document)]
<1>1. WireBody(tx) = b
  BY DEF WireBody
<1> USE DEF RegisterDidTxs
<1> HIDE DEF DidDocuments
<1>2. tx.did_document \in DidDocuments /\ b.kind = tx.kind /\ b.did_document = DidDocumentBody(tx.did_document)
  OBVIOUS
<1> HIDE DEF b
<1>3. DidDocumentBody(b.did_document) = b.did_document
  BY <1>2, DocumentAgain
<1>4. RegisterDidMessage(b) = RegisterDidMessage(tx)
  BY <1>2, <1>3 DEF RegisterDidMessage
<1>5. SignMessage(b) = SignMessage(tx) /\ NodeReads(b)
  BY <1>2, <1>3, <1>4 DEF SignMessage, NodeReads
<1> QED
  BY <1>1, <1>5 DEF Same

\* What is empty.
LEMMA EmptyFacts ==
  ASSUME NEW S
  PROVE  << >> \in List(S) /\ << >> \in Optional(S)
<1>1. Power[8] \in Nat \ {0}
  BY PowerFacts
<1>2. << >> \in Seq(S) /\ Len(<< >>) = 0
  OBVIOUS
<1> QED
  BY <1>1, <1>2 DEF List, Optional

\* Writing a part of a registration out again changes nothing.
LEMMA AmountAgain ==
  ASSUME NEW n \in Amounts
  PROVE  AsNumber(AsNumber(n)) = AsNumber(n) /\ AsNumber(n) \in Amounts /\ AsNumber(n).value = n.value
BY DEF AsNumber, Amounts

LEMMA TemplateAgain ==
  ASSUME NEW c \in TemplateConfigs
  PROVE  TemplateConfig(TemplateConfig(c)) = TemplateConfig(c)
<1> USE DEF TemplateConfigs
<1> HIDE DEF Text, ByteField, Optional, List
<1> DEFINE v == ByteValues(c.parameters)
           t == TemplateConfig(c)
<1>1. t = [c EXCEPT !.parameters = v] /\ v \in ByteField /\ ByteValues(v) = v
  BY ByteValuesFacts DEF TemplateConfig
<1> HIDE DEF v, t
<1>2. t \in TemplateConfigs /\ t.parameters = v
  BY <1>1
<1>3. [t EXCEPT !.parameters = v] = t
  BY <1>2
<1>4. TemplateConfig(t) = t
  BY <1>1, <1>2, <1>3 DEF TemplateConfig
<1> QED
  BY <1>4 DEF t

LEMMA WasmAgain ==
  ASSUME NEW modules \in Seq(WasmSources)
  PROVE  WasmModules(WasmModules(modules)) = WasmModules(modules)
<1>0. \A i \in DOMAIN modules : modules[i] \in WasmSources
  OBVIOUS
<1> USE DEF WasmSources
<1> HIDE DEF Text, ByteField
<1> DEFINE w == [i \in DOMAIN modules |->
                   [modules[i] EXCEPT !.hash = ByteValues(modules[i].hash), !.content = ByteValues(modules[i].content)]]
<1>1. ASSUME NEW i \in DOMAIN modules
      PROVE [w[i] EXCEPT !.hash = ByteValues(w[i].hash), !.content = ByteValues(w[i].content)] = w[i]
  <2> DEFINE m == modules[i]
             h == ByteValues(m.hash)
             c == ByteValues(m.content)
  <2>1. m \in WasmSources
    BY <1>0
  <2>2. w[i] = [m EXCEPT !.hash = h, !.content = c] /\ h \in ByteField /\ c \in ByteField
        /\ ByteValues(h) = h /\ ByteValues(c) = c
    BY <2>1, ByteValuesFacts
  <2> HIDE DEF m, h, c, w
  <2>3. w[i] \in WasmSources /\ w[i].hash = h /\ w[i].content = c
    BY <2>1, <2>2
  <2>4. [w[i] EXCEPT !.hash = h, !.content = c] = w[i]
    BY <2>3
  <2> QED
    BY <2>2, <2>3, <2>4
<1>2. w = WasmModules(modules) /\ DOMAIN w = DOMAIN modules
  BY DEF WasmModules
<1> HIDE DEF w
<1>3. WasmModules(w) = [i \in DOMAIN modules |-> w[i]]
  BY <1>1, <1>2 DEF WasmModules
<1>4. w = [i \in DOMAIN w |-> w[i]]
  BY <1>2 DEF WasmModules
<1> QED
  BY <1>2, <1>3, <1>4

LEMMA ConfigAgain ==
  ASSUME NEW c \in IndexerConfigs
  PROVE  IndexerConfig(IndexerConfig(c)) = IndexerConfig(c)
<1> USE DEF IndexerConfigs
<1> HIDE DEF Optional, Amounts, AsNumber, Written
<1> DEFINE r == AsNumber(c.reward_per_epoch)
           s == AsNumber(c.min_indexer_stake)
           e == Written(c.epoch_length, DefaultEpochLength)
           n == IndexerConfig(c)
<1>1. AsNumber(r) = r /\ AsNumber(s) = s /\ Written(e, DefaultEpochLength) = e
  BY AmountAgain, WrittenAgain
<1>2. n = [c EXCEPT !.reward_per_epoch = r, !.min_indexer_stake = s, !.epoch_length = e]
  BY DEF IndexerConfig
<1> HIDE DEF r, s, e, n
<1>3. DOMAIN n = DOMAIN c /\ n.reward_per_epoch = r /\ n.min_indexer_stake = s /\ n.epoch_length = e /\ n = [z \in DOMAIN n |-> n[z]]
  BY <1>2
<1>4. [n EXCEPT !.reward_per_epoch = r, !.min_indexer_stake = s, !.epoch_length = e] = n
  BY <1>3
<1>5. IndexerConfig(n) = n
  BY <1>1, <1>3, <1>4 DEF IndexerConfig
<1> QED
  BY <1>5 DEF n

LEMMA CompletenessAgain ==
  ASSUME NEW c \in Completenesses
  PROVE  Completeness(Completeness(c)) = Completeness(c)
<1> USE DEF Completenesses
<1> HIDE DEF Optional, Written
<1> DEFINE d == Written(c.deferred, FALSE)
           b == Written(c.bond_amount, 0)
           n == Completeness(c)
<1>1. Written(d, FALSE) = d /\ Written(b, 0) = b
  BY WrittenAgain
<1>2. n = [c EXCEPT !.deferred = d, !.bond_amount = b]
  BY DEF Completeness
<1> HIDE DEF d, b, n
<1>3. DOMAIN n = DOMAIN c /\ n.deferred = d /\ n.bond_amount = b /\ n = [z \in DOMAIN n |-> n[z]]
  BY <1>2
<1>4. [n EXCEPT !.deferred = d, !.bond_amount = b] = n
  BY <1>3
<1>5. Completeness(n) = n
  BY <1>1, <1>3, <1>4 DEF Completeness
<1> QED
  BY <1>5 DEF n

\* What SubgroveMode makes of a mode is of the mode's type, and SubgroveMode leaves it.
LEMMA ModeAgain ==
  ASSUME NEW mode \in Modes
  PROVE  SubgroveMode(SubgroveMode(mode)) = SubgroveMode(mode) /\ SubgroveMode(mode).type = mode.type
<1> HIDE DEF Text, ByteField, Optional, List, Written, Mapped
<1>1. CASE mode \in DataStorages
  <2> USE DEF DataStorages, ReaderLists
  <2>1. mode.type = "DataStorage" /\ AsFreeReaders(mode).type = mode.type
    BY <1>1 DEF AsFreeReaders
  <2>2. AsFreeReaders(AsFreeReaders(mode)) = AsFreeReaders(mode)
    BY <1>1 DEF AsFreeReaders
  <2> QED
    BY <2>1, <2>2 DEF SubgroveMode
<1>2. CASE mode \in FileStorages
  <2> USE DEF FileStorages
  <2> HIDE DEF ReaderLists, ReadPricings
  <2> DEFINE p == Written(mode.retention_period, 0)
             m == [mode EXCEPT !.retention_period = p]
  <2>1. Written(p, 0) = p
    BY WrittenAgain
  <2> HIDE DEF p
  <2>2. m.type = "FileStorage" /\ mode.type = "FileStorage" /\ m.retention_period = p /\ [m EXCEPT !.retention_period = p] = m
    BY <1>2
  <2> HIDE DEF m
  <2>3. SubgroveMode(mode) = m
    BY <2>2 DEF SubgroveMode, m, p
  <2>4. SubgroveMode(m) = m
    BY <2>1, <2>2 DEF SubgroveMode
  <2> QED
    BY <2>2, <2>3, <2>4
<1>3. CASE mode \in BlockchainIndexings
  <2> USE DEF BlockchainIndexings
  <2> HIDE DEF WasmSources, Executions, IndexerConfigs, Counted, Completenesses
  <2> DEFINE manifest == ByteValues(mode.manifest_content)
             wasm == Mapped(Written(mode.wasm_modules, << >>), WasmModules)
             indexers == IndexerConfig(mode.indexer_config)
             window == Written(mode.retention_window, [type |-> "Indefinite", value |-> None])
             complete == Mapped(mode.completeness, Completeness)
             auth == Written(mode.historical_auth_mode, "BftEquivalent")
             m == [mode EXCEPT !.manifest_content = manifest, !.wasm_modules = wasm, !.indexer_config = indexers,
                               !.retention_window = window, !.completeness = complete, !.historical_auth_mode = auth]
  <2>0. /\ mode.type = "BlockchainIndexing" /\ mode.manifest_content \in ByteField
        /\ mode.wasm_modules \in Optional(List(WasmSources)) /\ mode.indexer_config \in IndexerConfigs
        /\ mode.completeness \in Optional(Completenesses)
    BY <1>3
  <2>1. /\ ByteValues(manifest) = manifest /\ IndexerConfig(indexers) = indexers
        /\ Written(window, [type |-> "Indefinite", value |-> None]) = window /\ Written(auth, "BftEquivalent") = auth
    BY <2>0, ByteValuesFacts, ConfigAgain, WrittenAgain
  <2>2. Mapped(Written(wasm, << >>), WasmModules) = wasm
    <3> DEFINE modules == Default(mode.wasm_modules, << >>)
    <3>1. modules \in Seq(WasmSources)
      <4>1. CASE mode.wasm_modules = None
        BY <4>1 DEF Default
      <4>2. CASE mode.wasm_modules # None
        BY <2>0, <4>2, OptionalFacts DEF Default, List
      <4> QED
        BY <4>1, <4>2
    <3>2. WasmModules(WasmModules(modules)) = WasmModules(modules)
      BY <3>1, WasmAgain
    <3> HIDE DEF modules
    <3>3. wasm = Some(WasmModules(modules))
      BY OptionFacts DEF Mapped, Written, modules
    <3> HIDE DEF wasm
    <3>4. Written(wasm, << >>) = wasm
      BY <3>3, OptionFacts DEF Written, Default
    <3> QED
      BY <3>2, <3>3, <3>4, OptionFacts DEF Mapped
  <2>3. Mapped(complete, Completeness) = complete
    <3>1. CASE mode.completeness = None
      BY <3>1 DEF Mapped
    <3>2. CASE mode.completeness # None
      <4>1. mode.completeness[1] \in Completenesses
        BY <2>0, <3>2, OptionalFacts
      <4>2. Completeness(Completeness(mode.completeness[1])) = Completeness(mode.completeness[1])
        BY <4>1, CompletenessAgain
      <4> QED
        BY <3>2, <4>2, OptionFacts DEF Mapped
    <3> QED
      BY <3>1, <3>2
  <2>4. SubgroveMode(mode) = m
    BY <2>0 DEF SubgroveMode
  <2> HIDE DEF manifest, wasm, indexers, window, complete, auth
  <2>5. /\ DOMAIN m = DOMAIN mode /\ m.type = "BlockchainIndexing" /\ m = [z \in DOMAIN m |-> m[z]]
        /\ m.manifest_content = manifest /\ m.wasm_modules = wasm /\ m.indexer_config = indexers
        /\ m.retention_window = window /\ m.completeness = complete /\ m.historical_auth_mode = auth
    BY <1>3
  <2> HIDE DEF m
  <2>6. [m EXCEPT !.manifest_content = manifest, !.wasm_modules = wasm, !.indexer_config = indexers,
                  !.retention_window = window, !.completeness = complete, !.historical_auth_mode = auth] = m
    BY <2>5
  <2>7. SubgroveMode(m) = m
    BY <2>1, <2>2, <2>3, <2>5, <2>6 DEF SubgroveMode
  <2> QED
    BY <2>0, <2>4, <2>5, <2>7
<1> QED
  BY <1>1, <1>2, <1>3 DEF Modes

\* The mode of a registration, and of its body.
LEMMA MergedModeFacts ==
  ASSUME NEW tx \in RegisterSubgroveTxs, ModeRule(tx)
  PROVE  /\ MergedMode(tx) \in Optional(Modes)
         /\ Default(MergedMode(tx), NoMode) \in Modes
<1>1. tx.mode \in Optional(Modes) /\ tx.retention_window \in Optional(Counted(ToSet(RetentionWindows)))
  BY DEF RegisterSubgroveTxs
<1>2. MergedMode(tx) \in Optional(Modes)
  <2>1. CASE tx.retention_window = None
    BY <1>1, <2>1 DEF MergedMode
  <2>2. CASE tx.retention_window # None
    <3> DEFINE m == [tx.mode[1] EXCEPT !.retention_window = tx.retention_window]
    <3>1. tx.mode[1] \in Modes /\ tx.mode[1].type = "BlockchainIndexing"
      BY <1>1, <2>2, OptionalFacts DEF ModeRule
    <3>2. tx.mode[1] \in BlockchainIndexings
      BY <3>1 DEF Modes, DataStorages, FileStorages
    <3>3. m \in BlockchainIndexings
      BY <1>1, <3>2 DEF BlockchainIndexings
    <3> HIDE DEF m
    <3>4. <<m>> \in Seq(Modes) /\ Len(<<m>>) = 1
      BY <3>3 DEF Modes
    <3>5. Some(m) \in Optional(Modes)
      BY <3>4 DEF Optional, Some
    <3>6. MergedMode(tx) = Some(m)
      BY <2>2 DEF MergedMode, m
    <3> QED
      BY <3>5, <3>6
  <2> QED
    BY <2>1, <2>2
<1>3. NoMode \in Modes
  <2>1. << >> \in Text /\ << >> \in List(Text) /\ None \in Optional(ReadPricings)
    BY EmptyFacts DEF Text, None
  <2>2. NoMode \in DataStorages
    BY <2>1 DEF NoMode, DataStorages, ReaderLists
  <2> QED
    BY <2>2 DEF Modes
<1> QED
  BY <1>2, <1>3, OptionalFacts DEF Default

\* A registration as the node decodes it: every field explicit.
LEMMA RegistrationFacts ==
  ASSUME NEW tx \in RegisterSubgroveTxs, ModeRule(tx)
  PROVE  LET b == Normalize(ToDict(tx))
         IN /\ Normalize(b) = b /\ ToDict(b) = b
            /\ b.kind = "RegisterSubgrove"
            /\ b.subgrove_id = tx.subgrove_id /\ b.owner_did = tx.owner_did /\ b.nonce = tx.nonce
            /\ b.privacy = tx.privacy /\ b.schema = tx.schema
            /\ b.mode = Some(SubgroveMode(Default(MergedMode(tx), NoMode)))
            /\ b.initial_owner_key_grant = Mapped(tx.initial_owner_key_grant, KeyGrant)
            /\ b.retention_window = None
<1> DEFINE d == ToDict(tx)
           b == Normalize(d)
           description == Written(tx.description, << >>)
           admins == Written(tx.admins, << >>)
           funding == Mapped(tx.initial_funding, AsNumber)
           mode == Some(SubgroveMode(Default(MergedMode(tx), NoMode)))
           grant == Mapped(tx.initial_owner_key_grant, KeyGrant)
           template == Mapped(tx.template_config, TemplateConfig)
           depth == Written(tx.confirmation_depth, 0)
           complete == Written(tx.cryptographic_completeness, FALSE)
           name == Some(NameOf(tx))
           merged == MergedMode(tx)
<1> USE DEF RegisterSubgroveTxs
<1>1. /\ tx.initial_funding \in Optional(Amounts) /\ tx.initial_owner_key_grant \in Optional(EncryptedKeyGrants)
      /\ tx.template_config \in Optional(TemplateConfigs)
  OBVIOUS
<1>2. /\ Written(description, << >>) = description /\ Written(admins, << >>) = admins
      /\ Written(depth, 0) = depth /\ Written(complete, FALSE) = complete
  BY WrittenAgain
<1>3. Mapped(funding, AsNumber) = funding
  <2>1. CASE tx.initial_funding = None
    BY <2>1 DEF Mapped
  <2>2. CASE tx.initial_funding # None
    <3>1. tx.initial_funding[1] \in Amounts
      BY <1>1, <2>2, OptionalFacts
    <3>2. AsNumber(AsNumber(tx.initial_funding[1])) = AsNumber(tx.initial_funding[1])
      BY <3>1, AmountAgain
    <3> QED
      BY <2>2, <3>2, OptionFacts DEF Mapped
  <2> QED
    BY <2>1, <2>2
<1>4. Mapped(grant, KeyGrant) = grant
  <2>1. CASE tx.initial_owner_key_grant = None
    BY <2>1 DEF Mapped
  <2>2. CASE tx.initial_owner_key_grant # None
    <3>1. tx.initial_owner_key_grant[1] \in EncryptedKeyGrants
      BY <1>1, <2>2, OptionalFacts
    <3>2. KeyGrant(KeyGrant(tx.initial_owner_key_grant[1])) = KeyGrant(tx.initial_owner_key_grant[1])
      BY <3>1, KeyGrantFacts
    <3> QED
      BY <2>2, <3>2, OptionFacts DEF Mapped
  <2> QED
    BY <2>1, <2>2
<1>5. Mapped(template, TemplateConfig) = template
  <2>1. CASE tx.template_config = None
    BY <2>1 DEF Mapped
  <2>2. CASE tx.template_config # None
    <3>1. tx.template_config[1] \in TemplateConfigs
      BY <1>1, <2>2, OptionalFacts
    <3>2. TemplateConfig(TemplateConfig(tx.template_config[1])) = TemplateConfig(tx.template_config[1])
      BY <3>1, TemplateAgain
    <3> QED
      BY <2>2, <3>2, OptionFacts DEF Mapped
  <2> QED
    BY <2>1, <2>2
<1>6. Some(SubgroveMode(Default(mode, NoMode))) = mode
  <2>1. Default(merged, NoMode) \in Modes
    BY MergedModeFacts
  <2>2. Default(mode, NoMode) = SubgroveMode(Default(merged, NoMode))
    BY OptionFacts DEF Default
  <2> QED
    BY <2>1, <2>2, ModeAgain
<1>7. d = [tx EXCEPT !.mode = merged, !.name = name, !.retention_window = None]
  BY DEF ToDict
<1> HIDE DEF Text, Optional, List, Schemas, Amounts, Modes, Counted, PrivacyConfigs, EncryptedKeyGrants, TemplateConfigs
<1> HIDE DEF merged, name, d
<1>8. /\ DOMAIN d = DOMAIN tx /\ d.mode = merged /\ d.name = name /\ d.retention_window = None
      /\ d.kind = "RegisterSubgrove" /\ d.subgrove_id = tx.subgrove_id /\ d.owner_did = tx.owner_did /\ d.nonce = tx.nonce
      /\ d.privacy = tx.privacy /\ d.schema = tx.schema
      /\ d.description = tx.description /\ d.admins = tx.admins /\ d.initial_funding = tx.initial_funding
      /\ d.initial_owner_key_grant = tx.initial_owner_key_grant /\ d.template_config = tx.template_config
      /\ d.confirmation_depth = tx.confirmation_depth
      /\ d.cryptographic_completeness = tx.cryptographic_completeness
  BY <1>7
<1>9. b = [d EXCEPT !.description = description, !.admins = admins, !.initial_funding = funding, !.mode = mode,
                    !.initial_owner_key_grant = grant, !.template_config = template, !.confirmation_depth = depth,
                    !.cryptographic_completeness = complete]
  BY <1>8 DEF Normalize, merged
<1> HIDE DEF b, description, admins, funding, mode, grant, template, depth, complete
<1>10. DOMAIN d = {"kind", "subgrove_id", "name", "description", "schema", "owner_did", "admins", "initial_funding",
                   "required_tee", "mode", "retention_window", "privacy", "initial_owner_key_grant", "template_config",
                   "confirmation_depth", "public_key_id", "nonce", "cryptographic_completeness"}
  BY <1>8
<1>11. /\ DOMAIN b = DOMAIN d /\ b = [z \in DOMAIN b |-> b[z]]
       /\ b.description = description /\ b.admins = admins /\ b.initial_funding = funding /\ b.mode = mode
       /\ b.initial_owner_key_grant = grant /\ b.template_config = template /\ b.confirmation_depth = depth
       /\ b.cryptographic_completeness = complete
       /\ b.kind = d.kind /\ b.subgrove_id = d.subgrove_id /\ b.owner_did = d.owner_did /\ b.nonce = d.nonce
       /\ b.privacy = d.privacy /\ b.schema = d.schema /\ b.name = d.name /\ b.retention_window = d.retention_window
  BY <1>9, <1>10
<1>12. [b EXCEPT !.description = description, !.admins = admins, !.initial_funding = funding, !.mode = mode,
                 !.initial_owner_key_grant = grant, !.template_config = template, !.confirmation_depth = depth,
                 !.cryptographic_completeness = complete] = b
  BY <1>10, <1>11
<1>13. Normalize(b) = b
  BY <1>2, <1>3, <1>4, <1>5, <1>6, <1>11, <1>12 DEF Normalize
<1>14. ToDict(b) = b
  <2>1. MergedMode(b) = b.mode
    BY <1>8, <1>11 DEF MergedMode
  <2>2. Some(NameOf(b)) = b.name
    BY <1>8, <1>11, OptionFacts DEF NameOf, name
  <2>3. [b EXCEPT !.mode = b.mode, !.name = b.name, !.retention_window = None] = b
    BY <1>8, <1>10, <1>11
  <2> QED
    BY <2>1, <2>2, <2>3 DEF ToDict
<1> QED
  BY <1>8, <1>11, <1>13, <1>14 DEF mode, grant, b, d, merged

LEMMA RegistrationSame ==
  ASSUME NEW tx \in RegisterSubgroveTxs, tx.kind = "RegisterSubgrove", Signable(tx)
  PROVE  Same(tx)
<1> DEFINE b == Normalize(ToDict(tx))
<1>1. ModeRule(tx)
  BY DEF Signable
<1>2. WireBody(tx) = b
  BY DEF WireBody
<1>3. Normalize(b) = b /\ ToDict(b) = b /\ b.kind = "RegisterSubgrove"
  BY <1>1, RegistrationFacts
<1>4. /\ b.subgrove_id = ToDict(tx).subgrove_id /\ b.owner_did = ToDict(tx).owner_did /\ b.nonce = ToDict(tx).nonce
  <2>1. b.subgrove_id = tx.subgrove_id /\ b.owner_did = tx.owner_did /\ b.nonce = tx.nonce
    BY <1>1, RegistrationFacts
  <2>2. ToDict(tx).subgrove_id = tx.subgrove_id /\ ToDict(tx).owner_did = tx.owner_did /\ ToDict(tx).nonce = tx.nonce
    <3> HIDE DEF Text, Optional, List, Schemas, Amounts, Modes, Counted, PrivacyConfigs, EncryptedKeyGrants, TemplateConfigs
    <3> QED
      BY DEF ToDict, RegisterSubgroveTxs
  <2> QED
    BY <2>1, <2>2
<1> HIDE DEF b
<1>5. SignMessage(tx) = RegisterSubgroveMessage(ToDict(tx)) /\ SignMessage(b) = RegisterSubgroveMessage(b)
  BY <1>3 DEF SignMessage
<1>6. RegisterSubgroveMessage(b) = RegisterSubgroveMessage(ToDict(tx))
  BY <1>3, <1>4 DEF RegisterSubgroveMessage, b
<1>7. NodeReads(b)
  BY <1>3 DEF NodeReads
<1> QED
  BY <1>2, <1>5, <1>6, <1>7 DEF Same

\* For every transaction that can be signed.
LEMMA SameMessage ==
  ASSUME NEW tx \in Transactions, Signable(tx)
  PROVE  NodeReads(WireBody(tx)) /\ SignMessage(WireBody(tx)) = SignMessage(tx)
<1>1. ASSUME tx.kind \in {"StoreData", "DeleteFileManifest", "RevokeSubgroveKey", "UnregisterStorageNode", "Transfer",
                          "DeregisterSubgrove"}
      PROVE  Same(tx)
  BY <1>1 DEF Same, WireBody, NodeReads
<1>2. Same(tx)
  BY <1>1, Kinds, ManifestSame, GrantSame, RotateSame, DocumentSame, RegistrationSame
<1> QED
  BY <1>2 DEF Same

-----------------------------------------------------------------------------

\* What a signed transaction grants can be taken back.
LEMMA GrantedFacts ==
  ASSUME NEW tx \in Transactions, Signable(tx), NEW g \in Granted(tx)
  PROVE  KeySubgroveRule(tx.subgrove_id) /\ DidRule(g.grantee_did)
<1>1. CASE tx.kind = "GrantSubgroveKey"
  BY <1>1 DEF Granted, Signable, GrantRule, GrantRules
<1>2. CASE tx \in RotateTxs /\ tx.kind = "RotateSubgroveKey"
  <2>1. PICK i \in DOMAIN tx.new_grants : g = tx.new_grants[i]
    BY <1>2 DEF Granted, ToSet
  <2> QED
    BY <1>2, <2>1 DEF Signable, RotateRule, GrantRules
<1>3. CASE tx \in RegisterSubgroveTxs /\ tx.kind = "RegisterSubgrove"
  <2> DEFINE b == Normalize(ToDict(tx))
  <2>1. ModeRule(tx) /\ StorageRegistrationRules(b) /\ InitialGrantRules(b)
    BY <1>3 DEF Signable, RegisterSubgroveRule
  <2>2. /\ b.subgrove_id = tx.subgrove_id /\ b.privacy = tx.privacy
        /\ b.mode = Some(SubgroveMode(Default(MergedMode(tx), NoMode)))
        /\ b.initial_owner_key_grant = Mapped(tx.initial_owner_key_grant, KeyGrant)
    BY <1>3, <2>1, RegistrationFacts
  <2> HIDE DEF b
  <2>3. Default(MergedMode(tx), NoMode).type = "DataStorage" /\ tx.privacy # None /\ g \in ToSet(tx.initial_owner_key_grant)
    BY <1>3 DEF Granted
  <2>4. b.mode[1].type = "DataStorage"
    <3>1. Default(MergedMode(tx), NoMode) \in Modes
      BY <1>3, <2>1, MergedModeFacts
    <3> QED
      BY <2>2, <2>3, <3>1, ModeAgain, OptionFacts
  <2>5. StorageIdRule(tx.subgrove_id)
    BY <2>1, <2>2, <2>4 DEF StorageRegistrationRules
  <2>6. ~Contains(tx.subgrove_id, Colon)
    <3>1. SUFFICES ASSUME NEW i \in 1..Len(tx.subgrove_id), tx.subgrove_id[i] = Colon PROVE FALSE
      BY DEF Contains
    <3>2. DOMAIN tx.subgrove_id = 1..Len(tx.subgrove_id)
      BY <1>3 DEF RegisterSubgroveTxs, Text, List
    <3>3. Colon[1] \in {"word", "dash"}
      BY <2>5, <3>1, <3>2 DEF StorageIdRule, IdChars
    <3> QED
      BY <3>3 DEF Colon
  <2>7. DidRule(g.grantee_did)
    <3>1. tx.initial_owner_key_grant \in Optional(EncryptedKeyGrants)
      BY <1>3 DEF RegisterSubgroveTxs
    <3>2. tx.initial_owner_key_grant # None
      BY <2>3 DEF ToSet, None
    <3>3. tx.initial_owner_key_grant[1] \in EncryptedKeyGrants
          /\ tx.initial_owner_key_grant = Some(tx.initial_owner_key_grant[1])
      BY <3>1, <3>2, OptionalFacts
    <3>4. g = tx.initial_owner_key_grant[1]
      BY <2>3, <3>3, OptionFacts DEF ToSet
    <3>5. b.initial_owner_key_grant = Some(KeyGrant(g))
      BY <2>2, <3>2, <3>4 DEF Mapped
    <3>6. KeyGrant(g) \in ToSet(b.initial_owner_key_grant)
      <4>1. 1 \in DOMAIN Some(KeyGrant(g)) /\ Some(KeyGrant(g))[1] = KeyGrant(g)
        BY OptionFacts
      <4> QED
        BY <3>5, <4>1 DEF ToSet
    <3>7. DidRule(KeyGrant(g).grantee_did)
      BY <2>1, <2>2, <2>3, <2>4, <3>6 DEF InitialGrantRules, Holds
    <3> QED
      BY <3>3, <3>4, <3>7, KeyGrantFacts
  <2> QED
    BY <2>5, <2>6, <2>7 DEF KeySubgroveRule, StorageIdRule
<1>4. CASE tx.kind \notin {"GrantSubgroveKey", "RotateSubgroveKey", "RegisterSubgrove"}
  BY <1>4 DEF Granted
<1> QED
  BY <1>1, <1>2, <1>3, <1>4, Kinds

-----------------------------------------------------------------------------
(* Texts that can be told apart as they are read.                          *)

\* A sequence of anything.
IsSeq(p) == \E S : p \in Seq(S)

\* As far as both go, the two are the same: reading along, nothing has told
\* them apart.
Fit(p, q) == \A i \in 1..Len(p) : i =< Len(q) => p[i] = q[i]

\* A sequence is a function on 1..Len.
LEMMA SeqFacts ==
  ASSUME NEW p, IsSeq(p)
  PROVE  Len(p) \in Nat /\ DOMAIN p = 1..Len(p) /\ p = [i \in 1..Len(p) |-> p[i]]
BY DEF IsSeq

\* Sequences of one length with the same elements are the same.
LEMMA SameSeq ==
  ASSUME NEW p, NEW q, IsSeq(p), IsSeq(q), Len(p) = Len(q), \A i \in 1..Len(p) : p[i] = q[i]
  PROVE  p = q
<1>1. p = [i \in 1..Len(p) |-> p[i]] /\ q = [i \in 1..Len(p) |-> q[i]]
  BY SeqFacts
<1> QED
  BY <1>1

\* What a concatenation holds.
LEMMA CatFacts ==
  ASSUME NEW p, NEW q, IsSeq(p), IsSeq(q)
  PROVE  /\ IsSeq(p \o q) /\ Len(p) \in Nat /\ Len(q) \in Nat /\ Len(p \o q) = Len(p) + Len(q)
         /\ \A i \in 1..Len(p) : (p \o q)[i] = p[i]
         /\ \A i \in 1..Len(q) : (p \o q)[Len(p) + i] = q[i]
<1>1. PICK S, R : p \in Seq(S) /\ q \in Seq(R)
  BY DEF IsSeq
<1> DEFINE T == S \cup R
<1>2. p \in Seq(T) /\ q \in Seq(T)
  BY <1>1
<1> HIDE DEF T
<1>3. p \o q \in Seq(T)
  BY <1>2
<1>4. IsSeq(p \o q)
  BY <1>3 DEF IsSeq
<1> QED
  BY <1>2, <1>4

\* What is read first fits, and if it is the same, so does the rest.
LEMMA Peel ==
  ASSUME NEW p, NEW q, NEW x, NEW y, IsSeq(p), IsSeq(q), IsSeq(x), IsSeq(y), Fit(p \o x, q \o y)
  PROVE  Fit(p, q) /\ (p = q => Fit(x, y))
<1> DEFINE l == p \o x
           r == q \o y
<1>1. /\ Len(p) \in Nat /\ Len(x) \in Nat /\ Len(l) = Len(p) + Len(x)
      /\ \A i \in 1..Len(p) : l[i] = p[i]
      /\ \A i \in 1..Len(x) : l[Len(p) + i] = x[i]
  BY CatFacts
<1>2. /\ Len(q) \in Nat /\ Len(y) \in Nat /\ Len(r) = Len(q) + Len(y)
      /\ \A i \in 1..Len(q) : r[i] = q[i]
      /\ \A i \in 1..Len(y) : r[Len(q) + i] = y[i]
  BY CatFacts
<1>3. \A i \in 1..Len(l) : i =< Len(r) => l[i] = r[i]
  BY DEF Fit
<1> HIDE DEF l, r
<1>4. Fit(p, q)
  BY <1>1, <1>2, <1>3 DEF Fit
<1>5. ASSUME p = q, NEW i \in 1..Len(x), i =< Len(y)
      PROVE  x[i] = y[i]
  <2>1. Len(p) + i \in 1..Len(l) /\ Len(p) + i =< Len(r)
    BY <1>1, <1>2, <1>5
  <2>2. l[Len(p) + i] = r[Len(p) + i]
    BY <1>3, <2>1
  <2>3. i \in 1..Len(y)
    BY <1>2, <1>5
  <2> QED
    BY <1>1, <1>2, <1>5, <2>2, <2>3
<1> QED
  BY <1>4, <1>5 DEF Fit

\* What is read first fits the whole of the other.
LEMMA PeelOne ==
  ASSUME NEW p, NEW q, NEW x, IsSeq(p), IsSeq(q), IsSeq(x)
  PROVE  /\ Fit(p \o x, q) => Fit(p, q)
         /\ Fit(q, p \o x) => Fit(q, p)
<1> DEFINE l == p \o x
<1>1. /\ Len(p) \in Nat /\ Len(x) \in Nat /\ Len(l) = Len(p) + Len(x) /\ Len(q) \in Nat
      /\ \A i \in 1..Len(p) : l[i] = p[i]
  BY CatFacts, SeqFacts
<1> HIDE DEF l
<1>2. Fit(l, q) => Fit(p, q)
  BY <1>1 DEF Fit
<1>3. Fit(q, l) => Fit(q, p)
  BY <1>1 DEF Fit
<1> QED
  BY <1>2, <1>3 DEF l

\* A text fits itself, and one it fits of its own length is itself.
LEMMA FitFacts ==
  ASSUME NEW p, NEW q, IsSeq(p), IsSeq(q)
  PROVE  /\ Fit(p, p)
         /\ Fit(p, q) => Fit(q, p)
         /\ Fit(p, q) /\ Len(p) = Len(q) => p = q
         /\ Fit(p, q) /\ p # << >> /\ q # << >> => p[1] = q[1]
<1>1. Len(p) \in Nat /\ Len(q) \in Nat /\ (p # << >> => Len(p) # 0) /\ (q # << >> => Len(q) # 0)
  BY DEF IsSeq
<1>2. Fit(p, p) /\ (Fit(p, q) => Fit(q, p))
  BY <1>1 DEF Fit
<1>3. Fit(p, q) /\ Len(p) = Len(q) => p = q
  BY <1>1, SameSeq DEF Fit
<1>4. Fit(p, q) /\ p # << >> /\ q # << >> => p[1] = q[1]
  BY <1>1 DEF Fit
<1> QED
  BY <1>2, <1>3, <1>4

\* Three and more in a row.
LEMMA Peel3 ==
  ASSUME NEW p, NEW q, NEW x, NEW y, NEW v, NEW w,
         IsSeq(p), IsSeq(q), IsSeq(x), IsSeq(y), IsSeq(v), IsSeq(w), Fit(p \o x \o v, q \o y \o w)
  PROVE  /\ Fit(p, q)
         /\ p = q => Fit(x, y)
         /\ p = q /\ x = y => Fit(v, w)
<1>1. IsSeq(p \o x) /\ IsSeq(q \o y)
  BY CatFacts
<1>2. Fit(p \o x, q \o y) /\ (p \o x = q \o y => Fit(v, w))
  BY <1>1, Peel
<1> QED
  BY <1>2, Peel

\* A text up to the first of an end it does not hold.
LEMMA Until ==
  ASSUME NEW p, NEW q, NEW e, IsSeq(p), IsSeq(q), Fit(p \o <<e>>, q \o <<e>>),
         \A i \in 1..Len(p) : p[i] # e, \A i \in 1..Len(q) : q[i] # e
  PROVE  p = q
<1>0. IsSeq(<<e>>) /\ Len(<<e>>) = 1 /\ <<e>>[1] = e
  <2>1. <<e>> \in Seq({e})
    OBVIOUS
  <2> QED
    BY <2>1 DEF IsSeq
<1> DEFINE l == p \o <<e>>
           r == q \o <<e>>
<1>1. /\ Len(p) \in Nat /\ Len(l) = Len(p) + 1
      /\ \A i \in 1..Len(p) : l[i] = p[i]
      /\ l[Len(p) + 1] = e
  BY <1>0, CatFacts
<1>2. /\ Len(q) \in Nat /\ Len(r) = Len(q) + 1
      /\ \A i \in 1..Len(q) : r[i] = q[i]
      /\ r[Len(q) + 1] = e
  BY <1>0, CatFacts
<1>3. \A i \in 1..Len(l) : i =< Len(r) => l[i] = r[i]
  BY DEF Fit
<1> HIDE DEF l, r
<1>4. Len(p) = Len(q)
  <2>1. CASE Len(p) < Len(q)
    <3>1. Len(p) + 1 \in 1..Len(q) /\ Len(p) + 1 \in 1..Len(l) /\ Len(p) + 1 =< Len(r)
      BY <1>1, <1>2, <2>1
    <3> QED
      BY <1>1, <1>2, <1>3, <3>1
  <2>2. CASE Len(q) < Len(p)
    <3>1. Len(q) + 1 \in 1..Len(p) /\ Len(q) + 1 \in 1..Len(l) /\ Len(q) + 1 =< Len(r)
      BY <1>1, <1>2, <2>2
    <3> QED
      BY <1>1, <1>2, <1>3, <3>1
  <2> QED
    BY <1>1, <1>2, <2>1, <2>2
<1>5. \A i \in 1..Len(p) : p[i] = q[i]
  <2> TAKE i \in 1..Len(p)
  <2>1. i \in 1..Len(l) /\ i =< Len(r) /\ i \in 1..Len(q)
    BY <1>1, <1>2, <1>4
  <2> QED
    BY <1>1, <1>2, <1>3, <2>1
<1> QED
  BY <1>4, <1>5, SameSeq

-----------------------------------------------------------------------------
(* Texts joined.                                                           *)

\* f holds what the first parts, up to each, make together.
Joins(f, parts) ==
  /\ f[0] = << >>
  /\ \A i \in 1..Len(parts) : f[i] = f[i - 1] \o parts[i]
  /\ \A i \in 0..Len(parts) : IsSeq(f[i])

\* A sequence of texts, to be joined.
Parts(parts) == IsSeq(parts) /\ \A i \in 1..Len(parts) : IsSeq(parts[i])

\* The empty text, and the only one of no length.
LEMMA NoTokens == IsSeq(<< >>) /\ Len(<< >>) = 0
<1>1. IsSeq(<< >>)
  <2>1. << >> \in Seq({})
    OBVIOUS
  <2> QED
    BY <2>1, Zenon DEF IsSeq
<1>2. Len(<< >>) = 0
  OBVIOUS
<1> QED
  BY <1>1, <1>2

\* Every sequence of texts has a join.
LEMMA JoinsExist ==
  ASSUME NEW parts, Parts(parts)
  PROVE  \E f : Joins(f, parts)
<1> DEFINE n == Len(parts)
           To(f, k) == /\ f[0] = << >>
                       /\ \A i \in 1..k : f[i] = f[i - 1] \o parts[i]
                       /\ \A i \in 0..k : IsSeq(f[i])
           Without == {k \in 0..n : ~\E f : To(f, k)}
<1>1. n \in Nat /\ \A i \in 1..n : IsSeq(parts[i])
  BY SeqFacts DEF Parts
<1>2. Without = {}
  <2> SUFFICES ASSUME Without # {} PROVE FALSE
    OBVIOUS
  <2>1. Without \subseteq Nat
    <3> HIDE DEF To
    <3> QED
      BY <1>1
  <2> HIDE DEF Without
  <2>2. PICK k \in Without : \A m \in Without : k =< m
    BY <2>1, LeastNat
  <2>3. k \in 0..n /\ ~\E f : To(f, k)
    BY <2>2 DEF Without
  <2>4. k # 0
    <3> DEFINE none == [i \in 0..0 |-> << >>]
    <3>a. none[0] = << >> /\ \A i \in 0..0 : none[i] = << >>
      OBVIOUS
    <3> HIDE DEF none
    <3>b. \A i \in 1..0 : none[i] = none[i - 1] \o parts[i]
      OBVIOUS
    <3>c. \A i \in 0..0 : IsSeq(none[i])
      <4> TAKE i \in 0..0
      <4>1. none[i] = << >>
        BY <3>a
      <4> QED
        BY <4>1, NoTokens, Zenon
    <3>1. To(none, 0)
      BY <3>a, <3>b, <3>c, Zenon
    <3> QED
      BY <2>3, <3>1
  <2>5. k - 1 \in 0..n /\ ~(k =< k - 1)
    BY <1>1, <2>3, <2>4
  <2>6. PICK f : To(f, k - 1)
    BY <2>2, <2>5 DEF Without
  <2> DEFINE g == [i \in 0..k |-> IF i = k THEN f[k - 1] \o parts[k] ELSE f[i]]
  <2>7. g[0] = << >> /\ k \in 1..n
    BY <1>1, <2>3, <2>4, <2>6
  <2>8. IsSeq(f[k - 1] \o parts[k])
    <3>1. IsSeq(f[k - 1]) /\ IsSeq(parts[k])
      BY <1>1, <2>6, <2>7
    <3> QED
      BY <3>1, CatFacts
  <2>9. ASSUME NEW i \in 1..k PROVE g[i] = g[i - 1] \o parts[i]
    <3>1. i - 1 \in 0..k /\ i - 1 # k /\ g[i - 1] = f[i - 1]
      BY <1>1, <2>7
    <3>2. CASE i = k
      BY <3>1, <3>2
    <3>3. CASE i # k
      <4>1. i \in 1..(k - 1) /\ g[i] = f[i]
        BY <1>1, <2>7, <3>3
      <4> QED
        BY <2>6, <3>1, <4>1
    <3> QED
      BY <3>2, <3>3
  <2>10. \A i \in 0..k : IsSeq(g[i])
    <3> TAKE i \in 0..k
    <3>1. CASE i = k
      BY <2>8, <3>1
    <3>2. CASE i # k
      <4>1. i \in 0..(k - 1)
        BY <1>1, <2>7, <3>2
      <4> QED
        BY <2>6, <3>2, <4>1
    <3> QED
      BY <3>1, <3>2
  <2>11. To(g, k)
    BY <2>7, <2>9, <2>10
  <2> QED
    BY <2>3, <2>11
<1>3. n \in 0..n
  BY <1>1
<1>4. \E f : To(f, n)
  BY <1>2, <1>3
<1> QED
  BY <1>4 DEF Joins

\* Joining is what any such f ends with.
LEMMA FlattenJoins ==
  ASSUME NEW parts, Parts(parts), NEW f, Joins(f, parts)
  PROVE  FlattenSeq(parts) = f[Len(parts)] /\ IsSeq(FlattenSeq(parts))
<1> DEFINE n == Len(parts)
           step(g) == [i \in 1..n |-> IF i = 1 THEN parts[i] ELSE g[i - 1] \o parts[i]]
           g == CHOOSE g : g = step(g)
           h == [i \in 1..n |-> f[i]]
<1>0. n \in Nat /\ (n = 0 => parts = << >>) /\ (\A i \in 1..n : IsSeq(parts[i])) /\ n \in 0..n /\ IsSeq(f[n])
  BY SeqFacts DEF Parts, Joins, IsSeq
<1>1. CASE n = 0
  BY <1>0, <1>1, NoTokens DEF FlattenSeq, Joins
<1>2. CASE n # 0
  <2>1. h = step(h)
    <3>1. ASSUME NEW i \in 1..n PROVE h[i] = (IF i = 1 THEN parts[i] ELSE h[i - 1] \o parts[i])
      <4>1. f[i] = f[i - 1] \o parts[i]
        BY DEF Joins
      <4>2. CASE i = 1
        <5>1. f[0] = << >> /\ IsSeq(parts[1])
          BY <1>0, <4>2 DEF Joins
        <5>2. << >> \o parts[1] = parts[1]
          BY <5>1 DEF IsSeq
        <5>3. i - 1 = 0
          BY <4>2
        <5>4. f[1] = parts[1]
          BY <4>1, <4>2, <5>1, <5>2, <5>3, Zenon
        <5>5. h[i] = f[i]
          OBVIOUS
        <5> HIDE DEF h
        <5> QED
          BY <4>2, <5>4, <5>5
      <4>3. CASE i # 1
        <5>1. i - 1 \in 1..n
          BY <1>0, <4>3
        <5> QED
          BY <4>1, <4>3, <5>1
      <4> QED
        BY <4>2, <4>3
    <3> QED
      BY <3>1
  <2>2. g = step(g)
    <3> HIDE DEF step, h
    <3> QED
      BY <2>1
  <2>3. FlattenSeq(parts) = g[n]
    BY <1>0, <1>2 DEF FlattenSeq
  <2> HIDE DEF g
  <2> DEFINE Differ == {i \in 1..n : g[i] # h[i]}
  <2>4. Differ = {}
    <3> SUFFICES ASSUME Differ # {} PROVE FALSE
      OBVIOUS
    <3>1. Differ \subseteq Nat
      BY <1>0
    <3> HIDE DEF Differ
    <3>2. PICK b \in Differ : \A m \in Differ : b =< m
      BY <3>1, LeastNat
    <3>3. b \in 1..n /\ g[b] # h[b]
      BY <3>2 DEF Differ
    <3>4. g[b] = (IF b = 1 THEN parts[b] ELSE g[b - 1] \o parts[b])
      BY <2>2, <3>3
    <3>5. h[b] = (IF b = 1 THEN parts[b] ELSE h[b - 1] \o parts[b])
      <4> HIDE DEF h
      <4> QED
        BY <2>1, <3>3
    <3>6. b # 1 => b - 1 \in 1..n /\ ~(b =< b - 1)
      BY <1>0, <3>3
    <3>7. b # 1 => g[b - 1] = h[b - 1]
      BY <3>2, <3>6 DEF Differ
    <3> QED
      BY <3>3, <3>4, <3>5, <3>7
  <2>5. n \in 1..n
    BY <1>0, <1>2
  <2>6. g[n] = h[n]
    BY <2>4, <2>5
  <2> QED
    BY <1>0, <2>3, <2>5, <2>6
<1> QED
  BY <1>1, <1>2

\* What fits the whole fits what its first parts make.
LEMMA JoinsFit ==
  ASSUME NEW parts, Parts(parts), NEW f, Joins(f, parts), NEW r, IsSeq(r), Fit(f[Len(parts)], r),
         NEW k \in 0..Len(parts)
  PROVE  Fit(f[k], r)
<1> DEFINE n == Len(parts)
           Unlike == {i \in 0..n : ~Fit(f[n - i], r)}
<1>0. n \in Nat
  BY SeqFacts DEF Parts
<1>1. Unlike = {}
  <2> SUFFICES ASSUME Unlike # {} PROVE FALSE
    OBVIOUS
  <2>1. Unlike \subseteq Nat
    BY <1>0
  <2> HIDE DEF Unlike
  <2>2. PICK b \in Unlike : \A m \in Unlike : b =< m
    BY <2>1, LeastNat
  <2>3. b \in 0..n /\ ~Fit(f[n - b], r)
    BY <2>2 DEF Unlike
  <2>4. b # 0
    BY <1>0, <2>3
  <2>5. b - 1 \in 0..n /\ ~(b =< b - 1) /\ n - b + 1 \in 1..n /\ n - (b - 1) = n - b + 1 /\ n - b \in 0..n /\
          n - b + 1 - 1 = n - b
    BY <1>0, <2>3, <2>4
  <2>6. Fit(f[n - b + 1], r)
    <3>1. Fit(f[n - (b - 1)], r)
      BY <2>2, <2>5 DEF Unlike
    <3> QED
      BY <2>5, <3>1
  <2>7. f[n - b + 1] = f[n - b] \o parts[n - b + 1] /\ IsSeq(f[n - b]) /\ IsSeq(parts[n - b + 1])
    <3>1. PICK i \in 1..n : i = n - b + 1
      BY <2>5
    <3>2. f[i] = f[i - 1] \o parts[i] /\ IsSeq(parts[i])
      BY DEF Joins, Parts
    <3>3. i - 1 = n - b /\ IsSeq(f[n - b])
      BY <1>0, <2>3, <2>5, <3>1 DEF Joins
    <3> QED
      BY <3>1, <3>2, <3>3
  <2> QED
    BY <2>3, <2>6, <2>7, PeelOne
<1>2. n - k \in 0..n /\ n - (n - k) = k
  BY <1>0
<1>3. Fit(f[n - (n - k)], r)
  BY <1>1, <1>2
<1> QED
  BY <1>2, <1>3

\* Parts that are each told from the others as they are read, joined, can be
\* told apart.
LEMMA FlattenTells ==
  ASSUME NEW parts, NEW others, Parts(parts), Parts(others), Fit(FlattenSeq(parts), FlattenSeq(others)),
         \A i \in 1..Len(parts) : i =< Len(others) /\ Fit(parts[i], others[i]) => parts[i] = others[i]
  PROVE  Fit(parts, others)
<1>1. PICK f : Joins(f, parts)
  BY JoinsExist
<1>2. PICK g : Joins(g, others)
  BY JoinsExist
<1> DEFINE n == Len(parts)
           m == Len(others)
<1>3. n \in Nat /\ m \in Nat
  BY SeqFacts DEF Parts
<1>4. Fit(f[n], g[m]) /\ IsSeq(f[n]) /\ IsSeq(g[m])
  BY <1>1, <1>2, <1>3, FlattenJoins
<1>5. ASSUME NEW i \in 0..n, NEW j \in 0..m PROVE Fit(f[i], g[j])
  <2>1. IsSeq(f[i]) /\ IsSeq(g[j])
    BY <1>1, <1>2 DEF Joins
  <2>2. Fit(f[i], g[m])
    BY <1>1, <1>4, JoinsFit
  <2>3. Fit(g[m], f[i])
    BY <1>4, <2>1, <2>2, FitFacts
  <2>4. Fit(g[j], f[i])
    BY <1>2, <2>1, <2>3, JoinsFit
  <2> QED
    BY <2>1, <2>4, FitFacts
<1>6. ASSUME NEW i \in 1..n, i =< m, f[i - 1] = g[i - 1]
      PROVE  parts[i] = others[i] /\ f[i] = g[i]
  <2>1. i \in 1..m /\ i \in 0..n /\ i \in 0..m /\ i - 1 \in 0..n
    BY <1>3, <1>6
  <2>2. f[i] = f[i - 1] \o parts[i] /\ g[i] = g[i - 1] \o others[i] /\ IsSeq(f[i - 1]) /\ IsSeq(parts[i]) /\
          IsSeq(others[i])
    BY <1>1, <1>2, <2>1 DEF Joins, Parts
  <2>3. Fit(f[i - 1] \o parts[i], g[i - 1] \o others[i])
    BY <1>5, <2>1, <2>2
  <2>4. Fit(parts[i], others[i])
    BY <1>6, <2>2, <2>3, Peel
  <2> QED
    BY <1>6, <2>2, <2>4
<1> DEFINE Unlike == {i \in 0..n : i =< m /\ f[i] # g[i]}
<1>7. Unlike = {}
  <2> SUFFICES ASSUME Unlike # {} PROVE FALSE
    OBVIOUS
  <2>1. Unlike \subseteq Nat
    BY <1>3
  <2> HIDE DEF Unlike
  <2>2. PICK b \in Unlike : \A c \in Unlike : b =< c
    BY <2>1, LeastNat
  <2>3. b \in 0..n /\ b =< m /\ f[b] # g[b]
    BY <2>2 DEF Unlike
  <2>4. b # 0
    BY <1>1, <1>2, <2>3 DEF Joins
  <2>5. b - 1 \in 0..n /\ b - 1 =< m /\ ~(b =< b - 1) /\ b \in 1..n
    BY <1>3, <2>3, <2>4
  <2>6. f[b - 1] = g[b - 1]
    BY <2>2, <2>5 DEF Unlike
  <2> QED
    BY <1>6, <2>3, <2>5, <2>6
<1>8. ASSUME NEW i \in 1..n, i =< m PROVE parts[i] = others[i]
  <2>1. i - 1 \in 0..n /\ i - 1 =< m
    BY <1>3, <1>8
  <2>2. f[i - 1] = g[i - 1]
    BY <1>7, <2>1
  <2> QED
    BY <1>6, <1>8, <2>2
<1> QED
  BY <1>8 DEF Fit

\* One part more.
LEMMA FlattenAppend ==
  ASSUME NEW parts, Parts(parts), NEW p, IsSeq(p)
  PROVE  Parts(Append(parts, p)) /\ FlattenSeq(Append(parts, p)) = FlattenSeq(parts) \o p
<1> DEFINE n == Len(parts)
           more == Append(parts, p)
<1>1. /\ n \in Nat /\ Len(more) = n + 1 /\ IsSeq(more)
      /\ \A i \in 1..n : more[i] = parts[i]
      /\ more[n + 1] = p
  <2>1. PICK S : parts \in Seq(S)
    BY DEF Parts, IsSeq
  <2> DEFINE T == S \cup {p}
  <2>2. parts \in Seq(T) /\ p \in T
    BY <2>1
  <2> HIDE DEF T
  <2>3. more \in Seq(T)
    BY <2>2
  <2>4. IsSeq(more)
    BY <2>3 DEF IsSeq
  <2> QED
    BY <2>2, <2>4
<1> HIDE DEF more
<1>2. \A i \in 1..n : IsSeq(parts[i])
  BY DEF Parts
<1>3. Parts(more)
  <2>1. ASSUME NEW i \in 1..Len(more) PROVE IsSeq(more[i])
    <3>1. i \in 1..n \/ i = n + 1
      BY <1>1
    <3> QED
      BY <1>1, <1>2, <3>1
  <2> QED
    BY <1>1, <2>1 DEF Parts
<1>4. PICK f : Joins(f, more)
  BY <1>3, JoinsExist
<1>5. Joins(f, parts)
  <2>1. f[0] = << >>
    BY <1>4 DEF Joins
  <2>2. \A i \in 1..n : f[i] = f[i - 1] \o parts[i]
    <3> TAKE i \in 1..n
    <3>1. i \in 1..Len(more)
      BY <1>1
    <3> QED
      BY <1>1, <1>4, <3>1 DEF Joins
  <2>3. \A i \in 0..n : IsSeq(f[i])
    <3> TAKE i \in 0..n
    <3>1. i \in 0..Len(more)
      BY <1>1
    <3> QED
      BY <1>4, <3>1 DEF Joins
  <2> QED
    BY <2>1, <2>2, <2>3 DEF Joins
<1>6. FlattenSeq(more) = f[n + 1] /\ FlattenSeq(parts) = f[n]
  BY <1>1, <1>3, <1>4, <1>5, FlattenJoins
<1>7. f[n + 1] = f[n] \o p
  <2>1. PICK i \in 1..Len(more) : i = n + 1
    BY <1>1
  <2>2. f[i] = f[i - 1] \o more[i]
    BY <1>4 DEF Joins
  <2>3. i - 1 = n /\ more[i] = p
    BY <1>1, <2>1
  <2>4. f[i] = f[n] \o p
    BY <2>2, <2>3
  <2> QED
    BY <2>1, <2>4
<1> QED
  BY <1>3, <1>6, <1>7 DEF more

\* One token.
LEMMA OneToken ==
  ASSUME NEW e
  PROVE  IsSeq(<<e>>) /\ Len(<<e>>) = 1 /\ <<e>>[1] = e /\ <<e>> # << >>
<1>1. <<e>> \in Seq({e}) /\ Len(<<e>>) = 1 /\ <<e>>[1] = e /\ <<e>> # << >>
  OBVIOUS
<1> QED
  BY <1>1 DEF IsSeq

\* Concatenation is associative.
LEMMA Grouped ==
  ASSUME NEW p, NEW q, NEW x, IsSeq(p), IsSeq(q), IsSeq(x)
  PROVE  (p \o q) \o x = p \o (q \o x)
<1> DEFINE a == p \o q
           b == q \o x
           l == a \o x
           r == p \o b
<1>1. /\ IsSeq(a) /\ Len(a) = Len(p) + Len(q) /\ Len(p) \in Nat /\ Len(q) \in Nat
      /\ \A i \in 1..Len(p) : a[i] = p[i]
      /\ \A i \in 1..Len(q) : a[Len(p) + i] = q[i]
  BY CatFacts
<1>2. /\ IsSeq(b) /\ Len(b) = Len(q) + Len(x) /\ Len(x) \in Nat
      /\ \A i \in 1..Len(q) : b[i] = q[i]
      /\ \A i \in 1..Len(x) : b[Len(q) + i] = x[i]
  BY CatFacts
<1>3. /\ IsSeq(l) /\ Len(l) = Len(a) + Len(x)
      /\ \A i \in 1..Len(a) : l[i] = a[i]
      /\ \A i \in 1..Len(x) : l[Len(a) + i] = x[i]
  BY <1>1, CatFacts
<1>4. /\ IsSeq(r) /\ Len(r) = Len(p) + Len(b)
      /\ \A i \in 1..Len(p) : r[i] = p[i]
      /\ \A i \in 1..Len(b) : r[Len(p) + i] = b[i]
  BY <1>2, CatFacts
<1> HIDE DEF a, b, l, r
<1>5. Len(l) = Len(r)
  BY <1>1, <1>2, <1>3, <1>4
<1>6. ASSUME NEW i \in 1..Len(l) PROVE l[i] = r[i]
  <2>1. CASE i \in 1..Len(p)
    <3>1. i \in 1..Len(a)
      BY <1>1, <2>1
    <3> QED
      BY <1>1, <1>3, <1>4, <2>1, <3>1
  <2>2. CASE i - Len(p) \in 1..Len(q)
    <3> DEFINE j == i - Len(p)
    <3>1. i = Len(p) + j /\ j \in 1..Len(q) /\ i \in 1..Len(a) /\ j \in 1..Len(b)
      BY <1>1, <1>2, <2>2
    <3> HIDE DEF j
    <3>2. a[i] = q[j] /\ l[i] = a[i]
      BY <1>1, <1>3, <3>1
    <3>3. r[i] = b[j] /\ b[j] = q[j]
      BY <1>2, <1>4, <3>1
    <3> QED
      BY <3>2, <3>3
  <2>3. CASE i - Len(a) \in 1..Len(x)
    <3> DEFINE j == i - Len(a)
    <3>1. i = Len(a) + j /\ j \in 1..Len(x) /\ i = Len(p) + (Len(q) + j) /\ Len(q) + j \in 1..Len(b)
      BY <1>1, <1>2, <2>3
    <3> HIDE DEF j
    <3>2. l[i] = x[j]
      BY <1>3, <3>1
    <3>3. r[i] = b[Len(q) + j] /\ b[Len(q) + j] = x[j]
      BY <1>2, <1>4, <3>1
    <3> QED
      BY <3>2, <3>3
  <2>4. i \in 1..Len(p) \/ i - Len(p) \in 1..Len(q) \/ i - Len(a) \in 1..Len(x)
    BY <1>1, <1>2, <1>3
  <2> QED
    BY <2>1, <2>2, <2>3, <2>4
<1> QED
  BY <1>3, <1>4, <1>5, <1>6, SameSeq DEF l, r, a, b

\* A function on 1..n is a sequence of length n.
LEMMA OfLength ==
  ASSUME NEW n \in Nat, NEW f, f = [i \in 1..n |-> f[i]]
  PROVE  IsSeq(f) /\ Len(f) = n
<1>1. f \in [1..n -> {f[i] : i \in 1..n}]
  OBVIOUS
<1>2. f \in Seq({f[i] : i \in 1..n}) /\ Len(f) = n
  BY <1>1
<1> QED
  BY <1>2 DEF IsSeq

\* Lines joined, and one more line break, are the lines, each with its line break.
LEMMA LinesEnded ==
  ASSUME NEW lines, Parts(lines), Len(lines) # 0
  PROVE  /\ Parts([i \in 1..Len(lines) |-> lines[i] \o <<LineBreak>>])
         /\ IsSeq(JoinLines(lines))
         /\ JoinLines(lines) \o <<LineBreak>> = FlattenSeq([i \in 1..Len(lines) |-> lines[i] \o <<LineBreak>>])
<1> DEFINE n == Len(lines)
           LB == <<LineBreak>>
           begun == [i \in 1..n |-> IF i = 1 THEN lines[1] ELSE LB \o lines[i]]
           ended == [i \in 1..n |-> lines[i] \o LB]
<1> HIDE DEF LB
<1>1. n \in Nat /\ n \in 1..n /\ (\A i \in 1..n : IsSeq(lines[i])) /\ IsSeq(LB)
  BY SeqFacts, OneToken DEF Parts, LB
<1>2. \A i \in 1..n : IsSeq(begun[i]) /\ IsSeq(ended[i])
  BY <1>1, CatFacts
<1>3. IsSeq(begun) /\ Len(begun) = n /\ IsSeq(ended) /\ Len(ended) = n
  <2>1. begun = [i \in 1..n |-> begun[i]] /\ ended = [i \in 1..n |-> ended[i]]
    OBVIOUS
  <2> HIDE DEF begun, ended
  <2> QED
    BY <1>1, <2>1, OfLength
<1>a. (\A i \in 1..n : ended[i] = lines[i] \o LB) /\ begun[1] = lines[1] /\ \A i \in 1..n : i # 1 =>
        begun[i] = LB \o lines[i]
  BY <1>1
<1>b. JoinLines(lines) = FlattenSeq(begun)
  BY DEF JoinLines, LB
<1> HIDE DEF begun, ended
<1>4. Parts(begun) /\ Parts(ended)
  BY <1>2, <1>3 DEF Parts
<1>5. PICK f : Joins(f, begun)
  BY <1>4, JoinsExist
<1> DEFINE g == [i \in 0..n |-> IF i = 0 THEN << >> ELSE f[i] \o LB]
<1>6. /\ f[0] = << >>
      /\ \A i \in 1..n : f[i] = f[i - 1] \o begun[i]
      /\ \A i \in 0..n : IsSeq(f[i])
  BY <1>3, <1>5 DEF Joins
<1>c. g[0] = << >> /\ (\A i \in 1..n : g[i] = f[i] \o LB)
  BY <1>1
<1> HIDE DEF g
<1>7. Joins(g, ended)
  <2>1. ASSUME NEW i \in 1..n PROVE g[i] = g[i - 1] \o ended[i]
    <3>1. i - 1 \in 0..n /\ IsSeq(f[i - 1]) /\ IsSeq(lines[i]) /\ i \in 0..n
      BY <1>1, <1>6
    <3>2. CASE i = 1
      <4>1. i - 1 = 0
        BY <3>2
      <4>2. f[i] = f[0] \o lines[1]
        BY <1>6, <1>a, <3>2, <4>1
      <4>3. << >> \o lines[1] = lines[1] /\ << >> \o ended[1] = ended[1]
        BY <1>2, <3>1, <3>2 DEF IsSeq
      <4>4. g[i] = ended[1]
        <5>1. g[i] = (<< >> \o lines[1]) \o LB
          BY <1>6, <1>c, <4>2
        <5>2. ended[1] = lines[1] \o LB
          BY <1>a, <3>2
        <5> QED
          BY <4>3, <5>1, <5>2
      <4>5. g[i - 1] \o ended[i] = ended[1]
        BY <1>c, <3>2, <4>1, <4>3
      <4> QED
        BY <4>4, <4>5
    <3>3. CASE i # 1
      <4>1. i - 1 \in 1..n
        BY <1>1, <3>3
      <4>2. PICK p : p = f[i - 1]
        OBVIOUS
      <4>3. PICK l : l = lines[i]
        OBVIOUS
      <4>4. IsSeq(p) /\ IsSeq(l) /\ IsSeq(p \o LB)
        BY <1>1, <3>1, <4>2, <4>3, CatFacts
      <4>5. f[i] = p \o (LB \o l)
        BY <1>6, <1>a, <3>3, <4>2, <4>3
      <4>6. (p \o LB) \o l = p \o (LB \o l)
        <5>1. IsSeq(p) /\ IsSeq(LB) /\ IsSeq(l)
          BY <1>1, <4>4
        <5> QED
          BY <5>1, Grouped
      <4>7. ((p \o LB) \o l) \o LB = (p \o LB) \o (l \o LB)
        <5>1. PICK q : q = p \o LB
          OBVIOUS
        <5>2. IsSeq(q) /\ IsSeq(l) /\ IsSeq(LB)
          BY <1>1, <4>4, <5>1
        <5>3. (q \o l) \o LB = q \o (l \o LB)
          BY <5>2, Grouped
        <5> QED
          BY <5>1, <5>3
      <4>8. g[i] = ((p \o LB) \o l) \o LB
        BY <1>c, <4>5, <4>6
      <4>9. g[i - 1] = p \o LB /\ ended[i] = l \o LB
        BY <1>a, <1>c, <4>1, <4>2, <4>3
      <4> QED
        BY <4>7, <4>8, <4>9
    <3> QED
      BY <3>2, <3>3
  <2>2. ASSUME NEW i \in 0..n PROVE IsSeq(g[i])
    <3>1. CASE i = 0
      BY <1>c, <3>1, NoTokens, Zenon
    <3>2. CASE i # 0
      <4>1. i \in 1..n
        BY <1>1, <3>2
      <4>2. IsSeq(f[i]) /\ g[i] = f[i] \o LB
        BY <1>6, <1>c, <4>1
      <4> QED
        BY <1>1, <4>2, CatFacts
    <3> QED
      BY <3>1, <3>2
  <2> QED
    BY <1>3, <1>c, <2>1, <2>2 DEF Joins
<1>8. FlattenSeq(begun) = f[n] /\ FlattenSeq(ended) = g[n] /\ IsSeq(FlattenSeq(begun))
  BY <1>3, <1>4, <1>5, <1>7, FlattenJoins
<1>9. g[n] = f[n] \o LB
  BY <1>1, <1>c
<1> QED
  BY <1>4, <1>8, <1>9, <1>b DEF ended, LB

\* The lines read back one way only.
LEMMA LinesTell ==
  ASSUME NEW lines, NEW others, Parts(lines), Parts(others), Len(lines) # 0, Len(others) # 0,
         JoinLines(lines) = JoinLines(others),
         \A i \in 1..Len(lines) : \A j \in 1..Len(lines[i]) : lines[i][j] # LineBreak,
         \A i \in 1..Len(others) : \A j \in 1..Len(others[i]) : others[i][j] # LineBreak
  PROVE  Fit(lines, others)
<1> DEFINE ended == [i \in 1..Len(lines) |-> lines[i] \o <<LineBreak>>]
           closed == [i \in 1..Len(others) |-> others[i] \o <<LineBreak>>]
<1>0. Len(lines) \in Nat /\ Len(others) \in Nat /\ \A i \in 1..Len(lines) : IsSeq(lines[i])
  BY SeqFacts DEF Parts
<1>1. /\ Parts(ended) /\ Parts(closed) /\ FlattenSeq(ended) = FlattenSeq(closed)
  BY LinesEnded
<1>2. /\ Len(ended) = Len(lines) /\ Len(closed) = Len(others)
      /\ \A i \in 1..Len(lines) : ended[i] = lines[i] \o <<LineBreak>>
      /\ \A i \in 1..Len(others) : closed[i] = others[i] \o <<LineBreak>>
  BY <1>0
<1> HIDE DEF ended, closed
<1>3. Fit(FlattenSeq(ended), FlattenSeq(closed))
  <2>1. IsSeq(FlattenSeq(ended))
    BY <1>1, JoinsExist, FlattenJoins
  <2> QED
    BY <1>1, <2>1, FitFacts
<1>4. ASSUME NEW i \in 1..Len(lines), i =< Len(others), Fit(ended[i], closed[i])
      PROVE  lines[i] = others[i]
  <2>1. i \in 1..Len(others) /\ IsSeq(lines[i]) /\ IsSeq(others[i])
    BY <1>0, <1>4 DEF Parts
  <2>2. Fit(lines[i] \o <<LineBreak>>, others[i] \o <<LineBreak>>)
    BY <1>2, <1>4, <2>1
  <2> QED
    BY <2>1, <2>2, Until
<1>5. Fit(ended, closed)
  <2>1. ASSUME NEW i \in 1..Len(lines), i =< Len(others), Fit(ended[i], closed[i]) PROVE ended[i] = closed[i]
    <3>1. i \in 1..Len(others)
      BY <1>0, <2>1
    <3> QED
      BY <1>2, <1>4, <2>1, <3>1
  <2> QED
    BY <1>1, <1>2, <1>3, <2>1, FlattenTells
<1>6. ASSUME NEW i \in 1..Len(lines), i =< Len(others) PROVE lines[i] = others[i]
  <2>1. ended[i] = closed[i]
    BY <1>2, <1>5, <1>6 DEF Fit
  <2>2. IsSeq(ended[i])
    BY <1>1, <1>2 DEF Parts
  <2>3. Fit(ended[i], closed[i])
    BY <2>1, <2>2, FitFacts
  <2> QED
    BY <1>4, <1>6, <2>3
<1> QED
  BY <1>6 DEF Fit

-----------------------------------------------------------------------------
(* Lines.                                                                  *)
Unbroken(p) == IsSeq(p) /\ \A i \in 1..Len(p) : p[i] # LineBreak

\* A text a caller gives is a sequence.
LEMMA TextFacts ==
  ASSUME NEW S, NEW p \in List(S)
  PROVE  IsSeq(p) /\ p \in Seq(S) /\ Len(p) \in 0..(Power[8] - 1)
<1>1. p \in Seq(S) /\ Len(p) < Power[8] /\ Len(p) \in Nat /\ Power[8] \in Nat
  BY PowerFacts DEF List
<1> QED
  BY <1>1 DEF IsSeq

\* What a line takes does not break it.
LEMMA FieldUnbroken ==
  ASSUME NEW p \in Text, FieldRule(p)
  PROVE  Unbroken(p)
<1>1. IsSeq(p) /\ p \in Seq(Chars)
  BY TextFacts DEF Text
<1>2. \A i \in 1..Len(p) : p[i] # LineBreak
  BY DEF FieldRule, Contains
<1> QED
  BY <1>1, <1>2 DEF Unbroken

\* A token that is not a line break is a line in one piece.
LEMMA TokenUnbroken ==
  ASSUME NEW e, e # LineBreak
  PROVE  Unbroken(<<e>>)
BY OneToken DEF Unbroken

\* A labelled line with a value in one piece is in one piece.
LEMMA LineFacts ==
  ASSUME NEW label, NEW p, Unbroken(p)
  PROVE  /\ Unbroken(Line(label, p))
         /\ \A q : IsSeq(q) /\ Line(label, p) = Line(label, q) => p = q
<1> DEFINE l == <<Label(label)>>
           r == l \o p
<1>1. Line(label, p) = r /\ IsSeq(l) /\ Len(l) = 1 /\ l[1] = Label(label) /\ IsSeq(p)
  BY OneToken DEF Line, Unbroken
<1>2. /\ IsSeq(r) /\ Len(r) = 1 + Len(p) /\ Len(p) \in Nat /\ r[1] = Label(label)
      /\ \A i \in 1..Len(p) : r[1 + i] = p[i]
  BY <1>1, CatFacts
<1>3. ASSUME NEW q, IsSeq(q), Line(label, p) = Line(label, q) PROVE p = q
  <2>1. r = l \o q
    BY <1>1, <1>3 DEF Line
  <2>2. Fit(r, l \o q) /\ Fit(l \o q, r)
    BY <1>2, <2>1, FitFacts
  <2>3. Fit(p, q)
    BY <1>1, <1>3, <2>2, Peel
  <2>4. Len(l \o q) = 1 + Len(q) /\ Len(q) \in Nat
    BY <1>1, <1>3, CatFacts
  <2>5. Len(p) = Len(q)
    BY <1>2, <2>1, <2>4
  <2> QED
    BY <1>1, <1>3, <2>3, <2>5, FitFacts
<1> HIDE DEF r, l
<1>4. ASSUME NEW i \in 1..Len(r) PROVE r[i] # LineBreak
  <2>1. Label(label) # LineBreak
    BY DEF Label, LineBreak
  <2>2. CASE i = 1
    BY <1>2, <2>1, <2>2
  <2>3. CASE i # 1
    <3>1. PICK j \in 1..Len(p) : i = 1 + j
      <4>1. i - 1 \in 1..Len(p) /\ i = 1 + (i - 1)
        BY <1>2, <2>3
      <4> QED
        BY <4>1
    <3> QED
      BY <1>2, <3>1 DEF Unbroken
  <2> QED
    BY <2>2, <2>3
<1> QED
  BY <1>1, <1>2, <1>3, <1>4 DEF Unbroken

-----------------------------------------------------------------------------
(* Numbers of a fixed width.                                               *)

\* Powers grow.
LEMMA PowerBounds ==
  /\ Power[1] = Base /\ Base \in Nat /\ Base >= 2
  /\ Power[4] \in Nat /\ Power[4] >= 4
  /\ \A b \in Nat : Power[b] \in Nat \ {0}
<1>1. /\ Power[0] = 1 /\ Power[0 + 1] = Base * Power[0] /\ Power[1 + 1] = Base * Power[1]
      /\ Power[2 + 1] = Base * Power[2] /\ Power[3 + 1] = Base * Power[3]
      /\ \A b \in Nat : Power[b] \in Nat \ {0}
  BY PowerFacts
<1>2. Base \in Nat /\ Base >= 2
  BY TextFieldsAssumption
<1>3. Power[1] = Base
  BY <1>1, <1>2
<1>4. \A x \in Nat : x >= 1 => Base * x >= 2 * x /\ Base * x \in Nat
  BY <1>2
<1>5. Power[2] \in Nat /\ Power[2] >= 4
  BY <1>1, <1>2, <1>3, <1>4
<1>6. Power[3] \in Nat /\ Power[3] >= 4
  BY <1>1, <1>4, <1>5
<1>7. Power[4] \in Nat /\ Power[4] >= 4
  BY <1>1, <1>4, <1>6
<1> QED
  BY <1>1, <1>2, <1>3, <1>7

\* A number is its last digit and what is before it.
LEMMA Quotients ==
  ASSUME NEW n \in Nat, NEW i \in Nat
  PROVE  LET q == n \div Power[i]
             r == n \div Power[i + 1]
         IN q \in Nat /\ r \in Nat /\ q = Base * r + (q % Base)
<1>1. Power[i] \in Nat /\ Power[i] > 0 /\ Power[i + 1] = Base * Power[i] /\ Base \in Nat /\ Base > 0
  BY PowerFacts, PowerBounds
<1>2. ASSUME NEW p \in Nat, p > 0 PROVE n \div (Base * p) = (n \div p) \div Base /\ n \div p \in Nat
  <2>1. PICK q \in Nat, s \in Nat : q = n \div p /\ n = p * q + s /\ s < p
    <3>1. n \div p \in Nat /\ n % p \in Nat /\ n = p * (n \div p) + (n % p) /\ n % p < p
      BY <1>2
    <3> QED
      BY <3>1
  <2>2. PICK r \in Nat, t \in Nat : r = q \div Base /\ q = Base * r + t /\ t < Base
    <3>1. q \div Base \in Nat /\ q % Base \in Nat /\ q = Base * (q \div Base) + (q % Base) /\ q % Base < Base
      BY <1>1
    <3> QED
      BY <3>1
  <2>3. PICK c \in Nat : c = Base * p /\ c > 0
    BY <1>1, <1>2
  <2>4. n = c * r + (p * t + s)
    <3>1. PICK e \in Nat : e = Base * r
      BY <1>1
    <3>2. p * q = p * e + p * t
      BY <2>2, <3>1
    <3>3. p * e = c * r
      <4>1. p * (Base * r) = (Base * p) * r
        BY <1>1
      <4> QED
        BY <2>3, <3>1, <4>1
    <3> QED
      BY <2>1, <3>2, <3>3
  <2>5. p * t + s < c
    <3>1. p * t + s < p * t + p /\ p * t + p = p * (t + 1)
      BY <2>1
    <3>2. p * (t + 1) =< p * Base
      BY <1>1, <2>2
    <3> QED
      BY <1>1, <2>3, <3>1, <3>2
  <2>6. p * t + s \in Nat
    OBVIOUS
  <2>7. n \div c = r
    <3>1. PICK d \in Nat : d = p * t + s
      BY <2>6
    <3>2. n = c * r + d /\ d < c
      BY <2>4, <2>5, <3>1
    <3> QED
      BY <2>3, <3>2
  <2> QED
    BY <2>1, <2>2, <2>3, <2>7
<1>3. \A q \in Nat : q = Base * (q \div Base) + (q % Base) /\ q \div Base \in Nat
  BY <1>1
<1> QED
  BY <1>1, <1>2, <1>3

\* A number in so many bytes.
LEMMA LittleFacts ==
  ASSUME NEW n, NEW b \in Nat
  PROVE  IsSeq(LittleEndian(n, b)) /\ Len(LittleEndian(n, b)) = b
<1> DEFINE f == LittleEndian(n, b)
<1>1. f = [i \in 1..b |-> f[i]]
  BY DEF LittleEndian
<1> HIDE DEF f
<1>2. IsSeq(f) /\ Len(f) = b
  BY <1>1, OfLength
<1> QED
  BY <1>2 DEF f

\* Numbers within the width are told apart.
LEMMA LittleTells ==
  ASSUME NEW b \in Nat, NEW n, NEW m, Unsigned(n, b), Unsigned(m, b), Fit(LittleEndian(n, b), LittleEndian(m, b))
  PROVE  n = m
<1>1. n \in Nat /\ m \in Nat /\ n < Power[b] /\ m < Power[b] /\ Power[b] \in Nat /\ Power[b] > 0
  BY PowerBounds DEF Unsigned
<1>2. \A i \in 1..b : (n \div Power[i - 1]) % Base = (m \div Power[i - 1]) % Base
  <2>1. LittleEndian(n, b) = LittleEndian(m, b)
    BY LittleFacts, FitFacts
  <2> TAKE i \in 1..b
  <2>2. LittleEndian(n, b)[i] = Byte((n \div Power[i - 1]) % Base) /\
          LittleEndian(m, b)[i] = Byte((m \div Power[i - 1]) % Base)
    BY DEF LittleEndian
  <2> QED
    BY <2>1, <2>2 DEF Byte
<1> DEFINE Unlike == {k \in 0..b : n \div Power[b - k] # m \div Power[b - k]}
<1>3. Unlike = {}
  <2> SUFFICES ASSUME Unlike # {} PROVE FALSE
    OBVIOUS
  <2>1. Unlike \subseteq Nat
    OBVIOUS
  <2> HIDE DEF Unlike
  <2>2. PICK k \in Unlike : \A j \in Unlike : k =< j
    BY <2>1, LeastNat
  <2>3. k \in 0..b /\ n \div Power[b - k] # m \div Power[b - k]
    BY <2>2 DEF Unlike
  <2>4. k # 0
    <3>1. n \div Power[b] = 0 /\ m \div Power[b] = 0
      BY <1>1
    <3> QED
      BY <2>3, <3>1
  <2>5. k - 1 \in 0..b /\ ~(k =< k - 1)
    BY <2>3, <2>4
  <2>6. n \div Power[b - (k - 1)] = m \div Power[b - (k - 1)]
    BY <2>2, <2>5 DEF Unlike
  <2>7. PICK i \in Nat : i = b - k
    BY <2>3
  <2>8. b - (k - 1) = i + 1 /\ i + 1 \in 1..b /\ (i + 1) - 1 = i
    BY <2>3, <2>4, <2>7
  <2>9. (n \div Power[i]) % Base = (m \div Power[i]) % Base
    <3>1. PICK j \in 1..b : j = i + 1
      BY <2>8
    <3>2. j - 1 = i
      BY <3>1
    <3> QED
      BY <1>2, <3>2
  <2>10. n \div Power[i + 1] = m \div Power[i + 1]
    BY <2>6, <2>8
  <2>11. n \div Power[i] = m \div Power[i]
    BY <1>1, <2>9, <2>10, Quotients
  <2> QED
    BY <2>3, <2>7, <2>11
<1>4. n \div Power[0] = m \div Power[0]
  <2>1. b \in 0..b /\ b - b = 0
    OBVIOUS
  <2>2. n \div Power[b - b] = m \div Power[b - b]
    BY <1>3, <2>1
  <2> QED
    BY <2>1, <2>2
<1>5. Power[0] = 1 /\ n \div 1 = n /\ m \div 1 = m
  BY <1>1, PowerFacts
<1> QED
  BY <1>4, <1>5

-----------------------------------------------------------------------------
(* Bincode.                                                                *)

\* bincode's numbers, flags, variants and texts: two of a kind, if they fit, are the same.
LEMMA UnsignedTells ==
  ASSUME NEW n, NEW m
  PROVE  /\ IsSeq(U8(n)) /\ IsSeq(U32(n)) /\ IsSeq(U64(n)) /\ IsSeq(U128(n))
         /\ Unsigned(n, 1) /\ Unsigned(m, 1) /\ Fit(U8(n), U8(m)) => n = m
         /\ Unsigned(n, 4) /\ Unsigned(m, 4) /\ Fit(U32(n), U32(m)) => n = m
         /\ Unsigned(n, 8) /\ Unsigned(m, 8) /\ Fit(U64(n), U64(m)) => n = m
         /\ Unsigned(n, 16) /\ Unsigned(m, 16) /\ Fit(U128(n), U128(m)) => n = m
<1>1. IsSeq(U8(n)) /\ IsSeq(U32(n)) /\ IsSeq(U64(n)) /\ IsSeq(U128(n))
  BY LittleFacts DEF U8, U32, U64, U128
<1>2. Unsigned(n, 1) /\ Unsigned(m, 1) /\ Fit(U8(n), U8(m)) => n = m
  BY LittleTells DEF U8
<1>3. Unsigned(n, 4) /\ Unsigned(m, 4) /\ Fit(U32(n), U32(m)) => n = m
  BY LittleTells DEF U32
<1>4. Unsigned(n, 8) /\ Unsigned(m, 8) /\ Fit(U64(n), U64(m)) => n = m
  BY LittleTells DEF U64
<1>5. Unsigned(n, 16) /\ Unsigned(m, 16) /\ Fit(U128(n), U128(m)) => n = m
  BY LittleTells DEF U128
<1> QED
  BY <1>1, <1>2, <1>3, <1>4, <1>5

\* A byte.
LEMMA SmallUnsigned ==
  /\ Unsigned(0, 1) /\ Unsigned(1, 1)
  /\ \A n \in 0..3 : Unsigned(n, 4)
BY PowerBounds DEF Unsigned

\* A flag.
LEMMA BoolTells ==
  ASSUME NEW a \in BOOLEAN, NEW b \in BOOLEAN
  PROVE  IsSeq(Bool(a)) /\ (Fit(Bool(a), Bool(b)) => a = b)
<1> DEFINE n(x) == IF x THEN 1 ELSE 0
<1>1. Bool(a) = U8(n(a)) /\ Bool(b) = U8(n(b)) /\ Unsigned(n(a), 1) /\ Unsigned(n(b), 1) /\ (n(a) = n(b) => a = b)
  BY SmallUnsigned DEF Bool
<1> HIDE DEF n
<1> QED
  BY <1>1, UnsignedTells

\* The variants of an enum, of which there are few.
Variants == {TeeTypes, ExecutionModes, RetentionWindows, CommitmentFrequencies, HistoricalAuthModes, SubgroveModes}

\* Which variant it is.
LEMMA VariantTells ==
  ASSUME NEW variants \in Variants, NEW a \in ToSet(variants), NEW b \in ToSet(variants)
  PROVE  IsSeq(Variant(a, variants)) /\ (Fit(Variant(a, variants), Variant(b, variants)) => a = b)
<1> DEFINE at(x) == CHOOSE i \in DOMAIN variants : variants[i] = x
<1>1. DOMAIN variants \subseteq 1..4
  BY DEF Variants, TeeTypes, ExecutionModes, RetentionWindows, CommitmentFrequencies, HistoricalAuthModes,
     SubgroveModes
<1>2. ASSUME NEW x \in ToSet(variants) PROVE at(x) \in DOMAIN variants /\ variants[at(x)] = x
  BY <1>2 DEF ToSet
<1>3. /\ at(a) \in 1..4 /\ at(b) \in 1..4 /\ variants[at(a)] = a /\ variants[at(b)] = b
      /\ Variant(a, variants) = U32(at(a) - 1) /\ Variant(b, variants) = U32(at(b) - 1)
  BY <1>1, <1>2 DEF Variant
<1> HIDE DEF at
<1>4. /\ at(a) - 1 \in 0..3 /\ at(b) - 1 \in 0..3
      /\ at(a) - 1 = at(b) - 1 => at(a) = at(b)
  BY <1>3
<1>5. Fit(Variant(a, variants), Variant(b, variants)) => at(a) = at(b)
  BY <1>3, <1>4, SmallUnsigned, UnsignedTells
<1> QED
  BY <1>3, <1>5, UnsignedTells

\* What is written after its length.
LEMMA ByteVecTells ==
  ASSUME NEW p, NEW q, IsSeq(p), IsSeq(q), Len(p) \in 0..(Power[8] - 1), Len(q) \in 0..(Power[8] - 1)
  PROVE  IsSeq(ByteVec(p)) /\ (Fit(ByteVec(p), ByteVec(q)) => p = q)
<1>1. IsSeq(U64(Len(p))) /\ IsSeq(U64(Len(q))) /\ Unsigned(Len(p), 8) /\ Unsigned(Len(q), 8)
  BY UnsignedTells DEF Unsigned
<1>2. IsSeq(ByteVec(p))
  BY <1>1, CatFacts DEF ByteVec
<1>3. ASSUME Fit(ByteVec(p), ByteVec(q)) PROVE p = q
  <2>1. Fit(U64(Len(p)), U64(Len(q))) /\ (U64(Len(p)) = U64(Len(q)) => Fit(p, q))
    BY <1>1, <1>3, Peel DEF ByteVec
  <2>2. Len(p) = Len(q)
    BY <1>1, <2>1, UnsignedTells
  <2> QED
    BY <2>1, <2>2, FitFacts
<1> QED
  BY <1>2, <1>3

\* A text, by its length.
LEMMA StringTells ==
  ASSUME NEW p \in Text, NEW q \in Text
  PROVE  IsSeq(String(p)) /\ (Fit(String(p), String(q)) => p = q)
BY TextFacts, ByteVecTells DEF Text, String

\* A byte field.
LEMMA BytesTells ==
  ASSUME NEW f \in ByteField, NEW g \in ByteField
  PROVE  /\ IsSeq(Bytes(f)) /\ Len(Bytes(f)) = Len(f.bytes) /\ Len(f.bytes) \in 0..(Power[8] - 1)
         /\ Bytes(f) = Bytes(g) => f.bytes = g.bytes
<1>1. f.bytes \in List(0..(Base - 1)) /\ g.bytes \in List(0..(Base - 1))
  BY DEF ByteField
<1>2. PICK p, q : p = f.bytes /\ q = g.bytes
  OBVIOUS
<1>3. IsSeq(p) /\ IsSeq(q) /\ Len(p) \in 0..(Power[8] - 1) /\ Len(q) \in 0..(Power[8] - 1)
  BY <1>1, <1>2, TextFacts
<1> DEFINE B(s) == [i \in DOMAIN s |-> Byte(s[i])]
<1>4. /\ DOMAIN p = 1..Len(p) /\ DOMAIN q = 1..Len(q) /\ Bytes(f) = B(p) /\ Bytes(g) = B(q)
      /\ Len(p) \in Nat /\ Len(q) \in Nat
  BY <1>2, <1>3, SeqFacts DEF Bytes
<1>5. B(p) = [i \in 1..Len(p) |-> B(p)[i]] /\ B(q) = [i \in 1..Len(q) |-> B(q)[i]]
  BY <1>4
<1>6. (\A i \in 1..Len(p) : B(p)[i] = Byte(p[i])) /\ (\A i \in 1..Len(q) : B(q)[i] = Byte(q[i]))
  BY <1>4
<1> HIDE DEF B
<1>7. IsSeq(B(p)) /\ Len(B(p)) = Len(p) /\ IsSeq(B(q)) /\ Len(B(q)) = Len(q)
  BY <1>4, <1>5, OfLength
<1>8. ASSUME B(p) = B(q) PROVE p = q
  <2>1. \A i \in 1..Len(p) : p[i] = q[i]
    BY <1>6, <1>7, <1>8 DEF Byte
  <2> QED
    BY <1>3, <1>7, <1>8, <2>1, SameSeq
<1> QED
  BY <1>2, <1>3, <1>4, <1>7, <1>8

\* A byte field sent, after its length.
LEMMA FieldTells ==
  ASSUME NEW f \in ByteField, NEW g \in ByteField, f.form = g.form
  PROVE  /\ IsSeq(ByteVec(Bytes(f))) /\ (Fit(ByteVec(Bytes(f)), ByteVec(Bytes(g))) => f = g)
         /\ Len(f.bytes) = Len(g.bytes) /\ Fit(Bytes(f), Bytes(g)) => f = g
<1>1. f.bytes = g.bytes => f = g
  BY DEF ByteField
<1>2. /\ IsSeq(Bytes(f)) /\ Len(Bytes(f)) = Len(f.bytes) /\ Len(f.bytes) \in 0..(Power[8] - 1)
      /\ IsSeq(Bytes(g)) /\ Len(Bytes(g)) = Len(g.bytes) /\ Len(g.bytes) \in 0..(Power[8] - 1)
      /\ Bytes(f) = Bytes(g) => f = g
  BY <1>1, BytesTells
<1>3. IsSeq(ByteVec(Bytes(f))) /\ (Fit(ByteVec(Bytes(f)), ByteVec(Bytes(g))) => f = g)
  BY <1>2, ByteVecTells
<1>4. Len(f.bytes) = Len(g.bytes) /\ Fit(Bytes(f), Bytes(g)) => f = g
  BY <1>2, FitFacts
<1> QED
  BY <1>3, <1>4

\* A list of texts.
LEMMA StringsTells ==
  ASSUME NEW p \in List(Text), NEW q \in List(Text)
  PROVE  IsSeq(Strings(p)) /\ (Fit(Strings(p), Strings(q)) => p = q)
<1> DEFINE each(s) == [i \in DOMAIN s |-> String(s[i])]
<1>1. IsSeq(p) /\ p \in Seq(Text) /\ IsSeq(q) /\ q \in Seq(Text) /\ Unsigned(Len(p), 8) /\ Unsigned(Len(q), 8)
  BY TextFacts DEF Unsigned
<1>2. ASSUME NEW s, IsSeq(s), s \in Seq(Text)
      PROVE  Parts(each(s)) /\ Len(each(s)) = Len(s) /\ \A i \in 1..Len(s) : each(s)[i] = String(s[i]) /\
               s[i] \in Text
  <2>1. DOMAIN s = 1..Len(s) /\ Len(s) \in Nat /\ \A i \in 1..Len(s) : s[i] \in Text
    BY <1>2
  <2>2. each(s) = [i \in 1..Len(s) |-> each(s)[i]] /\ \A i \in 1..Len(s) : each(s)[i] = String(s[i])
    BY <2>1
  <2> HIDE DEF each
  <2>3. IsSeq(each(s)) /\ Len(each(s)) = Len(s)
    BY <2>1, <2>2, OfLength
  <2>4. \A i \in 1..Len(s) : IsSeq(each(s)[i])
    BY <2>1, <2>2, StringTells
  <2> QED
    BY <2>1, <2>2, <2>3, <2>4 DEF Parts
<1>3. Strings(p) = U64(Len(p)) \o FlattenSeq(each(p)) /\ Strings(q) = U64(Len(q)) \o FlattenSeq(each(q))
  BY DEF Strings
<1> HIDE DEF each
<1>4. IsSeq(FlattenSeq(each(p))) /\ IsSeq(FlattenSeq(each(q)))
  BY <1>1, <1>2, JoinsExist, FlattenJoins
<1>5. IsSeq(Strings(p))
  BY <1>3, <1>4, UnsignedTells, CatFacts
<1>6. ASSUME Fit(Strings(p), Strings(q)) PROVE p = q
  <2>1. Fit(U64(Len(p)), U64(Len(q))) /\ (U64(Len(p)) = U64(Len(q)) => Fit(FlattenSeq(each(p)), FlattenSeq(each(q))))
    <3>1. PICK a, b : a = FlattenSeq(each(p)) /\ b = FlattenSeq(each(q))
      OBVIOUS
    <3>2. IsSeq(a) /\ IsSeq(b) /\ IsSeq(U64(Len(p))) /\ IsSeq(U64(Len(q))) /\ Fit(U64(Len(p)) \o a, U64(Len(q)) \o b)
      BY <1>3, <1>4, <1>6, <3>1, UnsignedTells
    <3> QED
      BY <3>1, <3>2, Peel
  <2>2. Len(p) = Len(q)
    BY <1>1, <2>1, UnsignedTells
  <2>3. ASSUME NEW i \in 1..Len(each(p)), i =< Len(each(q)), Fit(each(p)[i], each(q)[i]) PROVE each(p)[i] = each(q)[i]
    <3>1. i \in 1..Len(p) /\ i \in 1..Len(q)
      BY <1>1, <1>2, <2>2, <2>3
    <3>2. each(p)[i] = String(p[i]) /\ each(q)[i] = String(q[i]) /\ p[i] \in Text /\ q[i] \in Text
      BY <1>1, <1>2, <3>1
    <3> QED
      BY <2>3, <3>2, StringTells
  <2>4. Fit(each(p), each(q))
    BY <1>1, <1>2, <2>1, <2>2, <2>3, FlattenTells
  <2>5. \A i \in 1..Len(p) : p[i] = q[i]
    <3> TAKE i \in 1..Len(p)
    <3>1. i \in 1..Len(q) /\ i \in 1..Len(each(p)) /\ i =< Len(each(q))
      BY <1>1, <1>2, <2>2
    <3>2. each(p)[i] = String(p[i]) /\ each(q)[i] = String(q[i]) /\ p[i] \in Text /\ q[i] \in Text /\
            each(p)[i] = each(q)[i]
      BY <1>1, <1>2, <2>4, <3>1 DEF Fit
    <3> QED
      BY <3>2, StringTells, FitFacts
  <2> QED
    BY <1>1, <2>2, <2>5, SameSeq
<1> QED
  BY <1>5, <1>6

\* An option, and what is written for its value.
LEMMA OptionTells ==
  ASSUME NEW S, NEW o \in Optional(S), NEW r \in Optional(S), NEW w, NEW v,
         o # None => IsSeq(w), r # None => IsSeq(v),
         o # None /\ r # None /\ Fit(w, v) => o[1] = r[1]
  PROVE  LET a == IF o = None THEN U8(0) ELSE U8(1) \o w
             b == IF r = None THEN U8(0) ELSE U8(1) \o v
         IN IsSeq(a) /\ (Fit(a, b) => o = r)
<1> DEFINE a == IF o = None THEN U8(0) ELSE U8(1) \o w
           b == IF r = None THEN U8(0) ELSE U8(1) \o v
<1>1. IsSeq(U8(0)) /\ IsSeq(U8(1)) /\ ~Fit(U8(0), U8(1)) /\ ~Fit(U8(1), U8(0))
  BY UnsignedTells, SmallUnsigned
<1>2. (o # None => o = Some(o[1])) /\ (r # None => r = Some(r[1]))
  BY OptionalFacts
<1>3. CASE o = None /\ r = None
  BY <1>1, <1>3
<1>4. CASE o = None /\ r # None
  <2>1. Fit(U8(0), U8(1) \o v) => Fit(U8(0), U8(1))
    BY <1>1, <1>4, PeelOne
  <2> QED
    BY <1>1, <1>4, <2>1
<1>5. CASE o # None /\ r = None
  <2>1. Fit(U8(1) \o w, U8(0)) => Fit(U8(1), U8(0))
    BY <1>1, <1>5, PeelOne
  <2>2. IsSeq(U8(1) \o w)
    BY <1>1, <1>5, CatFacts
  <2> QED
    BY <1>1, <1>5, <2>1, <2>2
<1>6. CASE o # None /\ r # None
  <2>1. Fit(U8(1) \o w, U8(1) \o v) => Fit(w, v)
    BY <1>1, <1>6, Peel
  <2>2. IsSeq(U8(1) \o w)
    BY <1>1, <1>6, CatFacts
  <2> QED
    BY <1>2, <1>6, <2>1, <2>2
<1> QED
  BY <1>3, <1>4, <1>5, <1>6

-----------------------------------------------------------------------------
(* Several codes in a row.                                                 *)

\* Read along, the two are the same or are told apart.
Told(p, q) == IsSeq(p) /\ IsSeq(q) /\ (Fit(p, q) => p = q)

\* Two in a row, then three, four and seven: all told apart.
LEMMA Told2 ==
  ASSUME NEW p, NEW q, NEW x, NEW y, Told(p, q), IsSeq(x), IsSeq(y), p = q => Told(x, y)
  PROVE  Told(p \o x, q \o y) /\ (p \o x = q \o y => p = q /\ x = y)
<1>1. IsSeq(p) /\ IsSeq(q) /\ (Fit(p, q) => p = q) /\ (p = q /\ Fit(x, y) => x = y)
  BY DEF Told
<1>2. IsSeq(p \o x) /\ IsSeq(q \o y)
  BY <1>1, CatFacts
<1>3. Fit(p \o x, q \o y) => p = q /\ x = y
  BY <1>1, Peel
<1>4. p \o x = q \o y => Fit(p \o x, q \o y)
  BY <1>2, FitFacts
<1> QED
  BY <1>2, <1>3, <1>4 DEF Told

\* Rows of parts, kept closed so that a proof compares them part by part.
Row3(p1, p2, p3) == p1 \o p2 \o p3
Row4(p1, p2, p3, p4) == p1 \o p2 \o p3 \o p4
Row7(p1, p2, p3, p4, p5, p6, p7) == p1 \o p2 \o p3 \o p4 \o p5 \o p6 \o p7

\* A row of three.
LEMMA Told3 ==
  ASSUME NEW p1, NEW q1, NEW p2, NEW q2, NEW p3, NEW q3,
         Told(p1, q1), Told(p2, q2), Told(p3, q3)
  PROVE  /\ Told(Row3(p1, p2, p3), Row3(q1, q2, q3))
         /\ Row3(p1, p2, p3) = Row3(q1, q2, q3) => p1 = q1 /\ p2 = q2 /\ p3 = q3
<1>0. IsSeq(p2) /\ IsSeq(q2) /\ IsSeq(p3) /\ IsSeq(q3)
  BY DEF Told
<1>1. PICK x2, y2 : x2 = p1 \o p2 /\ y2 = q1 \o q2
  OBVIOUS
<1>2. Told(x2, y2) /\ (x2 = y2 => p1 = q1 /\ p2 = q2)
  BY <1>0, <1>1, Told2
<1>3. PICK x3, y3 : x3 = x2 \o p3 /\ y3 = y2 \o q3
  OBVIOUS
<1>4. Told(x3, y3) /\ (x3 = y3 => x2 = y2 /\ p3 = q3)
  BY <1>0, <1>3, <1>2, Told2
<1>5. Row3(p1, p2, p3) = x3 /\ Row3(q1, q2, q3) = y3
  BY <1>1, <1>3 DEF Row3
<1> QED
  BY <1>2, <1>4, <1>5

\* A row of four.
LEMMA Told4 ==
  ASSUME NEW p1, NEW q1, NEW p2, NEW q2, NEW p3, NEW q3, NEW p4, NEW q4,
         Told(p1, q1), Told(p2, q2), Told(p3, q3), Told(p4, q4)
  PROVE  /\ Told(Row4(p1, p2, p3, p4), Row4(q1, q2, q3, q4))
         /\ Row4(p1, p2, p3, p4) = Row4(q1, q2, q3, q4) => p1 = q1 /\ p2 = q2 /\ p3 = q3 /\ p4 = q4
<1>0. IsSeq(p2) /\ IsSeq(q2) /\ IsSeq(p3) /\ IsSeq(q3) /\ IsSeq(p4) /\ IsSeq(q4)
  BY DEF Told
<1>1. PICK x2, y2 : x2 = p1 \o p2 /\ y2 = q1 \o q2
  OBVIOUS
<1>2. Told(x2, y2) /\ (x2 = y2 => p1 = q1 /\ p2 = q2)
  BY <1>0, <1>1, Told2
<1>3. PICK x3, y3 : x3 = x2 \o p3 /\ y3 = y2 \o q3
  OBVIOUS
<1>4. Told(x3, y3) /\ (x3 = y3 => x2 = y2 /\ p3 = q3)
  BY <1>0, <1>3, <1>2, Told2
<1>5. PICK x4, y4 : x4 = x3 \o p4 /\ y4 = y3 \o q4
  OBVIOUS
<1>6. Told(x4, y4) /\ (x4 = y4 => x3 = y3 /\ p4 = q4)
  BY <1>0, <1>5, <1>4, Told2
<1>7. Row4(p1, p2, p3, p4) = x4 /\ Row4(q1, q2, q3, q4) = y4
  BY <1>1, <1>3, <1>5 DEF Row4
<1> QED
  BY <1>2, <1>4, <1>6, <1>7

\* A row of seven.
LEMMA Told7 ==
  ASSUME NEW p1, NEW q1, NEW p2, NEW q2, NEW p3, NEW q3, NEW p4, NEW q4, NEW p5, NEW q5, NEW p6, NEW q6, NEW p7,
         NEW q7,
         Told(p1, q1), Told(p2, q2), Told(p3, q3), Told(p4, q4), Told(p5, q5), Told(p6, q6), Told(p7, q7)
  PROVE  /\ Told(Row7(p1, p2, p3, p4, p5, p6, p7), Row7(q1, q2, q3, q4, q5, q6, q7))
         /\ Row7(p1, p2, p3, p4, p5, p6, p7) = Row7(q1, q2, q3, q4, q5, q6, q7) => p1 = q1 /\ p2 = q2 /\ p3 = q3 /\
              p4 = q4 /\ p5 = q5 /\ p6 = q6 /\ p7 = q7
<1>0. IsSeq(p2) /\ IsSeq(q2) /\ IsSeq(p3) /\ IsSeq(q3) /\ IsSeq(p4) /\ IsSeq(q4) /\ IsSeq(p5) /\ IsSeq(q5) /\
        IsSeq(p6) /\ IsSeq(q6) /\ IsSeq(p7) /\ IsSeq(q7)
  BY DEF Told
<1>1. PICK x2, y2 : x2 = p1 \o p2 /\ y2 = q1 \o q2
  OBVIOUS
<1>2. Told(x2, y2) /\ (x2 = y2 => p1 = q1 /\ p2 = q2)
  BY <1>0, <1>1, Told2
<1>3. PICK x3, y3 : x3 = x2 \o p3 /\ y3 = y2 \o q3
  OBVIOUS
<1>4. Told(x3, y3) /\ (x3 = y3 => x2 = y2 /\ p3 = q3)
  BY <1>0, <1>3, <1>2, Told2
<1>5. PICK x4, y4 : x4 = x3 \o p4 /\ y4 = y3 \o q4
  OBVIOUS
<1>6. Told(x4, y4) /\ (x4 = y4 => x3 = y3 /\ p4 = q4)
  BY <1>0, <1>5, <1>4, Told2
<1>7. PICK x5, y5 : x5 = x4 \o p5 /\ y5 = y4 \o q5
  OBVIOUS
<1>8. Told(x5, y5) /\ (x5 = y5 => x4 = y4 /\ p5 = q5)
  BY <1>0, <1>7, <1>6, Told2
<1>9. PICK x6, y6 : x6 = x5 \o p6 /\ y6 = y5 \o q6
  OBVIOUS
<1>10. Told(x6, y6) /\ (x6 = y6 => x5 = y5 /\ p6 = q6)
  BY <1>0, <1>9, <1>8, Told2
<1>11. PICK x7, y7 : x7 = x6 \o p7 /\ y7 = y6 \o q7
  OBVIOUS
<1>12. Told(x7, y7) /\ (x7 = y7 => x6 = y6 /\ p7 = q7)
  BY <1>0, <1>11, <1>10, Told2
<1>13. Row7(p1, p2, p3, p4, p5, p6, p7) = x7 /\ Row7(q1, q2, q3, q4, q5, q6, q7) = y7
  BY <1>1, <1>3, <1>5, <1>7, <1>9, <1>11 DEF Row7
<1> QED
  BY <1>2, <1>4, <1>6, <1>8, <1>10, <1>12, <1>13


\* The codes a registration is made of.
LEMMA CodeFacts ==
  /\ \A p, q \in Text : Told(String(p), String(q)) /\ (String(p) = String(q) => p = q)
  /\ \A p, q \in List(Text) : Told(Strings(p), Strings(q)) /\ (Strings(p) = Strings(q) => p = q)
  /\ \A p, q \in BOOLEAN : Told(Bool(p), Bool(q)) /\ (Bool(p) = Bool(q) => p = q)
  /\ \A n, m : Unsigned(n, 1) /\ Unsigned(m, 1) => Told(U8(n), U8(m)) /\ (U8(n) = U8(m) => n = m)
  /\ \A n, m : Unsigned(n, 4) /\ Unsigned(m, 4) => Told(U32(n), U32(m)) /\ (U32(n) = U32(m) => n = m)
  /\ \A n, m : Unsigned(n, 8) /\ Unsigned(m, 8) => Told(U64(n), U64(m)) /\ (U64(n) = U64(m) => n = m)
  /\ \A n, m : Unsigned(n, 16) /\ Unsigned(m, 16) => Told(U128(n), U128(m)) /\ (U128(n) = U128(m) => n = m)
  /\ \A f, g \in ByteField : f.form = g.form =>
       Told(ByteVec(Bytes(f)), ByteVec(Bytes(g))) /\ (ByteVec(Bytes(f)) = ByteVec(Bytes(g)) => f = g)
<1>1. \A p, q \in Text : Told(String(p), String(q)) /\ (String(p) = String(q) => p = q)
  BY StringTells, FitFacts DEF Told
<1>2. \A p, q \in List(Text) : Told(Strings(p), Strings(q)) /\ (Strings(p) = Strings(q) => p = q)
  BY StringsTells, FitFacts DEF Told
<1>3. \A p, q \in BOOLEAN : Told(Bool(p), Bool(q)) /\ (Bool(p) = Bool(q) => p = q)
  BY BoolTells, FitFacts DEF Told
<1>4. \A n, m : Unsigned(n, 1) /\ Unsigned(m, 1) => Told(U8(n), U8(m)) /\ (U8(n) = U8(m) => n = m)
  BY UnsignedTells, FitFacts DEF Told
<1>5. \A n, m : Unsigned(n, 4) /\ Unsigned(m, 4) => Told(U32(n), U32(m)) /\ (U32(n) = U32(m) => n = m)
  BY UnsignedTells, FitFacts DEF Told
<1>6. \A n, m : Unsigned(n, 8) /\ Unsigned(m, 8) => Told(U64(n), U64(m)) /\ (U64(n) = U64(m) => n = m)
  BY UnsignedTells, FitFacts DEF Told
<1>7. \A n, m : Unsigned(n, 16) /\ Unsigned(m, 16) => Told(U128(n), U128(m)) /\ (U128(n) = U128(m) => n = m)
  BY UnsignedTells, FitFacts DEF Told
<1>8. \A f, g \in ByteField : f.form = g.form =>
        Told(ByteVec(Bytes(f)), ByteVec(Bytes(g))) /\ (ByteVec(Bytes(f)) = ByteVec(Bytes(g)) => f = g)
  BY FieldTells, FitFacts DEF Told
<1> QED
  BY <1>1, <1>2, <1>3, <1>4, <1>5, <1>6, <1>7, <1>8

\* A variant of an enumeration, told from any other.
LEMMA VariantTold ==
  ASSUME NEW variants \in Variants, NEW a \in ToSet(variants), NEW b \in ToSet(variants)
  PROVE  Told(Variant(a, variants), Variant(b, variants)) /\ (Variant(a, variants) = Variant(b, variants) => a = b)
BY VariantTells, FitFacts DEF Told

\* An optional value, told from any other.
LEMMA OptionTold ==
  ASSUME NEW S, NEW o \in Optional(S), NEW r \in Optional(S), NEW w, NEW v,
         o # None => IsSeq(w), r # None => IsSeq(v),
         o # None /\ r # None => Told(w, v) /\ (w = v => o[1] = r[1]),
         o = r => w = v
  PROVE  LET a == IF o = None THEN U8(0) ELSE U8(1) \o w
             b == IF r = None THEN U8(0) ELSE U8(1) \o v
         IN Told(a, b) /\ (a = b => o = r)
<1> DEFINE a == IF o = None THEN U8(0) ELSE U8(1) \o w
           b == IF r = None THEN U8(0) ELSE U8(1) \o v
<1>1. IsSeq(a) /\ (Fit(a, b) => o = r)
  <2>1. o # None /\ r # None /\ Fit(w, v) => o[1] = r[1]
    BY DEF Told
  <2> QED
    BY <2>1, OptionTells
<1>2. IsSeq(b)
  <2>1. r # None /\ o # None /\ Fit(v, w) => r[1] = o[1]
    BY FitFacts DEF Told
  <2> QED
    BY <2>1, OptionTells
<1>3. o = r => a = b
  OBVIOUS
<1> HIDE DEF a, b
<1>4. a = b => Fit(a, b)
  BY <1>1, FitFacts
<1> QED
  BY <1>1, <1>2, <1>3, <1>4 DEF Told, a, b

\* The read pricing as encoded.
LEMMA PricingTells ==
  ASSUME NEW p \in ReadPricings, NEW q \in ReadPricings, PricingRule(p), PricingRule(q)
  PROVE  Told(EncodeReadPricing(p), EncodeReadPricing(q)) /\ (EncodeReadPricing(p) = EncodeReadPricing(q) => p = q)
<1> DEFINE p1 == Bool(p.enabled)
           q1 == Bool(q.enabled)
           p2 == U128(p.price_per_query)
           q2 == U128(q.price_per_query)
           p3 == U32(p.owner_revenue_share_bps)
           q3 == U32(q.owner_revenue_share_bps)
<1>1. Told(p1, q1) /\ (p1 = q1 => p.enabled = q.enabled)
  BY CodeFacts DEF ReadPricings
<1>2. Told(p2, q2) /\ (p2 = q2 => p.price_per_query = q.price_per_query)
  BY CodeFacts DEF PricingRule
<1>3. Told(p3, q3) /\ (p3 = q3 => p.owner_revenue_share_bps = q.owner_revenue_share_bps)
  BY CodeFacts DEF PricingRule
<1>4. EncodeReadPricing(p) = Row3(p1, p2, p3) /\ EncodeReadPricing(q) = Row3(q1, q2, q3)
  BY DEF EncodeReadPricing, Row3
<1> HIDE DEF p1, q1, p2, q2, p3, q3
<1>5. Told(Row3(p1, p2, p3), Row3(q1, q2, q3)) /\
        (Row3(p1, p2, p3) = Row3(q1, q2, q3) => p1 = q1 /\ p2 = q2 /\ p3 = q3)
  BY <1>1, <1>2, <1>3, Told3
<1>6. p.enabled = q.enabled /\ p.price_per_query = q.price_per_query /\
        p.owner_revenue_share_bps = q.owner_revenue_share_bps
        => p = q
  BY DEF ReadPricings
<1> QED
  BY <1>1, <1>2, <1>3, <1>4, <1>5, <1>6

\* A key grant as encoded.
LEMMA KeyGrantTells ==
  ASSUME NEW g \in EncryptedKeyGrants, NEW h \in EncryptedKeyGrants, KeyGrantNumbers(g), KeyGrantNumbers(h),
         g.ephemeral_public_key.form = h.ephemeral_public_key.form, g.encrypted_key.form = h.encrypted_key.form
  PROVE  Told(EncodeKeyGrant(g), EncodeKeyGrant(h)) /\ (EncodeKeyGrant(g) = EncodeKeyGrant(h) => g = h)
<1> DEFINE p1 == String(g.grantee_did)
           q1 == String(h.grantee_did)
           p2 == U32(g.key_epoch)
           q2 == U32(h.key_epoch)
           p3 == String(g.grantee_public_key_id)
           q3 == String(h.grantee_public_key_id)
           p4 == ByteVec(Bytes(g.ephemeral_public_key))
           q4 == ByteVec(Bytes(h.ephemeral_public_key))
           p5 == ByteVec(Bytes(g.encrypted_key))
           q5 == ByteVec(Bytes(h.encrypted_key))
           p6 == String(g.granted_by)
           q6 == String(h.granted_by)
           p7 == U64(g.granted_at)
           q7 == U64(h.granted_at)
<1>0. /\ \A e \in {g, h} : /\ e.grantee_did \in Text /\ e.grantee_public_key_id \in Text /\ e.granted_by \in Text
                           /\ e.ephemeral_public_key \in ByteField /\ e.encrypted_key \in ByteField
      /\ \A e \in {g, h} : Unsigned(e.key_epoch, 4) /\ Unsigned(e.granted_at, 8)
  BY DEF EncryptedKeyGrants, KeyGrantNumbers
<1>1. /\ Told(p1, q1) /\ (p1 = q1 => g.grantee_did = h.grantee_did)
      /\ Told(p2, q2) /\ (p2 = q2 => g.key_epoch = h.key_epoch)
      /\ Told(p3, q3) /\ (p3 = q3 => g.grantee_public_key_id = h.grantee_public_key_id)
  BY <1>0, CodeFacts
<1>2. /\ Told(p4, q4) /\ (p4 = q4 => g.ephemeral_public_key = h.ephemeral_public_key)
      /\ Told(p5, q5) /\ (p5 = q5 => g.encrypted_key = h.encrypted_key)
  BY <1>0, CodeFacts
<1>3. /\ Told(p6, q6) /\ (p6 = q6 => g.granted_by = h.granted_by)
      /\ Told(p7, q7) /\ (p7 = q7 => g.granted_at = h.granted_at)
  BY <1>0, CodeFacts
<1>4. EncodeKeyGrant(g) = Row7(p1, p2, p3, p4, p5, p6, p7) /\ EncodeKeyGrant(h) = Row7(q1, q2, q3, q4, q5, q6, q7)
  BY DEF EncodeKeyGrant, Row7
<1> HIDE DEF p1, q1, p2, q2, p3, q3, p4, q4, p5, q5, p6, q6, p7, q7
<1>5. /\ Told(Row7(p1, p2, p3, p4, p5, p6, p7), Row7(q1, q2, q3, q4, q5, q6, q7))
      /\ Row7(p1, p2, p3, p4, p5, p6, p7) = Row7(q1, q2, q3, q4, q5, q6, q7)
           => p1 = q1 /\ p2 = q2 /\ p3 = q3 /\ p4 = q4 /\ p5 = q5 /\ p6 = q6 /\ p7 = q7
  BY <1>1, <1>2, <1>3, Told7
<1>6. g.grantee_did = h.grantee_did /\ g.key_epoch = h.key_epoch /\ g.grantee_public_key_id = h.grantee_public_key_id
      /\ g.ephemeral_public_key = h.ephemeral_public_key /\ g.encrypted_key = h.encrypted_key
      /\ g.granted_by = h.granted_by /\ g.granted_at = h.granted_at
        => g = h
  <2> HIDE DEF Text, ByteField
  <2> QED
    BY DEF EncryptedKeyGrants
<1> QED
  BY <1>1, <1>2, <1>3, <1>4, <1>5, <1>6

\* Codes in a row, as many as there are others.
LEMMA ManyTell ==
  ASSUME NEW parts, NEW others, Parts(parts), Parts(others), Len(parts) = Len(others),
         \A i \in 1..Len(parts) : Told(parts[i], others[i])
  PROVE  /\ Told(FlattenSeq(parts), FlattenSeq(others))
         /\ FlattenSeq(parts) = FlattenSeq(others) => parts = others
<1>1. IsSeq(FlattenSeq(parts)) /\ IsSeq(FlattenSeq(others))
  BY JoinsExist, FlattenJoins
<1>2. ASSUME Fit(FlattenSeq(parts), FlattenSeq(others)) PROVE parts = others
  <2>1. \A i \in 1..Len(parts) : i =< Len(others) /\ Fit(parts[i], others[i]) => parts[i] = others[i]
    BY DEF Told
  <2>2. Fit(parts, others)
    BY <1>2, <2>1, FlattenTells
  <2> QED
    BY <2>2, FitFacts DEF Parts
<1>3. FlattenSeq(parts) = FlattenSeq(others) => Fit(FlattenSeq(parts), FlattenSeq(others))
  BY <1>1, FitFacts
<1> QED
  BY <1>1, <1>2, <1>3 DEF Told

\* A file of a subgrove's code, its hash of the one length.
WasmSent(m) == m \in WasmSources /\ m.hash.form = "list" /\ m.content.form = "list" /\ Len(m.hash.bytes) = HashLen

\* A WASM module as encoded.
LEMMA WasmTells ==
  ASSUME NEW m, NEW n, WasmSent(m), WasmSent(n)
  PROVE  Told(EncodeWasm(m), EncodeWasm(n)) /\ (EncodeWasm(m) = EncodeWasm(n) => m = n)
<1> DEFINE p1 == String(m.name)
           q1 == String(n.name)
           p2 == Bytes(m.hash)
           q2 == Bytes(n.hash)
           p3 == ByteVec(Bytes(m.content))
           q3 == ByteVec(Bytes(n.content))
<1>0. /\ m.name \in Text /\ m.hash \in ByteField /\ m.content \in ByteField
      /\ n.name \in Text /\ n.hash \in ByteField /\ n.content \in ByteField
      /\ m.hash.form = n.hash.form /\ m.content.form = n.content.form /\ Len(m.hash.bytes) = Len(n.hash.bytes)
  BY DEF WasmSent, WasmSources
<1>1. Told(p1, q1) /\ (p1 = q1 => m.name = n.name)
  BY <1>0, CodeFacts
<1>2. Told(p2, q2) /\ (p2 = q2 => m.hash = n.hash)
  <2>1. IsSeq(p2) /\ IsSeq(q2) /\ (Fit(p2, q2) => m.hash = n.hash)
    BY <1>0, BytesTells, FieldTells
  <2> QED
    BY <2>1, FitFacts DEF Told
<1>3. Told(p3, q3) /\ (p3 = q3 => m.content = n.content)
  BY <1>0, CodeFacts
<1>4. EncodeWasm(m) = Row3(p1, p2, p3) /\ EncodeWasm(n) = Row3(q1, q2, q3)
  BY DEF EncodeWasm, Row3
<1> HIDE DEF p1, q1, p2, q2, p3, q3
<1>5. Told(Row3(p1, p2, p3), Row3(q1, q2, q3)) /\
        (Row3(p1, p2, p3) = Row3(q1, q2, q3) => p1 = q1 /\ p2 = q2 /\ p3 = q3)
  BY <1>1, <1>2, <1>3, Told3
<1>6. m.name = n.name /\ m.hash = n.hash /\ m.content = n.content => m = n
  <2> HIDE DEF Text, ByteField
  <2> QED
    BY DEF WasmSent, WasmSources
<1> QED
  BY <1>1, <1>2, <1>3, <1>4, <1>5, <1>6

\* The WASM modules of an indexing mode.
LEMMA WasmListTells ==
  ASSUME NEW ms \in List(WasmSources), NEW ns \in List(WasmSources),
         \A i \in DOMAIN ms : WasmSent(ms[i]), \A i \in DOMAIN ns : WasmSent(ns[i])
  PROVE  LET p == FlattenSeq([i \in DOMAIN ms |-> EncodeWasm(ms[i])])
             q == FlattenSeq([i \in DOMAIN ns |-> EncodeWasm(ns[i])])
         IN /\ Told(U64(Len(ms)), U64(Len(ns))) /\ (U64(Len(ms)) = U64(Len(ns)) => Len(ms) = Len(ns))
            /\ IsSeq(p) /\ IsSeq(q)
            /\ Len(ms) = Len(ns) => Told(p, q) /\ (p = q => ms = ns)
<1> DEFINE each(s) == [i \in DOMAIN s |-> EncodeWasm(s[i])]
<1>1. /\ IsSeq(ms) /\ IsSeq(ns) /\ Unsigned(Len(ms), 8) /\ Unsigned(Len(ns), 8)
      /\ DOMAIN ms = 1..Len(ms) /\ DOMAIN ns = 1..Len(ns)
  BY TextFacts, SeqFacts DEF Unsigned
<1>2. ASSUME NEW s, IsSeq(s), \A i \in DOMAIN s : WasmSent(s[i])
      PROVE  Parts(each(s)) /\ Len(each(s)) = Len(s) /\ \A i \in 1..Len(s) : each(s)[i] = EncodeWasm(s[i])
  <2>1. DOMAIN s = 1..Len(s) /\ Len(s) \in Nat
    BY <1>2, SeqFacts
  <2>2. each(s) = [i \in 1..Len(s) |-> each(s)[i]] /\ \A i \in 1..Len(s) : each(s)[i] = EncodeWasm(s[i])
    BY <2>1
  <2> HIDE DEF each
  <2>3. IsSeq(each(s)) /\ Len(each(s)) = Len(s)
    BY <2>1, <2>2, OfLength
  <2>4. \A i \in 1..Len(s) : IsSeq(each(s)[i])
    <3> TAKE i \in 1..Len(s)
    <3>1. WasmSent(s[i])
      BY <1>2, <2>1
    <3>2. Told(EncodeWasm(s[i]), EncodeWasm(s[i]))
      BY <3>1, WasmTells
    <3> QED
      BY <2>2, <3>2 DEF Told
  <2> QED
    BY <2>1, <2>2, <2>3, <2>4 DEF Parts
<1>3. PICK f, g : f = each(ms) /\ g = each(ns)
  OBVIOUS
<1>4. /\ Parts(f) /\ Len(f) = Len(ms) /\ \A i \in 1..Len(ms) : f[i] = EncodeWasm(ms[i])
      /\ Parts(g) /\ Len(g) = Len(ns) /\ \A i \in 1..Len(ns) : g[i] = EncodeWasm(ns[i])
  BY <1>1, <1>2, <1>3
<1>5. ASSUME Len(ms) = Len(ns) PROVE Told(FlattenSeq(f), FlattenSeq(g)) /\ (FlattenSeq(f) = FlattenSeq(g) => ms = ns)
  <2>1. \A i \in 1..Len(ms) : Told(f[i], g[i]) /\ (f[i] = g[i] => ms[i] = ns[i])
    BY <1>1, <1>4, <1>5, WasmTells
  <2>2. Told(FlattenSeq(f), FlattenSeq(g)) /\ (FlattenSeq(f) = FlattenSeq(g) => f = g)
    BY <1>4, <1>5, <2>1, ManyTell
  <2> QED
    BY <1>1, <1>5, <2>1, <2>2, SameSeq
<1>6. IsSeq(FlattenSeq(f)) /\ IsSeq(FlattenSeq(g))
  BY <1>4, JoinsExist, FlattenJoins
<1>7. Told(U64(Len(ms)), U64(Len(ns))) /\ (U64(Len(ms)) = U64(Len(ns)) => Len(ms) = Len(ns))
  BY <1>1, CodeFacts
<1> QED
  BY <1>3, <1>5, <1>6, <1>7

\* The execution mode as encoded.
LEMMA ExecutionTells ==
  ASSUME NEW e \in Executions, NEW f \in Executions, ExecutionRule(e), ExecutionRule(f)
  PROVE  Told(EncodeExecution(e), EncodeExecution(f)) /\ (EncodeExecution(e) = EncodeExecution(f) => e = f)
<1> DEFINE more(d) == CASE d.type = "IndexerExecution" -> U8(d.sampling_rate_percent[1])
                        [] d.type = "TeeExecution" -> Variant(d.tee_type[1], TeeTypes)
                        [] OTHER -> << >>
<1>1. ASSUME NEW d \in {e, f}
      PROVE  /\ d.type \in ToSet(ExecutionModes)
             /\ d.sampling_rate_percent \in Optional(Int) /\ d.tee_type \in Optional(ToSet(TeeTypes))
             /\ d.sampling_rate_percent # None <=> d.type = "IndexerExecution"
             /\ d.tee_type # None <=> d.type = "TeeExecution"
  <2> HIDE DEF Optional
  <2> QED
    BY DEF Executions
<1>2. ASSUME NEW d \in {e, f}
      PROVE  /\ d.type = "IndexerExecution" => more(d) = U8(d.sampling_rate_percent[1]) /\
                  Unsigned(d.sampling_rate_percent[1], 1)
             /\ d.type = "TeeExecution" => more(d) = Variant(d.tee_type[1], TeeTypes) /\
                  d.tee_type[1] \in ToSet(TeeTypes)
             /\ d.type \notin {"IndexerExecution", "TeeExecution"} => more(d) = << >>
             /\ IsSeq(more(d))
  <2>0. ExecutionRule(d)
    OBVIOUS
  <2>1. d.type = "IndexerExecution" => more(d) = U8(d.sampling_rate_percent[1]) /\
          Unsigned(d.sampling_rate_percent[1], 1)
    BY <1>1, <2>0 DEF ExecutionRule
  <2>2. d.type = "TeeExecution" => more(d) = Variant(d.tee_type[1], TeeTypes) /\ d.tee_type[1] \in ToSet(TeeTypes)
    BY <1>1, OptionalFacts
  <2>3. d.type \notin {"IndexerExecution", "TeeExecution"} => more(d) = << >>
    OBVIOUS
  <2>4. d.type = "TeeExecution" => IsSeq(Variant(d.tee_type[1], TeeTypes))
    BY <2>2, VariantTold DEF Told, Variants
  <2> HIDE DEF more
  <2>5. IsSeq(more(d))
    BY <2>1, <2>2, <2>3, <2>4, UnsignedTells, NoTokens
  <2> QED
    BY <2>1, <2>2, <2>3, <2>5
<1>3. EncodeExecution(e) = Variant(e.type, ExecutionModes) \o more(e)
      /\ EncodeExecution(f) = Variant(f.type, ExecutionModes) \o more(f)
  BY DEF EncodeExecution
<1> HIDE DEF more
<1>4. PICK p, q, x, y : /\ p = Variant(e.type, ExecutionModes) /\ q = Variant(f.type, ExecutionModes)
                        /\ x = more(e) /\ y = more(f)
  OBVIOUS
<1>5. Told(p, q) /\ (p = q => e.type = f.type)
  BY <1>1, <1>4, VariantTold DEF Variants
<1>6. ASSUME e.type = f.type PROVE Told(x, y) /\ (x = y => e = f)
  <2>1. CASE e.type = "IndexerExecution"
    <3>0. /\ x = U8(e.sampling_rate_percent[1]) /\ Unsigned(e.sampling_rate_percent[1], 1)
          /\ y = U8(f.sampling_rate_percent[1]) /\ Unsigned(f.sampling_rate_percent[1], 1)
      BY <1>2, <1>4, <1>6, <2>1
    <3>1. Told(x, y) /\ (x = y => e.sampling_rate_percent[1] = f.sampling_rate_percent[1])
      BY <3>0, CodeFacts
    <3>2. /\ e.sampling_rate_percent = Some(e.sampling_rate_percent[1])
          /\ f.sampling_rate_percent = Some(f.sampling_rate_percent[1])
          /\ e.tee_type = None /\ f.tee_type = None
      BY <1>1, <1>6, <2>1, OptionalFacts
    <3>3. e.sampling_rate_percent[1] = f.sampling_rate_percent[1] => e = f
      <4> HIDE DEF Optional
      <4> QED
        BY <1>6, <3>2 DEF Executions
    <3> QED
      BY <3>1, <3>3
  <2>2. CASE e.type = "TeeExecution"
    <3>0. /\ x = Variant(e.tee_type[1], TeeTypes) /\ e.tee_type[1] \in ToSet(TeeTypes)
          /\ y = Variant(f.tee_type[1], TeeTypes) /\ f.tee_type[1] \in ToSet(TeeTypes)
      BY <1>2, <1>4, <1>6, <2>2
    <3>1. Told(x, y) /\ (x = y => e.tee_type[1] = f.tee_type[1])
      BY <3>0, VariantTold DEF Variants
    <3>2. /\ e.tee_type = Some(e.tee_type[1]) /\ f.tee_type = Some(f.tee_type[1])
          /\ e.sampling_rate_percent = None /\ f.sampling_rate_percent = None
      BY <1>1, <1>6, <2>2, OptionalFacts
    <3>3. e.tee_type[1] = f.tee_type[1] => e = f
      <4> HIDE DEF Optional
      <4> QED
        BY <1>6, <3>2 DEF Executions
    <3> QED
      BY <3>1, <3>3
  <2>3. CASE e.type \notin {"IndexerExecution", "TeeExecution"}
    <3>1. x = << >> /\ y = << >>
      BY <1>2, <1>4, <1>6, <2>3
    <3>2. e = f
      <4>1. e.sampling_rate_percent = None /\ f.sampling_rate_percent = None /\ e.tee_type = None /\ f.tee_type = None
        BY <1>1, <1>6, <2>3
      <4> HIDE DEF Optional
      <4> QED
        BY <1>6, <4>1 DEF Executions
    <3> QED
      BY <3>1, <3>2, NoTokens DEF Told
  <2> QED
    BY <2>1, <2>2, <2>3
<1>7. IsSeq(x) /\ IsSeq(y)
  BY <1>2, <1>4
<1>8. Told(p \o x, q \o y) /\ (p \o x = q \o y => p = q /\ x = y)
  BY <1>5, <1>6, <1>7, Told2
<1> QED
  BY <1>3, <1>4, <1>5, <1>6, <1>8

\* A retention window or another counted choice.
LEMMA CountedTells ==
  ASSUME NEW variants \in Variants, NEW counted, NEW v \in Counted(ToSet(variants)),
         NEW w \in Counted(ToSet(variants)),
         CountedRule(v, counted), CountedRule(w, counted)
  PROVE  /\ Told(EncodeCounted(v, variants), EncodeCounted(w, variants))
         /\ EncodeCounted(v, variants) = EncodeCounted(w, variants) => v = w
<1> DEFINE more(d) == IF d.value = None THEN << >> ELSE U64(d.value[1])
<1>1. ASSUME NEW d \in {v, w}
      PROVE  /\ d.type \in ToSet(variants) /\ d.value \in Optional(Int)
             /\ d.value # None => Unsigned(d.value[1], 8) /\ d.value = Some(d.value[1])
             /\ d.type \in counted <=> d.value # None
  <2>1. d.type \in ToSet(variants) /\ d.value \in Optional(Int)
    <3> HIDE DEF Optional
    <3> QED
      BY DEF Counted
  <2>2. CountedRule(d, counted)
    OBVIOUS
  <2> QED
    BY <2>1, <2>2, OptionalFacts DEF CountedRule
<1>2. EncodeCounted(v, variants) = Variant(v.type, variants) \o more(v)
      /\ EncodeCounted(w, variants) = Variant(w.type, variants) \o more(w)
  BY DEF EncodeCounted
<1>3. IsSeq(more(v)) /\ IsSeq(more(w))
  BY UnsignedTells, NoTokens
<1>4. Told(Variant(v.type, variants), Variant(w.type, variants)) /\
        (Variant(v.type, variants) = Variant(w.type, variants) => v.type = w.type)
  BY <1>1, VariantTold
<1>5. v.type = w.type /\ v.value = w.value => v = w
  <2> HIDE DEF Optional
  <2> QED
    BY DEF Counted
<1>6. ASSUME v.type = w.type PROVE Told(more(v), more(w)) /\ (more(v) = more(w) => v = w)
  <2>1. CASE v.value = None
    <3>1. w.value = None
      BY <1>1, <1>6, <2>1
    <3> QED
      BY <1>5, <1>6, <2>1, <3>1, NoTokens DEF Told
  <2>2. CASE v.value # None
    <3>1. w.value # None
      BY <1>1, <1>6, <2>2
    <3>2. Told(more(v), more(w)) /\ (more(v) = more(w) => v.value[1] = w.value[1])
      BY <1>1, <2>2, <3>1, CodeFacts
    <3> QED
      BY <1>1, <1>5, <1>6, <2>2, <3>1, <3>2
  <2> QED
    BY <2>1, <2>2
<1> HIDE DEF more
<1>7. PICK p, q, x, y : p = Variant(v.type, variants) /\ q = Variant(w.type, variants) /\ x = more(v) /\ y = more(w)
  OBVIOUS
<1>8. Told(p \o x, q \o y) /\ (p \o x = q \o y => p = q /\ x = y)
  <2>1. IsSeq(x) /\ IsSeq(y) /\ Told(p, q)
    BY <1>3, <1>4, <1>7
  <2>2. p = q => Told(x, y)
    BY <1>4, <1>6, <1>7
  <2> QED
    BY <2>1, <2>2, Told2
<1> QED
  BY <1>2, <1>4, <1>6, <1>7, <1>8

\* A completeness setting with its defaults written out.
CompleteSent(c) ==
  /\ c \in Completenesses
  /\ \A h \in {c.log_config_hash, c.tx_config_hash} : Len(h) = 4 /\ \A i \in DOMAIN h : Unsigned(h[i], 4)
  /\ c.deferred # None
  /\ c.bond_amount # None /\ Unsigned(c.bond_amount[1], 16)

\* The completeness rule as encoded.
LEMMA CompletenessTells ==
  ASSUME NEW c, NEW d, CompleteSent(c), CompleteSent(d)
  PROVE  Told(EncodeCompleteness(c), EncodeCompleteness(d)) /\
           (EncodeCompleteness(c) = EncodeCompleteness(d) => c = d)
<1>1. ASSUME NEW e \in {c, d}
      PROVE  /\ e.log_config_hash \in Seq(Int) /\ e.tx_config_hash \in Seq(Int)
             /\ Len(e.log_config_hash) = 4 /\ Len(e.tx_config_hash) = 4
             /\ \A i \in 1..4 : Unsigned(e.log_config_hash[i], 4) /\ Unsigned(e.tx_config_hash[i], 4)
             /\ e.deferred = Some(e.deferred[1]) /\ e.deferred[1] \in BOOLEAN
             /\ e.bond_amount = Some(e.bond_amount[1]) /\ Unsigned(e.bond_amount[1], 16)
  <2>1. e \in Completenesses /\ e.deferred # None /\ e.bond_amount # None /\ Unsigned(e.bond_amount[1], 16)
    BY DEF CompleteSent
  <2>2. e.log_config_hash \in Seq(Int) /\ e.tx_config_hash \in Seq(Int)
        /\ e.deferred \in Optional(BOOLEAN) /\ e.bond_amount \in Optional(Int)
    <3> HIDE DEF Optional
    <3> QED
      BY <2>1 DEF Completenesses
  <2>3. Len(e.log_config_hash) = 4 /\ Len(e.tx_config_hash) = 4
        /\ \A i \in 1..4 : Unsigned(e.log_config_hash[i], 4) /\ Unsigned(e.tx_config_hash[i], 4)
    <3>1. PICK h, k : h = e.log_config_hash /\ k = e.tx_config_hash
      OBVIOUS
    <3>2. h \in Seq(Int) /\ k \in Seq(Int)
      BY <2>2, <3>1
    <3>3. Len(h) = 4 /\ Len(k) = 4 /\ (\A i \in DOMAIN h : Unsigned(h[i], 4)) /\
            (\A i \in DOMAIN k : Unsigned(k[i], 4))
      BY <3>1 DEF CompleteSent
    <3>4. DOMAIN h = 1..4 /\ DOMAIN k = 1..4
      BY <3>2, <3>3
    <3> QED
      BY <3>1, <3>3, <3>4
  <2> QED
    BY <2>1, <2>2, <2>3, OptionalFacts
<1> DEFINE both(e) == [i \in 1..8 |-> U32((e.log_config_hash \o e.tx_config_hash)[i])]
<1>2. ASSUME NEW e \in {c, d}
      PROVE  /\ Parts(both(e)) /\ Len(both(e)) = 8
             /\ \A i \in 1..4 : both(e)[i] = U32(e.log_config_hash[i]) /\ both(e)[i + 4] = U32(e.tx_config_hash[i])
  <2>1. PICK h, k : h = e.log_config_hash /\ k = e.tx_config_hash
    OBVIOUS
  <2>2. h \in Seq(Int) /\ k \in Seq(Int) /\ Len(h) = 4 /\ Len(k) = 4
    BY <1>1, <2>1
  <2>3. \A i \in 1..4 : (h \o k)[i] = h[i] /\ (h \o k)[i + 4] = k[i]
    <3>1. IsSeq(h) /\ IsSeq(k)
      BY <2>2 DEF IsSeq
    <3>2. \A i \in 1..4 : (h \o k)[i] = h[i] /\ (h \o k)[4 + i] = k[i]
      <4>1. PICK z : z = h \o k
        OBVIOUS
      <4>2. (\A i \in 1..Len(h) : z[i] = h[i]) /\ (\A i \in 1..Len(k) : z[Len(h) + i] = k[i])
        BY <3>1, <4>1, CatFacts
      <4>3. \A i \in 1..4 : z[i] = h[i] /\ z[4 + i] = k[i]
        BY <2>2, <4>2
      <4> QED
        BY <4>1, <4>3
    <3>3. \A i \in 1..4 : 4 + i = i + 4
      OBVIOUS
    <3> QED
      BY <3>2, <3>3
  <2>4. \A i \in 1..4 : i \in 1..8 /\ i + 4 \in 1..8
    OBVIOUS
  <2>5. \A i \in 1..8 : both(e)[i] = U32((h \o k)[i])
    BY <2>1
  <2>6. both(e) = [i \in 1..8 |-> both(e)[i]]
    OBVIOUS
  <2> HIDE DEF both
  <2>7. IsSeq(both(e)) /\ Len(both(e)) = 8
    BY <2>6, OfLength
  <2>8. \A i \in 1..8 : IsSeq(both(e)[i])
    BY <2>5, UnsignedTells
  <2>9. \A i \in 1..4 : both(e)[i] = U32(h[i]) /\ both(e)[i + 4] = U32(k[i])
    BY <2>3, <2>4, <2>5
  <2> QED
    BY <2>1, <2>7, <2>8, <2>9 DEF Parts
<1> HIDE DEF both
<1>3. PICK f, g : f = both(c) /\ g = both(d)
  OBVIOUS
<1>4. /\ Parts(f) /\ Len(f) = 8 /\ \A i \in 1..4 : f[i] = U32(c.log_config_hash[i]) /\
           f[i + 4] = U32(c.tx_config_hash[i])
      /\ Parts(g) /\ Len(g) = 8 /\ \A i \in 1..4 : g[i] = U32(d.log_config_hash[i]) /\
           g[i + 4] = U32(d.tx_config_hash[i])
  BY <1>2, <1>3
<1>5. \A i \in 1..4 : /\ Unsigned(c.log_config_hash[i], 4) /\ Unsigned(c.tx_config_hash[i], 4)
                      /\ Unsigned(d.log_config_hash[i], 4) /\ Unsigned(d.tx_config_hash[i], 4)
  BY <1>1
<1>6. ASSUME NEW i \in 1..4
      PROVE  /\ Told(f[i], g[i]) /\ Told(f[i + 4], g[i + 4])
             /\ f[i] = g[i] => c.log_config_hash[i] = d.log_config_hash[i]
             /\ f[i + 4] = g[i + 4] => c.tx_config_hash[i] = d.tx_config_hash[i]
  BY <1>4, <1>5, CodeFacts
<1>7. \A i \in 1..8 : Told(f[i], g[i])
  <2> TAKE i \in 1..8
  <2>1. CASE i \in 1..4
    BY <1>6, <2>1
  <2>2. CASE i \notin 1..4
    <3>1. PICK j \in 1..4 : i = j + 4
      <4>1. i - 4 \in 1..4 /\ i = (i - 4) + 4
        BY <2>2
      <4> QED
        BY <4>1
    <3> QED
      BY <1>6, <3>1
  <2> QED
    BY <2>1, <2>2
<1> DEFINE p1 == FlattenSeq(f)
           q1 == FlattenSeq(g)
           p2 == Bool(c.deferred[1])
           q2 == Bool(d.deferred[1])
           p3 == U128(c.bond_amount[1])
           q3 == U128(d.bond_amount[1])
<1>8. Told(p1, q1) /\ (p1 = q1 => c.log_config_hash = d.log_config_hash /\ c.tx_config_hash = d.tx_config_hash)
  <2>1. Told(p1, q1) /\ (p1 = q1 => f = g)
    BY <1>4, <1>7, ManyTell
  <2>2. f = g => \A i \in 1..4 : c.log_config_hash[i] = d.log_config_hash[i] /\
          c.tx_config_hash[i] = d.tx_config_hash[i]
    BY <1>6
  <2>3. /\ IsSeq(c.log_config_hash) /\ IsSeq(d.log_config_hash) /\ IsSeq(c.tx_config_hash) /\ IsSeq(d.tx_config_hash)
        /\ Len(c.log_config_hash) = 4 /\ Len(d.log_config_hash) = 4 /\ Len(c.tx_config_hash) = 4 /\
             Len(d.tx_config_hash) = 4
    BY <1>1 DEF IsSeq
  <2>4. f = g => c.log_config_hash = d.log_config_hash
    BY <2>2, <2>3, SameSeq
  <2>5. f = g => c.tx_config_hash = d.tx_config_hash
    BY <2>2, <2>3, SameSeq
  <2> QED
    BY <2>1, <2>4, <2>5
<1>9. Told(p2, q2) /\ (p2 = q2 => c.deferred[1] = d.deferred[1])
  BY <1>1, CodeFacts
<1>10. Told(p3, q3) /\ (p3 = q3 => c.bond_amount[1] = d.bond_amount[1])
  <2>1. Unsigned(c.bond_amount[1], 16) /\ Unsigned(d.bond_amount[1], 16)
    BY <1>1
  <2> QED
    BY <2>1, CodeFacts
<1>11. EncodeCompleteness(c) = Row3(p1, p2, p3) /\ EncodeCompleteness(d) = Row3(q1, q2, q3)
  BY <1>3 DEF EncodeCompleteness, Row3, both
<1> HIDE DEF p1, q1, p2, q2, p3, q3
<1>12. Told(Row3(p1, p2, p3), Row3(q1, q2, q3)) /\
         (Row3(p1, p2, p3) = Row3(q1, q2, q3) => p1 = q1 /\ p2 = q2 /\ p3 = q3)
  BY <1>8, <1>9, <1>10, Told3
<1>13. c.deferred[1] = d.deferred[1] /\ c.bond_amount[1] = d.bond_amount[1] => c.deferred = d.deferred /\
         c.bond_amount = d.bond_amount
  BY <1>1
<1>14. c.log_config_hash = d.log_config_hash /\ c.tx_config_hash = d.tx_config_hash
       /\ c.deferred = d.deferred /\ c.bond_amount = d.bond_amount => c = d
  <2> HIDE DEF Optional
  <2> QED
    BY DEF CompleteSent, Completenesses
<1> QED
  BY <1>8, <1>9, <1>10, <1>11, <1>12, <1>13, <1>14

\* An indexer's terms, and a blockchain index, as the node decodes them.
ConfigSent(c) ==
  /\ c \in IndexerConfigs
  /\ Unsigned(c.min_indexers, 1) /\ Unsigned(c.max_indexers, 1)
  /\ ~c.reward_per_epoch.text /\ Unsigned(c.reward_per_epoch.value, 16)
  /\ ~c.min_indexer_stake.text /\ Unsigned(c.min_indexer_stake.value, 16)
  /\ c.epoch_length # None /\ Unsigned(c.epoch_length[1], 8)

\* An indexing mode as it is sent.
IndexingSent(m) ==
  /\ m \in BlockchainIndexings
  /\ m.manifest_content.form = "list"
  /\ m.wasm_modules # None /\ \A i \in DOMAIN m.wasm_modules[1] : WasmSent(m.wasm_modules[1][i])
  /\ ExecutionRule(m.execution_mode)
  /\ ConfigSent(m.indexer_config)
  /\ m.retention_window # None /\ CountedRule(m.retention_window[1], {"Blocks", "Seconds"})
  /\ m.completeness # None => CompleteSent(m.completeness[1])
  /\ m.historical_auth_mode # None

\* The terms are the same if their numbers are.
LEMMA ConfigSame ==
  ASSUME NEW c, NEW d, ConfigSent(c), ConfigSent(d),
         c.min_indexers = d.min_indexers, c.max_indexers = d.max_indexers,
         c.reward_per_epoch.value = d.reward_per_epoch.value, c.epoch_length[1] = d.epoch_length[1],
         c.min_indexer_stake.value = d.min_indexer_stake.value
  PROVE  c = d
<1>1. c \in IndexerConfigs /\ d \in IndexerConfigs
  BY DEF ConfigSent
<1>2. \A a, b \in Amounts : a.text = b.text /\ a.value = b.value => a = b
  BY DEF Amounts
<1>3. /\ c.reward_per_epoch \in Amounts /\ d.reward_per_epoch \in Amounts
      /\ c.min_indexer_stake \in Amounts /\ d.min_indexer_stake \in Amounts
      /\ c.epoch_length \in Optional(Int) /\ d.epoch_length \in Optional(Int)
  <2> HIDE DEF Amounts, Optional
  <2> QED
    BY <1>1 DEF IndexerConfigs
<1>4. \A a \in Amounts : a.text \in BOOLEAN
  BY DEF Amounts
<1>5. /\ c.reward_per_epoch.text = d.reward_per_epoch.text
      /\ c.min_indexer_stake.text = d.min_indexer_stake.text
  BY <1>3, <1>4 DEF ConfigSent
<1>6. c.reward_per_epoch = d.reward_per_epoch /\ c.min_indexer_stake = d.min_indexer_stake
  BY <1>2, <1>3, <1>5
<1>7. c.epoch_length = d.epoch_length
  BY <1>3, OptionalFacts DEF ConfigSent
<1> HIDE DEF Amounts, Optional
<1> QED
  BY <1>1, <1>6, <1>7 DEF IndexerConfigs

\* It is told from any other.
LEMMA IndexingTells ==
  ASSUME NEW m, NEW n, IndexingSent(m), IndexingSent(n)
  PROVE  Told(EncodeIndexing(m), EncodeIndexing(n)) /\ (EncodeIndexing(m) = EncodeIndexing(n) => m = n)
<1> DEFINE code(k) == FlattenSeq([i \in DOMAIN k.wasm_modules[1] |-> EncodeWasm(k.wasm_modules[1][i])])
           p1 == ByteVec(Bytes(m.manifest_content))
           q1 == ByteVec(Bytes(n.manifest_content))
           p2 == U64(Len(m.wasm_modules[1]))
           q2 == U64(Len(n.wasm_modules[1]))
           p3 == code(m)
           q3 == code(n)
           p4 == EncodeExecution(m.execution_mode)
           q4 == EncodeExecution(n.execution_mode)
           p5 == U8(m.indexer_config.min_indexers)
           q5 == U8(n.indexer_config.min_indexers)
           p6 == U8(m.indexer_config.max_indexers)
           q6 == U8(n.indexer_config.max_indexers)
           p7 == U128(m.indexer_config.reward_per_epoch.value)
           q7 == U128(n.indexer_config.reward_per_epoch.value)
           p8 == U64(m.indexer_config.epoch_length[1])
           q8 == U64(n.indexer_config.epoch_length[1])
           p9 == U128(m.indexer_config.min_indexer_stake.value)
           q9 == U128(n.indexer_config.min_indexer_stake.value)
           p10 == EncodeCounted(m.retention_window[1], RetentionWindows)
           q10 == EncodeCounted(n.retention_window[1], RetentionWindows)
           p11 == Option(m.completeness, EncodeCompleteness)
           q11 == Option(n.completeness, EncodeCompleteness)
           p12 == Variant(m.historical_auth_mode[1], HistoricalAuthModes)
           q12 == Variant(n.historical_auth_mode[1], HistoricalAuthModes)
<1>1. ASSUME NEW k \in {m, n}
      PROVE  /\ k.manifest_content \in ByteField /\ k.manifest_content.form = "list"
             /\ k.wasm_modules \in Optional(List(WasmSources)) /\ k.wasm_modules # None
             /\ k.execution_mode \in Executions /\ ExecutionRule(k.execution_mode)
             /\ k.retention_window \in Optional(Counted(ToSet(RetentionWindows))) /\ k.retention_window # None
             /\ k.completeness \in Optional(Completenesses)
             /\ k.historical_auth_mode \in Optional(ToSet(HistoricalAuthModes)) /\ k.historical_auth_mode # None
             /\ k.type = "BlockchainIndexing"
  <2>1. k \in BlockchainIndexings /\ k.manifest_content.form = "list" /\ k.wasm_modules # None
        /\ ExecutionRule(k.execution_mode) /\ k.retention_window # None /\ k.historical_auth_mode # None
    BY DEF IndexingSent
  <2> HIDE DEF ByteField, Optional, List, WasmSources, Executions, Counted, Completenesses
  <2> QED
    BY <2>1 DEF BlockchainIndexings
<1>2. ASSUME NEW k \in {m, n}
      PROVE  /\ k.wasm_modules[1] \in List(WasmSources) /\ k.wasm_modules = Some(k.wasm_modules[1])
             /\ k.retention_window[1] \in Counted(ToSet(RetentionWindows)) /\
                  k.retention_window = Some(k.retention_window[1])
             /\ k.historical_auth_mode[1] \in ToSet(HistoricalAuthModes)
             /\ k.historical_auth_mode = Some(k.historical_auth_mode[1])
  BY <1>1, OptionalFacts
<1>3. ASSUME NEW k \in {m, n}
      PROVE  /\ \A i \in DOMAIN k.wasm_modules[1] : WasmSent(k.wasm_modules[1][i])
             /\ ConfigSent(k.indexer_config)
             /\ CountedRule(k.retention_window[1], {"Blocks", "Seconds"})
             /\ k.completeness # None => CompleteSent(k.completeness[1])
  BY DEF IndexingSent
<1>4. Told(p1, q1) /\ (p1 = q1 => m.manifest_content = n.manifest_content)
  <2>1. m.manifest_content \in ByteField /\ n.manifest_content \in ByteField /\
          m.manifest_content.form = n.manifest_content.form
    BY <1>1
  <2> QED
    BY <2>1, CodeFacts
<1>5. /\ Told(p2, q2) /\ IsSeq(p3) /\ IsSeq(q3)
      /\ p2 = q2 => Told(p3, q3) /\ (p3 = q3 => m.wasm_modules[1] = n.wasm_modules[1])
  <2>1. PICK v, w : v = m.wasm_modules[1] /\ w = n.wasm_modules[1]
    OBVIOUS
  <2>2. /\ v \in List(WasmSources) /\ w \in List(WasmSources)
        /\ \A i \in DOMAIN v : WasmSent(v[i])
        /\ \A i \in DOMAIN w : WasmSent(w[i])
    BY <1>2, <1>3, <2>1
  <2>3. p2 = U64(Len(v)) /\ q2 = U64(Len(w)) /\ p3 = FlattenSeq([i \in DOMAIN v |-> EncodeWasm(v[i])])
        /\ q3 = FlattenSeq([i \in DOMAIN w |-> EncodeWasm(w[i])])
    BY <2>1
  <2> HIDE DEF p2, q2, p3, q3, code
  <2> QED
    BY <2>1, <2>2, <2>3, WasmListTells
<1>6. Told(p4, q4) /\ (p4 = q4 => m.execution_mode = n.execution_mode)
  BY <1>1, ExecutionTells
<1>7. /\ Told(p5, q5) /\ Told(p6, q6) /\ Told(p7, q7) /\ Told(p8, q8) /\ Told(p9, q9)
      /\ p5 = q5 /\ p6 = q6 /\ p7 = q7 /\ p8 = q8 /\ p9 = q9 => m.indexer_config = n.indexer_config
  <2>1. PICK c, d : c = m.indexer_config /\ d = n.indexer_config
    OBVIOUS
  <2>2. ConfigSent(c) /\ ConfigSent(d)
    BY <1>3, <2>1
  <2>3. /\ p5 = U8(c.min_indexers) /\ q5 = U8(d.min_indexers) /\ p6 = U8(c.max_indexers) /\ q6 = U8(d.max_indexers)
        /\ p7 = U128(c.reward_per_epoch.value) /\ q7 = U128(d.reward_per_epoch.value)
        /\ p8 = U64(c.epoch_length[1]) /\ q8 = U64(d.epoch_length[1])
        /\ p9 = U128(c.min_indexer_stake.value) /\ q9 = U128(d.min_indexer_stake.value)
    BY <2>1
  <2> HIDE DEF p5, q5, p6, q6, p7, q7, p8, q8, p9, q9
  <2>4. Told(p5, q5) /\ (p5 = q5 => c.min_indexers = d.min_indexers)
    BY <2>2, <2>3, CodeFacts DEF ConfigSent
  <2>5. Told(p6, q6) /\ (p6 = q6 => c.max_indexers = d.max_indexers)
    BY <2>2, <2>3, CodeFacts DEF ConfigSent
  <2>6. Told(p7, q7) /\ (p7 = q7 => c.reward_per_epoch.value = d.reward_per_epoch.value)
    BY <2>2, <2>3, CodeFacts DEF ConfigSent
  <2>7. Told(p8, q8) /\ (p8 = q8 => c.epoch_length[1] = d.epoch_length[1])
    BY <2>2, <2>3, CodeFacts DEF ConfigSent
  <2>8. Told(p9, q9) /\ (p9 = q9 => c.min_indexer_stake.value = d.min_indexer_stake.value)
    BY <2>2, <2>3, CodeFacts DEF ConfigSent
  <2>9. p5 = q5 /\ p6 = q6 /\ p7 = q7 /\ p8 = q8 /\ p9 = q9 => c = d
    BY <2>2, <2>4, <2>5, <2>6, <2>7, <2>8, ConfigSame
  <2> QED
    BY <2>1, <2>4, <2>5, <2>6, <2>7, <2>8, <2>9
<1>8. Told(p10, q10) /\ (p10 = q10 => m.retention_window[1] = n.retention_window[1])
  <2>1. RetentionWindows \in Variants
    BY DEF Variants
  <2>2. /\ m.retention_window[1] \in Counted(ToSet(RetentionWindows)) /\
             CountedRule(m.retention_window[1], {"Blocks", "Seconds"})
        /\ n.retention_window[1] \in Counted(ToSet(RetentionWindows)) /\
             CountedRule(n.retention_window[1], {"Blocks", "Seconds"})
    BY <1>2, <1>3
  <2> QED
    BY <2>1, <2>2, CountedTells
<1>9. Told(p11, q11) /\ (p11 = q11 => m.completeness = n.completeness)
  <2>1. PICK o, r : o = m.completeness /\ r = n.completeness
    OBVIOUS
  <2>2. o \in Optional(Completenesses) /\ r \in Optional(Completenesses)
        /\ (o # None => CompleteSent(o[1])) /\ (r # None => CompleteSent(r[1]))
    BY <1>1, <1>3, <2>1
  <2>3. PICK w, v : w = EncodeCompleteness(o[1]) /\ v = EncodeCompleteness(r[1])
    OBVIOUS
  <2>4. (o # None => IsSeq(w)) /\ (r # None => IsSeq(v)) /\ (o = r => w = v)
    BY <2>2, <2>3, CompletenessTells DEF Told
  <2>5. o # None /\ r # None => Told(w, v) /\ (w = v => o[1] = r[1])
    BY <2>2, <2>3, CompletenessTells
  <2>6. p11 = (IF o = None THEN U8(0) ELSE U8(1) \o w) /\ q11 = (IF r = None THEN U8(0) ELSE U8(1) \o v)
    BY <2>1, <2>3 DEF Option
  <2> QED
    BY <2>1, <2>2, <2>4, <2>5, <2>6, OptionTold
<1>10. Told(p12, q12) /\ (p12 = q12 => m.historical_auth_mode[1] = n.historical_auth_mode[1])
  BY <1>2, VariantTold DEF Variants
<1>11. /\ EncodeIndexing(m) = Row7(Row4((p1 \o p2) \o p3, p4, p5, p6), p7, p8, p9, p10, p11, p12)
       /\ EncodeIndexing(n) = Row7(Row4((q1 \o q2) \o q3, q4, q5, q6), q7, q8, q9, q10, q11, q12)
  BY DEF EncodeIndexing, Row7, Row4
<1> HIDE DEF p1, q1, p2, q2, p3, q3, p4, q4, p5, q5, p6, q6, p7, q7, p8, q8, p9, q9, p10, q10, p11, q11, p12, q12
<1>12. PICK x, y : x = p1 \o p2 /\ y = q1 \o q2
  OBVIOUS
<1>13. Told(x, y) /\ (x = y => p1 = q1 /\ p2 = q2)
  <2>1. IsSeq(p2) /\ IsSeq(q2)
    BY <1>5 DEF Told
  <2> QED
    BY <1>4, <1>5, <1>12, <2>1, Told2
<1>14. PICK z, t : z = x \o p3 /\ t = y \o q3
  OBVIOUS
<1>15. Told(z, t) /\ (z = t => x = y /\ p3 = q3)
  BY <1>5, <1>13, <1>14, Told2
<1>16. PICK u, s : u = Row4(z, p4, p5, p6) /\ s = Row4(t, q4, q5, q6)
  OBVIOUS
<1>17. Told(u, s) /\ (u = s => z = t /\ p4 = q4 /\ p5 = q5 /\ p6 = q6)
  BY <1>6, <1>7, <1>15, <1>16, Told4
<1>18. /\ Told(Row7(u, p7, p8, p9, p10, p11, p12), Row7(s, q7, q8, q9, q10, q11, q12))
       /\ Row7(u, p7, p8, p9, p10, p11, p12) = Row7(s, q7, q8, q9, q10, q11, q12)
            => u = s /\ p7 = q7 /\ p8 = q8 /\ p9 = q9 /\ p10 = q10 /\ p11 = q11 /\ p12 = q12
  BY <1>7, <1>8, <1>9, <1>10, <1>17, Told7
<1>19. EncodeIndexing(m) = Row7(u, p7, p8, p9, p10, p11, p12) /\
         EncodeIndexing(n) = Row7(s, q7, q8, q9, q10, q11, q12)
  BY <1>11, <1>12, <1>14, <1>16
<1>20. ASSUME EncodeIndexing(m) = EncodeIndexing(n) PROVE m = n
  <2>1. /\ m.manifest_content = n.manifest_content /\ m.wasm_modules[1] = n.wasm_modules[1]
        /\ m.execution_mode = n.execution_mode /\ m.indexer_config = n.indexer_config
        /\ m.retention_window[1] = n.retention_window[1] /\ m.completeness = n.completeness
        /\ m.historical_auth_mode[1] = n.historical_auth_mode[1]
    BY <1>4, <1>5, <1>6, <1>7, <1>8, <1>9, <1>10, <1>13, <1>15, <1>17, <1>18, <1>19, <1>20
  <2>2. /\ m.wasm_modules = n.wasm_modules /\ m.retention_window = n.retention_window
        /\ m.historical_auth_mode = n.historical_auth_mode /\ m.type = n.type
    BY <1>1, <1>2, <2>1
  <2>3. m \in BlockchainIndexings /\ n \in BlockchainIndexings
    BY DEF IndexingSent
  <2> HIDE DEF ByteField, Optional, List, WasmSources, Executions, Counted, Completenesses, IndexerConfigs
  <2> QED
    BY <2>1, <2>2, <2>3 DEF BlockchainIndexings
<1> QED
  BY <1>18, <1>19, <1>20

\* A price for reads, or none.
LEMMA PricingOption ==
  ASSUME NEW o \in Optional(ReadPricings), NEW r \in Optional(ReadPricings),
         o # None => PricingRule(o[1]), r # None => PricingRule(r[1])
  PROVE  Told(Option(o, EncodeReadPricing), Option(r, EncodeReadPricing))
         /\ (Option(o, EncodeReadPricing) = Option(r, EncodeReadPricing) => o = r)
<1>1. PICK w, v : w = EncodeReadPricing(o[1]) /\ v = EncodeReadPricing(r[1])
  OBVIOUS
<1>2. (o # None => o[1] \in ReadPricings) /\ (r # None => r[1] \in ReadPricings)
  BY OptionalFacts
<1>3. (o # None => IsSeq(w)) /\ (r # None => IsSeq(v)) /\ (o = r => w = v)
  BY <1>1, <1>2, PricingTells DEF Told
<1>4. o # None /\ r # None => Told(w, v) /\ (w = v => o[1] = r[1])
  BY <1>1, <1>2, PricingTells
<1>5. Option(o, EncodeReadPricing) = (IF o = None THEN U8(0) ELSE U8(1) \o w)
      /\ Option(r, EncodeReadPricing) = (IF r = None THEN U8(0) ELSE U8(1) \o v)
  BY <1>1 DEF Option
<1> QED
  BY <1>3, <1>4, <1>5, OptionTold

\* A storage mode as the node decodes it: its readers under the node's name.
DataSent(m) ==
  /\ m \in DataStorages /\ m.readers.key = "free_readers"
  /\ m.read_pricing # None => PricingRule(m.read_pricing[1])

\* A file storage mode as it is sent.
FileSent(m) ==
  /\ m \in FileStorages /\ m.readers.key = "free_readers"
  /\ m.read_pricing # None => PricingRule(m.read_pricing[1])
  /\ Unsigned(m.max_file_size, 8) /\ Unsigned(m.replication_factor, 1)
  /\ m.retention_period # None /\ Unsigned(m.retention_period[1], 8)

\* A data storage mode as encoded.
EncodeData(m) ==
  String(m.name) \o Strings(m.writers) \o Strings(m.readers.list) \o Option(m.read_pricing, EncodeReadPricing)
EncodeFile(m) ==
  String(m.name) \o U64(m.max_file_size) \o U8(m.replication_factor) \o Strings(m.writers) \o Strings(m.readers.list)
  \o Option(m.read_pricing, EncodeReadPricing) \o U64(m.retention_period[1])

\* It is told from any other.
LEMMA DataTells ==
  ASSUME NEW m, NEW n, DataSent(m), DataSent(n)
  PROVE  Told(EncodeData(m), EncodeData(n)) /\ (EncodeData(m) = EncodeData(n) => m = n)
<1> DEFINE p1 == String(m.name)
           q1 == String(n.name)
           p2 == Strings(m.writers)
           q2 == Strings(n.writers)
           p3 == Strings(m.readers.list)
           q3 == Strings(n.readers.list)
           p4 == Option(m.read_pricing, EncodeReadPricing)
           q4 == Option(n.read_pricing, EncodeReadPricing)
<1>1. ASSUME NEW k \in {m, n}
      PROVE  /\ k.type = "DataStorage" /\ k.name \in Text /\ k.writers \in List(Text) /\ k.readers \in ReaderLists
             /\ k.readers.list \in List(Text) /\ k.readers.key = "free_readers"
             /\ k.read_pricing \in Optional(ReadPricings)
             /\ k.read_pricing # None => PricingRule(k.read_pricing[1])
  <2> HIDE DEF Text, List, Optional
  <2> QED
    BY DEF DataSent, DataStorages, ReaderLists
<1>2. Told(p1, q1) /\ (p1 = q1 => m.name = n.name)
  BY <1>1, CodeFacts
<1>3. Told(p2, q2) /\ (p2 = q2 => m.writers = n.writers)
  BY <1>1, CodeFacts
<1>4. Told(p3, q3) /\ (p3 = q3 => m.readers.list = n.readers.list)
  BY <1>1, CodeFacts
<1>5. Told(p4, q4) /\ (p4 = q4 => m.read_pricing = n.read_pricing)
  BY <1>1, PricingOption
<1>6. EncodeData(m) = Row4(p1, p2, p3, p4) /\ EncodeData(n) = Row4(q1, q2, q3, q4)
  BY DEF EncodeData, Row4
<1> HIDE DEF p1, q1, p2, q2, p3, q3, p4, q4
<1>7. /\ Told(Row4(p1, p2, p3, p4), Row4(q1, q2, q3, q4))
      /\ Row4(p1, p2, p3, p4) = Row4(q1, q2, q3, q4) => p1 = q1 /\ p2 = q2 /\ p3 = q3 /\ p4 = q4
  BY <1>2, <1>3, <1>4, <1>5, Told4
<1>8. m.readers.list = n.readers.list => m.readers = n.readers
  BY <1>1 DEF ReaderLists
<1>9. m.name = n.name /\ m.writers = n.writers /\ m.readers = n.readers /\ m.read_pricing = n.read_pricing => m = n
  <2> HIDE DEF Text, List, Optional, ReaderLists
  <2> QED
    BY <1>1 DEF DataSent, DataStorages
<1> QED
  BY <1>2, <1>3, <1>4, <1>5, <1>6, <1>7, <1>8, <1>9

\* So is a file storage mode.
LEMMA FileTells ==
  ASSUME NEW m, NEW n, FileSent(m), FileSent(n)
  PROVE  Told(EncodeFile(m), EncodeFile(n)) /\ (EncodeFile(m) = EncodeFile(n) => m = n)
<1> DEFINE p1 == String(m.name)
           q1 == String(n.name)
           p2 == U64(m.max_file_size)
           q2 == U64(n.max_file_size)
           p3 == U8(m.replication_factor)
           q3 == U8(n.replication_factor)
           p4 == Strings(m.writers)
           q4 == Strings(n.writers)
           p5 == Strings(m.readers.list)
           q5 == Strings(n.readers.list)
           p6 == Option(m.read_pricing, EncodeReadPricing)
           q6 == Option(n.read_pricing, EncodeReadPricing)
           p7 == U64(m.retention_period[1])
           q7 == U64(n.retention_period[1])
<1>1. ASSUME NEW k \in {m, n}
      PROVE  /\ k.type = "FileStorage" /\ k.name \in Text /\ k.writers \in List(Text) /\ k.readers \in ReaderLists
             /\ k.readers.list \in List(Text) /\ k.readers.key = "free_readers"
             /\ k.read_pricing \in Optional(ReadPricings) /\ k.retention_period \in Optional(Int)
             /\ k.read_pricing # None => PricingRule(k.read_pricing[1])
             /\ Unsigned(k.max_file_size, 8) /\ Unsigned(k.replication_factor, 1)
             /\ k.retention_period # None /\ Unsigned(k.retention_period[1], 8)
  <2> HIDE DEF Text, List, Optional
  <2> QED
    BY DEF FileSent, FileStorages, ReaderLists
<1>2. Told(p1, q1) /\ (p1 = q1 => m.name = n.name)
  BY <1>1, CodeFacts
<1>3. Told(p2, q2) /\ (p2 = q2 => m.max_file_size = n.max_file_size)
  <2>1. Unsigned(m.max_file_size, 8) /\ Unsigned(n.max_file_size, 8)
    BY <1>1
  <2> QED
    BY <2>1, CodeFacts
<1>4. Told(p3, q3) /\ (p3 = q3 => m.replication_factor = n.replication_factor)
  <2>1. Unsigned(m.replication_factor, 1) /\ Unsigned(n.replication_factor, 1)
    BY <1>1
  <2> QED
    BY <2>1, CodeFacts
<1>5. Told(p4, q4) /\ (p4 = q4 => m.writers = n.writers)
  BY <1>1, CodeFacts
<1>6. Told(p5, q5) /\ (p5 = q5 => m.readers.list = n.readers.list)
  BY <1>1, CodeFacts
<1>7. Told(p6, q6) /\ (p6 = q6 => m.read_pricing = n.read_pricing)
  BY <1>1, PricingOption
<1>8. Told(p7, q7) /\ (p7 = q7 => m.retention_period[1] = n.retention_period[1])
  <2>1. Unsigned(m.retention_period[1], 8) /\ Unsigned(n.retention_period[1], 8)
    BY <1>1
  <2> QED
    BY <2>1, CodeFacts
<1>9. EncodeFile(m) = Row7(p1, p2, p3, p4, p5, p6, p7) /\ EncodeFile(n) = Row7(q1, q2, q3, q4, q5, q6, q7)
  BY DEF EncodeFile, Row7
<1> HIDE DEF p1, q1, p2, q2, p3, q3, p4, q4, p5, q5, p6, q6, p7, q7
<1>10. /\ Told(Row7(p1, p2, p3, p4, p5, p6, p7), Row7(q1, q2, q3, q4, q5, q6, q7))
       /\ Row7(p1, p2, p3, p4, p5, p6, p7) = Row7(q1, q2, q3, q4, q5, q6, q7)
            => p1 = q1 /\ p2 = q2 /\ p3 = q3 /\ p4 = q4 /\ p5 = q5 /\ p6 = q6 /\ p7 = q7
  BY <1>2, <1>3, <1>4, <1>5, <1>6, <1>7, <1>8, Told7
<1>11. m.readers.list = n.readers.list => m.readers = n.readers
  BY <1>1 DEF ReaderLists
<1>12. m.retention_period[1] = n.retention_period[1] => m.retention_period = n.retention_period
  BY <1>1, OptionalFacts
<1>13. m.name = n.name /\ m.max_file_size = n.max_file_size /\ m.replication_factor = n.replication_factor
       /\ m.writers = n.writers /\ m.readers = n.readers /\ m.read_pricing = n.read_pricing
       /\ m.retention_period = n.retention_period => m = n
  <2> HIDE DEF Text, List, Optional, ReaderLists
  <2> QED
    BY <1>1 DEF FileSent, FileStorages
<1> QED
  BY <1>2, <1>3, <1>4, <1>5, <1>6, <1>7, <1>8, <1>9, <1>10, <1>11, <1>12, <1>13

\* Any mode as it is sent.
ModeSent(m) == DataSent(m) \/ FileSent(m) \/ IndexingSent(m)

\* Modes are told apart, within a kind and between kinds.
LEMMA ModeTells ==
  ASSUME NEW m, NEW n, ModeSent(m), ModeSent(n)
  PROVE  Told(EncodeMode(m), EncodeMode(n)) /\ (EncodeMode(m) = EncodeMode(n) => m = n)
<1> DEFINE more(k) == CASE k.type = "DataStorage" -> EncodeData(k)
                        [] k.type = "FileStorage" -> EncodeFile(k)
                        [] OTHER -> EncodeIndexing(k)
<1>1. ASSUME NEW k \in {m, n}
      PROVE  /\ DataSent(k) => k.type = "DataStorage"
             /\ FileSent(k) => k.type = "FileStorage"
             /\ IndexingSent(k) => k.type = "BlockchainIndexing"
  <2>1. DataSent(k) => k.type = "DataStorage"
    BY DEF DataSent, DataStorages
  <2>2. FileSent(k) => k.type = "FileStorage"
    BY DEF FileSent, FileStorages
  <2>3. IndexingSent(k) => k.type = "BlockchainIndexing"
    BY DEF IndexingSent, BlockchainIndexings
  <2> QED
    BY <2>1, <2>2, <2>3
<1>2. ASSUME NEW k \in {m, n}
      PROVE  /\ DataSent(k) => more(k) = EncodeData(k)
             /\ FileSent(k) => more(k) = EncodeFile(k)
             /\ IndexingSent(k) => more(k) = EncodeIndexing(k)
  BY <1>1
<1>3. EncodeMode(m) = Variant(m.type, SubgroveModes) \o more(m) /\
        EncodeMode(n) = Variant(n.type, SubgroveModes) \o more(n)
  BY DEF EncodeMode, EncodeData, EncodeFile
<1> HIDE DEF more
<1>4. PICK p, q, x, y : p = Variant(m.type, SubgroveModes) /\ q = Variant(n.type, SubgroveModes) /\ x = more(m) /\
             y = more(n)
  OBVIOUS
<1>5. Told(p, q) /\ (p = q => m.type = n.type)
  <2>1. m.type \in ToSet(SubgroveModes) /\ n.type \in ToSet(SubgroveModes)
    <3>1. ToSet(SubgroveModes) = {"DataStorage", "FileStorage", "BlockchainIndexing"}
      <4>1. DOMAIN SubgroveModes = 1..3 /\ SubgroveModes[1] = "DataStorage" /\ SubgroveModes[2] = "FileStorage"
            /\ SubgroveModes[3] = "BlockchainIndexing"
        BY DEF SubgroveModes
      <4>2. 1..3 = {1, 2, 3}
        OBVIOUS
      <4>3. ToSet(SubgroveModes) = {SubgroveModes[i] : i \in {1, 2, 3}}
        BY <4>1, <4>2 DEF ToSet
      <4> QED
        BY <4>1, <4>3
    <3> QED
      BY <1>1, <3>1 DEF ModeSent
  <2> QED
    BY <1>4, <2>1, VariantTold DEF Variants
<1>6. ASSUME NEW k \in {m, n} PROVE IsSeq(more(k))
  <2>1. DataSent(k) => IsSeq(EncodeData(k))
    BY DataTells DEF Told
  <2>2. FileSent(k) => IsSeq(EncodeFile(k))
    BY FileTells DEF Told
  <2>3. IndexingSent(k) => IsSeq(EncodeIndexing(k))
    BY IndexingTells DEF Told
  <2>4. ModeSent(k)
    OBVIOUS
  <2> QED
    BY <1>2, <2>1, <2>2, <2>3, <2>4 DEF ModeSent
<1>7. ASSUME m.type = n.type PROVE Told(x, y) /\ (x = y => m = n)
  <2>1. CASE DataSent(m)
    <3>1. DataSent(n)
      BY <1>1, <1>7, <2>1 DEF ModeSent
    <3>2. x = EncodeData(m) /\ y = EncodeData(n)
      BY <1>2, <1>4, <2>1, <3>1
    <3> QED
      BY <2>1, <3>1, <3>2, DataTells
  <2>2. CASE FileSent(m)
    <3>1. FileSent(n)
      BY <1>1, <1>7, <2>2 DEF ModeSent
    <3>2. x = EncodeFile(m) /\ y = EncodeFile(n)
      BY <1>2, <1>4, <2>2, <3>1
    <3> QED
      BY <2>2, <3>1, <3>2, FileTells
  <2>3. CASE IndexingSent(m)
    <3>1. IndexingSent(n)
      BY <1>1, <1>7, <2>3 DEF ModeSent
    <3>2. x = EncodeIndexing(m) /\ y = EncodeIndexing(n)
      BY <1>2, <1>4, <2>3, <3>1
    <3> QED
      BY <2>3, <3>1, <3>2, IndexingTells
  <2> QED
    BY <2>1, <2>2, <2>3 DEF ModeSent
<1>8. Told(p \o x, q \o y) /\ (p \o x = q \o y => p = q /\ x = y)
  <2>1. IsSeq(x) /\ IsSeq(y) /\ (p = q => Told(x, y))
    BY <1>4, <1>5, <1>6, <1>7
  <2> QED
    BY <1>5, <2>1, Told2
<1> QED
  BY <1>3, <1>4, <1>5, <1>7, <1>8

\* An optional text.
LEMMA TextOption ==
  ASSUME NEW o \in Optional(Text), NEW r \in Optional(Text)
  PROVE  Told(Option(o, String), Option(r, String)) /\ (Option(o, String) = Option(r, String) => o = r)
<1>1. PICK w, v : w = String(o[1]) /\ v = String(r[1])
  OBVIOUS
<1>2. (o # None => o[1] \in Text) /\ (r # None => r[1] \in Text)
  BY OptionalFacts
<1>3. (o # None => IsSeq(w)) /\ (r # None => IsSeq(v)) /\ (o = r => w = v)
  BY <1>1, <1>2, CodeFacts DEF Told
<1>4. o # None /\ r # None => Told(w, v) /\ (w = v => o[1] = r[1])
  BY <1>1, <1>2, CodeFacts
<1>5. Option(o, String) = (IF o = None THEN U8(0) ELSE U8(1) \o w)
      /\ Option(r, String) = (IF r = None THEN U8(0) ELSE U8(1) \o v)
  BY <1>1 DEF Option
<1>6. PICK a, b : a = (IF o = None THEN U8(0) ELSE U8(1) \o w) /\ b = (IF r = None THEN U8(0) ELSE U8(1) \o v)
  OBVIOUS
<1>7. Told(a, b) /\ (a = b => o = r)
  BY <1>3, <1>4, <1>6, OptionTold
<1> QED
  BY <1>5, <1>6, <1>7

\* An optional list of texts.
LEMMA TextsOption ==
  ASSUME NEW o \in Optional(List(Text)), NEW r \in Optional(List(Text))
  PROVE  Told(Option(o, Strings), Option(r, Strings)) /\ (Option(o, Strings) = Option(r, Strings) => o = r)
<1>1. PICK w, v : w = Strings(o[1]) /\ v = Strings(r[1])
  OBVIOUS
<1>2. (o # None => o[1] \in List(Text)) /\ (r # None => r[1] \in List(Text))
  BY OptionalFacts
<1>3. (o # None => IsSeq(w)) /\ (r # None => IsSeq(v)) /\ (o = r => w = v)
  BY <1>1, <1>2, CodeFacts DEF Told
<1>4. o # None /\ r # None => Told(w, v) /\ (w = v => o[1] = r[1])
  BY <1>1, <1>2, CodeFacts
<1>5. Option(o, Strings) = (IF o = None THEN U8(0) ELSE U8(1) \o w)
      /\ Option(r, Strings) = (IF r = None THEN U8(0) ELSE U8(1) \o v)
  BY <1>1 DEF Option
<1>6. PICK a, b : a = (IF o = None THEN U8(0) ELSE U8(1) \o w) /\ b = (IF r = None THEN U8(0) ELSE U8(1) \o v)
  OBVIOUS
<1>7. Told(a, b) /\ (a = b => o = r)
  BY <1>3, <1>4, <1>6, OptionTold
<1> QED
  BY <1>5, <1>6, <1>7

\* Who may read a subgrove's index, and how often it is committed to.
PrivacySent(p) == p \in PrivacyConfigs /\ CountedRule(p.commitment_frequency, {"EveryNBlocks", "EveryNSeconds"})

\* The privacy configuration as encoded.
LEMMA PrivacyTells ==
  ASSUME NEW p, NEW q, PrivacySent(p), PrivacySent(q)
  PROVE  Told(EncodePrivacy(p), EncodePrivacy(q)) /\ (EncodePrivacy(p) = EncodePrivacy(q) => p = q)
<1> DEFINE p1 == Option(p.allowed_indexers, Strings)
           q1 == Option(q.allowed_indexers, Strings)
           p2 == EncodeCounted(p.commitment_frequency, CommitmentFrequencies)
           q2 == EncodeCounted(q.commitment_frequency, CommitmentFrequencies)
<1>1. ASSUME NEW e \in {p, q}
      PROVE  /\ e.allowed_indexers \in Optional(List(Text))
             /\ e.commitment_frequency \in Counted(ToSet(CommitmentFrequencies))
             /\ CountedRule(e.commitment_frequency, {"EveryNBlocks", "EveryNSeconds"})
  <2> HIDE DEF Optional, List, Text, Counted
  <2> QED
    BY DEF PrivacySent, PrivacyConfigs
<1>2. Told(p1, q1) /\ (p1 = q1 => p.allowed_indexers = q.allowed_indexers)
  BY <1>1, TextsOption
<1>3. Told(p2, q2) /\ (p2 = q2 => p.commitment_frequency = q.commitment_frequency)
  <2>1. CommitmentFrequencies \in Variants
    BY DEF Variants
  <2> QED
    BY <1>1, <2>1, CountedTells
<1>4. EncodePrivacy(p) = p1 \o p2 /\ EncodePrivacy(q) = q1 \o q2
  BY DEF EncodePrivacy
<1> HIDE DEF p1, q1, p2, q2
<1>5. Told(p1 \o p2, q1 \o q2) /\ (p1 \o p2 = q1 \o q2 => p1 = q1 /\ p2 = q2)
  <2>1. IsSeq(p2) /\ IsSeq(q2)
    BY <1>3 DEF Told
  <2> QED
    BY <1>2, <1>3, <2>1, Told2
<1>6. p.allowed_indexers = q.allowed_indexers /\ p.commitment_frequency = q.commitment_frequency => p = q
  <2> HIDE DEF Optional, List, Text, Counted
  <2> QED
    BY DEF PrivacySent, PrivacyConfigs
<1> QED
  BY <1>2, <1>3, <1>4, <1>5, <1>6

\* It may be left out.
LEMMA PrivacyOption ==
  ASSUME NEW o \in Optional(PrivacyConfigs), NEW r \in Optional(PrivacyConfigs),
         o # None => PrivacySent(o[1]), r # None => PrivacySent(r[1])
  PROVE  Told(Option(o, EncodePrivacy), Option(r, EncodePrivacy)) /\
           (Option(o, EncodePrivacy) = Option(r, EncodePrivacy) => o = r)
<1>1. PICK w, v : w = EncodePrivacy(o[1]) /\ v = EncodePrivacy(r[1])
  OBVIOUS
<1>2. (o # None => o[1] \in PrivacyConfigs /\ PrivacySent(o[1])) /\
        (r # None => r[1] \in PrivacyConfigs /\ PrivacySent(r[1]))
  BY OptionalFacts
<1>3. (o # None => IsSeq(w)) /\ (r # None => IsSeq(v)) /\ (o = r => w = v)
  BY <1>1, <1>2, PrivacyTells DEF Told
<1>4. o # None /\ r # None => Told(w, v) /\ (w = v => o[1] = r[1])
  BY <1>1, <1>2, PrivacyTells
<1>5. Option(o, EncodePrivacy) = (IF o = None THEN U8(0) ELSE U8(1) \o w)
      /\ Option(r, EncodePrivacy) = (IF r = None THEN U8(0) ELSE U8(1) \o v)
  BY <1>1 DEF Option
<1>6. PICK a, b : a = (IF o = None THEN U8(0) ELSE U8(1) \o w) /\ b = (IF r = None THEN U8(0) ELSE U8(1) \o v)
  OBVIOUS
<1>7. Told(a, b) /\ (a = b => o = r)
  BY <1>3, <1>4, <1>6, OptionTold
<1> QED
  BY <1>5, <1>6, <1>7

\* A template configuration as it is sent.
TemplateSent(c) == c \in TemplateConfigs /\ Unsigned(c.template_version, 4) /\ c.parameters.form = "list"

\* It is told from any other.
LEMMA TemplateTells ==
  ASSUME NEW c, NEW d, TemplateSent(c), TemplateSent(d)
  PROVE  Told(EncodeTemplate(c), EncodeTemplate(d)) /\ (EncodeTemplate(c) = EncodeTemplate(d) => c = d)
<1> DEFINE p1 == String(c.template_id)
           q1 == String(d.template_id)
           p2 == U32(c.template_version)
           q2 == U32(d.template_version)
           p3 == String(c.variant_id)
           q3 == String(d.variant_id)
           p4 == ByteVec(Bytes(c.parameters))
           q4 == ByteVec(Bytes(d.parameters))
           p5 == Strings(c.contracts)
           q5 == Strings(d.contracts)
           p6 == Strings(c.event_signatures)
           q6 == Strings(d.event_signatures)
           p7 == Option(c.chain, String)
           q7 == Option(d.chain, String)
<1>1. ASSUME NEW e \in {c, d}
      PROVE  /\ e.template_id \in Text /\ e.variant_id \in Text /\ e.parameters \in ByteField
             /\ e.contracts \in List(Text) /\ e.event_signatures \in List(Text) /\ e.chain \in Optional(Text)
             /\ Unsigned(e.template_version, 4) /\ e.parameters.form = "list"
  <2> HIDE DEF Text, List, Optional, ByteField
  <2> QED
    BY DEF TemplateSent, TemplateConfigs
<1>2. /\ Told(p1, q1) /\ (p1 = q1 => c.template_id = d.template_id)
      /\ Told(p3, q3) /\ (p3 = q3 => c.variant_id = d.variant_id)
  BY <1>1, CodeFacts
<1>3. Told(p2, q2) /\ (p2 = q2 => c.template_version = d.template_version)
  <2>1. Unsigned(c.template_version, 4) /\ Unsigned(d.template_version, 4)
    BY <1>1
  <2> QED
    BY <2>1, CodeFacts
<1>4. Told(p4, q4) /\ (p4 = q4 => c.parameters = d.parameters)
  <2>1. c.parameters \in ByteField /\ d.parameters \in ByteField /\ c.parameters.form = d.parameters.form
    BY <1>1
  <2> QED
    BY <2>1, CodeFacts
<1>5. /\ Told(p5, q5) /\ (p5 = q5 => c.contracts = d.contracts)
      /\ Told(p6, q6) /\ (p6 = q6 => c.event_signatures = d.event_signatures)
  BY <1>1, CodeFacts
<1>6. Told(p7, q7) /\ (p7 = q7 => c.chain = d.chain)
  BY <1>1, TextOption
<1>7. EncodeTemplate(c) = Row7(p1, p2, p3, p4, p5, p6, p7) /\ EncodeTemplate(d) = Row7(q1, q2, q3, q4, q5, q6, q7)
  BY DEF EncodeTemplate, Row7
<1> HIDE DEF p1, q1, p2, q2, p3, q3, p4, q4, p5, q5, p6, q6, p7, q7
<1>8. /\ Told(Row7(p1, p2, p3, p4, p5, p6, p7), Row7(q1, q2, q3, q4, q5, q6, q7))
      /\ Row7(p1, p2, p3, p4, p5, p6, p7) = Row7(q1, q2, q3, q4, q5, q6, q7)
           => p1 = q1 /\ p2 = q2 /\ p3 = q3 /\ p4 = q4 /\ p5 = q5 /\ p6 = q6 /\ p7 = q7
  BY <1>2, <1>3, <1>4, <1>5, <1>6, Told7
<1>9. c.template_id = d.template_id /\ c.template_version = d.template_version /\ c.variant_id = d.variant_id
      /\ c.parameters = d.parameters /\ c.contracts = d.contracts /\ c.event_signatures = d.event_signatures
      /\ c.chain = d.chain => c = d
  <2> HIDE DEF Text, List, Optional, ByteField
  <2> QED
    BY DEF TemplateSent, TemplateConfigs
<1> QED
  BY <1>2, <1>3, <1>4, <1>5, <1>6, <1>7, <1>8, <1>9

\* It may be left out.
LEMMA TemplateOption ==
  ASSUME NEW o \in Optional(TemplateConfigs), NEW r \in Optional(TemplateConfigs),
         o # None => TemplateSent(o[1]), r # None => TemplateSent(r[1])
  PROVE  Told(Option(o, EncodeTemplate), Option(r, EncodeTemplate)) /\
           (Option(o, EncodeTemplate) = Option(r, EncodeTemplate) => o = r)
<1>1. PICK w, v : w = EncodeTemplate(o[1]) /\ v = EncodeTemplate(r[1])
  OBVIOUS
<1>2. (o # None => o[1] \in TemplateConfigs /\ TemplateSent(o[1])) /\
        (r # None => r[1] \in TemplateConfigs /\ TemplateSent(r[1]))
  BY OptionalFacts
<1>3. (o # None => IsSeq(w)) /\ (r # None => IsSeq(v)) /\ (o = r => w = v)
  BY <1>1, <1>2, TemplateTells DEF Told
<1>4. o # None /\ r # None => Told(w, v) /\ (w = v => o[1] = r[1])
  BY <1>1, <1>2, TemplateTells
<1>5. Option(o, EncodeTemplate) = (IF o = None THEN U8(0) ELSE U8(1) \o w)
      /\ Option(r, EncodeTemplate) = (IF r = None THEN U8(0) ELSE U8(1) \o v)
  BY <1>1 DEF Option
<1>6. PICK a, b : a = (IF o = None THEN U8(0) ELSE U8(1) \o w) /\ b = (IF r = None THEN U8(0) ELSE U8(1) \o v)
  OBVIOUS
<1>7. Told(a, b) /\ (a = b => o = r)
  BY <1>3, <1>4, <1>6, OptionTold
<1> QED
  BY <1>5, <1>6, <1>7

\* The first grant as it is sent.
GrantSent(g) ==
  /\ g \in EncryptedKeyGrants /\ KeyGrantNumbers(g)
  /\ g.ephemeral_public_key.form = "list" /\ g.encrypted_key.form = "list"

\* It is told from any other.
LEMMA GrantTells ==
  ASSUME NEW g, NEW h, GrantSent(g), GrantSent(h)
  PROVE  Told(EncodeKeyGrant(g), EncodeKeyGrant(h)) /\ (EncodeKeyGrant(g) = EncodeKeyGrant(h) => g = h)
BY KeyGrantTells DEF GrantSent

\* It may be left out.
LEMMA GrantOption ==
  ASSUME NEW o \in Optional(EncryptedKeyGrants), NEW r \in Optional(EncryptedKeyGrants),
         o # None => GrantSent(o[1]), r # None => GrantSent(r[1])
  PROVE  Told(Option(o, EncodeKeyGrant), Option(r, EncodeKeyGrant)) /\
           (Option(o, EncodeKeyGrant) = Option(r, EncodeKeyGrant) => o = r)
<1>1. PICK w, v : w = EncodeKeyGrant(o[1]) /\ v = EncodeKeyGrant(r[1])
  OBVIOUS
<1>2. (o # None => o[1] \in EncryptedKeyGrants /\ GrantSent(o[1])) /\
        (r # None => r[1] \in EncryptedKeyGrants /\ GrantSent(r[1]))
  BY OptionalFacts
<1>3. (o # None => IsSeq(w)) /\ (r # None => IsSeq(v)) /\ (o = r => w = v)
  BY <1>1, <1>2, GrantTells DEF Told
<1>4. o # None /\ r # None => Told(w, v) /\ (w = v => o[1] = r[1])
  BY <1>1, <1>2, GrantTells
<1>5. Option(o, EncodeKeyGrant) = (IF o = None THEN U8(0) ELSE U8(1) \o w)
      /\ Option(r, EncodeKeyGrant) = (IF r = None THEN U8(0) ELSE U8(1) \o v)
  BY <1>1 DEF Option
<1>6. PICK a, b : a = (IF o = None THEN U8(0) ELSE U8(1) \o w) /\ b = (IF r = None THEN U8(0) ELSE U8(1) \o v)
  OBVIOUS
<1>7. Told(a, b) /\ (a = b => o = r)
  BY <1>3, <1>4, <1>6, OptionTold
<1> QED
  BY <1>5, <1>6, <1>7

\* The funding as it is sent.
FundingSent(n) == n \in Amounts /\ ~n.text /\ Unsigned(n.value, 16)

\* It is told from any other.
LEMMA FundingTells ==
  ASSUME NEW m, NEW n, FundingSent(m), FundingSent(n)
  PROVE  Told(U128(m.value), U128(n.value)) /\ (U128(m.value) = U128(n.value) => m = n)
<1>1. m.value = n.value => m = n
  BY DEF FundingSent, Amounts
<1> QED
  BY <1>1, CodeFacts DEF FundingSent

\* It may be left out.
LEMMA FundingOption ==
  ASSUME NEW o \in Optional(Amounts), NEW r \in Optional(Amounts),
         o # None => FundingSent(o[1]), r # None => FundingSent(r[1])
  PROVE  Told(Option(o, LAMBDA n : U128(n.value)), Option(r, LAMBDA n : U128(n.value))) /\
           (Option(o, LAMBDA n : U128(n.value)) = Option(r, LAMBDA n : U128(n.value)) => o = r)
<1>1. PICK w, v : w = U128(o[1].value) /\ v = U128(r[1].value)
  OBVIOUS
<1>2. (o # None => o[1] \in Amounts /\ FundingSent(o[1])) /\ (r # None => r[1] \in Amounts /\ FundingSent(r[1]))
  BY OptionalFacts
<1>3. (o # None => IsSeq(w)) /\ (r # None => IsSeq(v)) /\ (o = r => w = v)
  BY <1>1, <1>2, FundingTells DEF Told
<1>4. o # None /\ r # None => Told(w, v) /\ (w = v => o[1] = r[1])
  BY <1>1, <1>2, FundingTells
<1>5. Option(o, LAMBDA n : U128(n.value)) = (IF o = None THEN U8(0) ELSE U8(1) \o w)
      /\ Option(r, LAMBDA n : U128(n.value)) = (IF r = None THEN U8(0) ELSE U8(1) \o v)
  BY <1>1 DEF Option
<1>6. PICK a, b : a = (IF o = None THEN U8(0) ELSE U8(1) \o w) /\ b = (IF r = None THEN U8(0) ELSE U8(1) \o v)
  OBVIOUS
<1>7. Told(a, b) /\ (a = b => o = r)
  BY <1>3, <1>4, <1>6, OptionTold
<1> QED
  BY <1>5, <1>6, <1>7

\* A kind of trusted hardware.
LEMMA TeeTells ==
  ASSUME NEW v \in ToSet(TeeTypes), NEW w \in ToSet(TeeTypes)
  PROVE  Told(Variant(v, TeeTypes), Variant(w, TeeTypes)) /\ (Variant(v, TeeTypes) = Variant(w, TeeTypes) => v = w)
BY VariantTold DEF Variants

\* It may be left out.
LEMMA TeeOption ==
  ASSUME NEW o \in Optional(ToSet(TeeTypes)), NEW r \in Optional(ToSet(TeeTypes))
  PROVE  Told(Option(o, LAMBDA z : Variant(z, TeeTypes)), Option(r, LAMBDA z : Variant(z, TeeTypes))) /\
           (Option(o, LAMBDA z : Variant(z, TeeTypes)) = Option(r, LAMBDA z : Variant(z, TeeTypes)) => o = r)
<1>1. PICK w, v : w = Variant(o[1], TeeTypes) /\ v = Variant(r[1], TeeTypes)
  OBVIOUS
<1>2. (o # None => o[1] \in ToSet(TeeTypes)) /\ (r # None => r[1] \in ToSet(TeeTypes))
  BY OptionalFacts
<1>3. (o # None => IsSeq(w)) /\ (r # None => IsSeq(v)) /\ (o = r => w = v)
  BY <1>1, <1>2, TeeTells DEF Told
<1>4. o # None /\ r # None => Told(w, v) /\ (w = v => o[1] = r[1])
  BY <1>1, <1>2, TeeTells
<1>5. Option(o, LAMBDA z : Variant(z, TeeTypes)) = (IF o = None THEN U8(0) ELSE U8(1) \o w)
      /\ Option(r, LAMBDA z : Variant(z, TeeTypes)) = (IF r = None THEN U8(0) ELSE U8(1) \o v)
  BY <1>1 DEF Option
<1>6. PICK a, b : a = (IF o = None THEN U8(0) ELSE U8(1) \o w) /\ b = (IF r = None THEN U8(0) ELSE U8(1) \o v)
  OBVIOUS
<1>7. Told(a, b) /\ (a = b => o = r)
  BY <1>3, <1>4, <1>6, OptionTold
<1> QED
  BY <1>5, <1>6, <1>7

\* A registration as the node decodes it.
BodyTexts(b) ==
  /\ b.subgrove_id \in Text /\ b.owner_did \in Text /\ b.public_key_id \in Text /\ b.schema.text \in Text
  /\ b.name \in Optional(Text) /\ b.name # None
  /\ b.description \in Optional(Text) /\ b.description # None
  /\ b.admins \in Optional(List(Text)) /\ b.admins # None

\* The numbers of a body within their widths.
BodyNumbers(b) ==
  /\ b.confirmation_depth \in Optional(Int) /\ b.confirmation_depth # None /\ Unsigned(b.confirmation_depth[1], 4)
  /\ Unsigned(b.nonce, 8)
  /\ b.cryptographic_completeness \in Optional(BOOLEAN) /\ b.cryptographic_completeness # None

\* Its optional parts as they are sent.
BodyOptions(b) ==
  /\ b.initial_funding \in Optional(Amounts) /\ (b.initial_funding # None => FundingSent(b.initial_funding[1]))
  /\ b.required_tee \in Optional(ToSet(TeeTypes))
  /\ b.privacy \in Optional(PrivacyConfigs) /\ (b.privacy # None => PrivacySent(b.privacy[1]))
  /\ b.initial_owner_key_grant \in Optional(EncryptedKeyGrants)
  /\ b.initial_owner_key_grant # None => GrantSent(b.initial_owner_key_grant[1])
  /\ b.template_config \in Optional(TemplateConfigs) /\
       (b.template_config # None => TemplateSent(b.template_config[1]))

\* Its mode as it is sent.
BodyMode(b) == b.mode = Some(b.mode[1]) /\ ModeSent(b.mode[1])

\* A registration's body as it is sent.
BodySent(b) == BodyTexts(b) /\ BodyNumbers(b) /\ BodyOptions(b) /\ BodyMode(b)

\* What the bincode of two registrations tells apart.
SameFields(b, c) ==
  /\ b.subgrove_id = c.subgrove_id /\ b.name = c.name /\ b.description = c.description /\
       b.schema.text = c.schema.text
  /\ b.owner_did = c.owner_did /\ b.admins = c.admins /\ b.initial_funding = c.initial_funding
  /\ b.required_tee = c.required_tee /\ b.mode = c.mode /\ b.privacy = c.privacy
  /\ b.initial_owner_key_grant = c.initial_owner_key_grant /\ b.template_config = c.template_config
  /\ b.confirmation_depth = c.confirmation_depth /\ b.public_key_id = c.public_key_id /\ b.nonce = c.nonce
  /\ b.cryptographic_completeness = c.cryptographic_completeness

\* The bytes a registration is hashed over are the encoding of one body only.
LEMMA BincodeTells ==
  ASSUME NEW b, NEW c, BodySent(b), BodySent(c), UnsignedBincode(b) = UnsignedBincode(c)
  PROVE  SameFields(b, c)
<1> DEFINE p1 == String(b.subgrove_id)
           q1 == String(c.subgrove_id)
           p2 == String(b.name[1])
           q2 == String(c.name[1])
           p3 == String(b.description[1])
           q3 == String(c.description[1])
           p4 == String(b.schema.text)
           q4 == String(c.schema.text)
           p5 == String(b.owner_did)
           q5 == String(c.owner_did)
           p6 == Strings(b.admins[1])
           q6 == Strings(c.admins[1])
           p7 == Option(b.initial_funding, LAMBDA n : U128(n.value))
           q7 == Option(c.initial_funding, LAMBDA n : U128(n.value))
           p8 == Option(b.required_tee, LAMBDA z : Variant(z, TeeTypes))
           q8 == Option(c.required_tee, LAMBDA z : Variant(z, TeeTypes))
           p9 == EncodeMode(b.mode[1])
           q9 == EncodeMode(c.mode[1])
           p10 == Option(b.privacy, EncodePrivacy)
           q10 == Option(c.privacy, EncodePrivacy)
           p11 == Option(b.initial_owner_key_grant, EncodeKeyGrant)
           q11 == Option(c.initial_owner_key_grant, EncodeKeyGrant)
           p12 == Option(b.template_config, EncodeTemplate)
           q12 == Option(c.template_config, EncodeTemplate)
           p13 == U32(b.confirmation_depth[1])
           q13 == U32(c.confirmation_depth[1])
           p14 == ByteVec(<< >>)
           p15 == String(b.public_key_id)
           q15 == String(c.public_key_id)
           p16 == U64(b.nonce)
           q16 == U64(c.nonce)
           p17 == Bool(b.cryptographic_completeness[1])
           q17 == Bool(c.cryptographic_completeness[1])
<1>0. /\ BodyTexts(b) /\ BodyNumbers(b) /\ BodyOptions(b) /\ BodyMode(b)
      /\ BodyTexts(c) /\ BodyNumbers(c) /\ BodyOptions(c) /\ BodyMode(c)
  BY DEF BodySent
<1>1. ASSUME NEW d \in {b, c}
      PROVE  /\ d.subgrove_id \in Text /\ d.owner_did \in Text /\ d.public_key_id \in Text /\ d.schema.text \in Text
             /\ d.name[1] \in Text /\ d.name = Some(d.name[1])
             /\ d.description[1] \in Text /\ d.description = Some(d.description[1])
             /\ d.admins[1] \in List(Text) /\ d.admins = Some(d.admins[1])
  <2>1. BodyTexts(d)
    BY <1>0
  <2> QED
    BY <2>1, OptionalFacts DEF BodyTexts
<1>2. ASSUME NEW d \in {b, c}
      PROVE  /\ Unsigned(d.confirmation_depth[1], 4) /\ d.confirmation_depth = Some(d.confirmation_depth[1])
             /\ Unsigned(d.nonce, 8)
             /\ d.cryptographic_completeness[1] \in BOOLEAN
             /\ d.cryptographic_completeness = Some(d.cryptographic_completeness[1])
  <2>1. BodyNumbers(d)
    BY <1>0
  <2> QED
    BY <2>1, OptionalFacts DEF BodyNumbers
<1>3. /\ Told(p1, q1) /\ (p1 = q1 => b.subgrove_id = c.subgrove_id)
      /\ Told(p2, q2) /\ (p2 = q2 => b.name = c.name)
      /\ Told(p3, q3) /\ (p3 = q3 => b.description = c.description)
  BY <1>1, CodeFacts
<1>4. /\ Told(p4, q4) /\ (p4 = q4 => b.schema.text = c.schema.text)
      /\ Told(p5, q5) /\ (p5 = q5 => b.owner_did = c.owner_did)
      /\ Told(p6, q6) /\ (p6 = q6 => b.admins = c.admins)
      /\ Told(p15, q15) /\ (p15 = q15 => b.public_key_id = c.public_key_id)
  BY <1>1, CodeFacts
<1>5. Told(p7, q7) /\ (p7 = q7 => b.initial_funding = c.initial_funding)
  BY <1>0, FundingOption DEF BodyOptions
<1>6. Told(p8, q8) /\ (p8 = q8 => b.required_tee = c.required_tee)
  BY <1>0, TeeOption DEF BodyOptions
<1>7. Told(p9, q9) /\ (p9 = q9 => b.mode = c.mode)
  <2>1. ModeSent(b.mode[1]) /\ ModeSent(c.mode[1]) /\ b.mode = Some(b.mode[1]) /\ c.mode = Some(c.mode[1])
    BY <1>0 DEF BodyMode
  <2>2. Told(p9, q9) /\ (p9 = q9 => b.mode[1] = c.mode[1])
    BY <2>1, ModeTells
  <2> HIDE DEF p9, q9
  <2>3. b.mode[1] = c.mode[1] => b.mode = c.mode
    BY <2>1
  <2> QED
    BY <2>2, <2>3
<1>8. Told(p10, q10) /\ (p10 = q10 => b.privacy = c.privacy)
  BY <1>0, PrivacyOption DEF BodyOptions
<1>9. Told(p11, q11) /\ (p11 = q11 => b.initial_owner_key_grant = c.initial_owner_key_grant)
  BY <1>0, GrantOption DEF BodyOptions
<1>10. Told(p12, q12) /\ (p12 = q12 => b.template_config = c.template_config)
  BY <1>0, TemplateOption DEF BodyOptions
<1>11. Told(p13, q13) /\ (p13 = q13 => b.confirmation_depth = c.confirmation_depth)
  <2>1. /\ Unsigned(b.confirmation_depth[1], 4) /\ Unsigned(c.confirmation_depth[1], 4)
        /\ b.confirmation_depth = Some(b.confirmation_depth[1]) /\
             c.confirmation_depth = Some(c.confirmation_depth[1])
    BY <1>2
  <2>2. Told(p13, q13) /\ (p13 = q13 => b.confirmation_depth[1] = c.confirmation_depth[1])
    BY <2>1, CodeFacts
  <2> HIDE DEF p13, q13
  <2> QED
    BY <2>1, <2>2
<1>12. Told(p14, p14)
  <2>1. IsSeq(<< >>) /\ Len(<< >>) = 0 /\ 0 \in 0..(Power[8] - 1)
    BY NoTokens, PowerFacts
  <2> QED
    BY <2>1, ByteVecTells DEF Told
<1>13. Told(p16, q16) /\ (p16 = q16 => b.nonce = c.nonce)
  <2>1. Unsigned(b.nonce, 8) /\ Unsigned(c.nonce, 8)
    BY <1>2
  <2> QED
    BY <2>1, CodeFacts
<1>14. Told(p17, q17) /\ (p17 = q17 => b.cryptographic_completeness = c.cryptographic_completeness)
  BY <1>2, CodeFacts
<1>15. /\ UnsignedBincode(b) = Row4(Row7(Row7(p1, p2, p3, p4, p5, p6, p7), p8, p9, p10, p11, p12, p13), p14, p15,
            p16) \o p17
       /\ UnsignedBincode(c) = Row4(Row7(Row7(q1, q2, q3, q4, q5, q6, q7), q8, q9, q10, q11, q12, q13), p14, q15,
            q16) \o q17
  BY DEF UnsignedBincode, Row7, Row4
<1> HIDE DEF p1, q1, p2, q2, p3, q3, p4, q4, p5, q5, p6, q6, p7, q7, p8, q8, p9, q9, p10, q10, p11, q11, p12, q12,
             p13, q13, p14, p15, q15, p16, q16, p17, q17
<1>16. PICK x, y : x = Row7(p1, p2, p3, p4, p5, p6, p7) /\ y = Row7(q1, q2, q3, q4, q5, q6, q7)
  OBVIOUS
<1>17. Told(x, y) /\ (x = y => p1 = q1 /\ p2 = q2 /\ p3 = q3 /\ p4 = q4 /\ p5 = q5 /\ p6 = q6 /\ p7 = q7)
  BY <1>3, <1>4, <1>5, <1>16, Told7
<1>18. PICK z, t : z = Row7(x, p8, p9, p10, p11, p12, p13) /\ t = Row7(y, q8, q9, q10, q11, q12, q13)
  OBVIOUS
<1>19. Told(z, t) /\ (z = t => x = y /\ p8 = q8 /\ p9 = q9 /\ p10 = q10 /\ p11 = q11 /\ p12 = q12 /\ p13 = q13)
  BY <1>6, <1>7, <1>8, <1>9, <1>10, <1>11, <1>17, <1>18, Told7
<1>20. PICK u, v : u = Row4(z, p14, p15, p16) /\ v = Row4(t, p14, q15, q16)
  OBVIOUS
<1>21. Told(u, v) /\ (u = v => z = t /\ p15 = q15 /\ p16 = q16)
  BY <1>4, <1>12, <1>13, <1>19, <1>20, Told4
<1>22. UnsignedBincode(b) = u \o p17 /\ UnsignedBincode(c) = v \o q17
  BY <1>15, <1>16, <1>18, <1>20
<1>23. u = v /\ p17 = q17
  <2>1. PICK w : w = u \o p17 /\ w = v \o q17
    BY <1>22
  <2>2. IsSeq(p17) /\ IsSeq(q17)
    BY <1>14 DEF Told
  <2>3. u \o p17 = v \o q17 => u = v /\ p17 = q17
    BY <1>14, <1>21, <2>2, Told2
  <2> QED
    BY <2>1, <2>3
<1>24. z = t /\ p15 = q15 /\ p16 = q16 /\ x = y
  BY <1>19, <1>21, <1>23
<1>25. /\ p1 = q1 /\ p2 = q2 /\ p3 = q3 /\ p4 = q4 /\ p5 = q5 /\ p6 = q6 /\ p7 = q7
       /\ p8 = q8 /\ p9 = q9 /\ p10 = q10 /\ p11 = q11 /\ p12 = q12 /\ p13 = q13
  BY <1>17, <1>19, <1>24
<1> QED
  BY <1>3, <1>4, <1>5, <1>6, <1>7, <1>8, <1>9, <1>10, <1>11, <1>13, <1>14, <1>23, <1>24, <1>25 DEF SameFields

-----------------------------------------------------------------------------
(* What the rules make sure of in the body sent.                           *)

\* A value that is given.
LEMMA SomeFacts ==
  ASSUME NEW S, NEW v \in S
  PROVE  Some(v) \in Optional(S) /\ Some(v) # None /\ Some(v)[1] = v
<1>1. <<v>> \in Seq(S) /\ Len(<<v>>) = 1
  OBVIOUS
<1> QED
  BY <1>1, OptionFacts DEF Some, Optional

\* A value, or its default.
LEMMA WrittenFacts ==
  ASSUME NEW S, NEW o \in Optional(S), NEW d \in S
  PROVE  /\ Default(o, d) \in S
         /\ Written(o, d) \in Optional(S) /\ Written(o, d) # None /\ Written(o, d)[1] = Default(o, d)
         /\ Written(o, d) = Some(Default(o, d))
<1>1. Default(o, d) \in S
  BY OptionalFacts DEF Default
<1> QED
  BY <1>1, SomeFacts DEF Written

\* What a rule says of a value that may be left out.
LEMMA HeldFacts ==
  ASSUME NEW S, NEW o \in Optional(S), o # None
  PROVE  o[1] \in ToSet(o) /\ o[1] \in S
<1>1. o[1] \in S /\ o = Some(o[1])
  BY OptionalFacts
<1>2. PICK v : v = o[1]
  OBVIOUS
<1>3. o = Some(v)
  BY <1>1, <1>2
<1>4. 1 \in DOMAIN o
  BY <1>3, OptionFacts
<1> QED
  BY <1>1, <1>4 DEF ToSet

\* The parts of a mode, once normalised, are what the rules make them.
LEMMA WasmIsSent ==
  ASSUME NEW ms \in List(WasmSources), WasmRule(ms)
  PROVE  WasmModules(ms) \in List(WasmSources) /\ \A i \in DOMAIN WasmModules(ms) : WasmSent(WasmModules(ms)[i])
<1>1. ms \in Seq(WasmSources) /\ Len(ms) < Power[8] /\ DOMAIN ms = 1..Len(ms) /\ Len(ms) \in Nat
  BY DEF List
<1>2. PICK ns : ns = WasmModules(ms)
  OBVIOUS
<1>3. ASSUME NEW i \in DOMAIN ms PROVE WasmSent(ns[i])
  <2> DEFINE m == ms[i]
             h == ByteValues(m.hash)
             c == ByteValues(m.content)
  <2>1. m \in WasmSources
    BY <1>1, <1>3
  <2>2. m.hash \in ByteField /\ m.content \in ByteField
    <3> HIDE DEF ByteField, Text, m
    <3> QED
      BY <2>1 DEF WasmSources
  <2>3. h \in ByteField /\ h.form = "list" /\ h.bytes = m.hash.bytes /\ c \in ByteField /\ c.form = "list"
    BY <2>2, ByteValuesFacts
  <2>4. ns[i] = [m EXCEPT !.hash = h, !.content = c]
    BY <1>2, <1>3 DEF WasmModules
  <2>5. Len(m.hash.bytes) = HashLen
    BY <1>3 DEF WasmRule, HexRule
  <2> HIDE DEF m, h, c, ByteField, Text
  <2>6. ns[i] \in WasmSources /\ ns[i].hash = h /\ ns[i].content = c
    BY <2>1, <2>3, <2>4 DEF WasmSources
  <2> QED
    BY <2>3, <2>5, <2>6 DEF WasmSent
<1>4. ns = [i \in 1..Len(ms) |-> ns[i]] /\ DOMAIN ns = DOMAIN ms
  BY <1>1, <1>2 DEF WasmModules
<1>5. \A i \in 1..Len(ms) : ns[i] \in WasmSources
  BY <1>1, <1>3 DEF WasmSent
<1>6. ns \in Seq(WasmSources) /\ Len(ns) = Len(ms)
  <2>1. ns \in [1..Len(ms) -> WasmSources]
    BY <1>4, <1>5
  <2> HIDE DEF WasmSources
  <2> QED
    BY <1>1, <2>1
<1> QED
  BY <1>1, <1>2, <1>3, <1>4, <1>6 DEF List

\* The indexer configuration.
LEMMA ConfigIsSent ==
  ASSUME NEW c \in IndexerConfigs, IndexerConfigRule(c)
  PROVE  ConfigSent(IndexerConfig(c))
<1> DEFINE r == AsNumber(c.reward_per_epoch)
           s == AsNumber(c.min_indexer_stake)
           e == Written(c.epoch_length, DefaultEpochLength)
           n == IndexerConfig(c)
<1>1. c.reward_per_epoch \in Amounts /\ c.min_indexer_stake \in Amounts /\ c.epoch_length \in Optional(Int)
      /\ c.min_indexers \in Int /\ c.max_indexers \in Int
  <2> HIDE DEF Optional, Amounts
  <2> QED
    BY DEF IndexerConfigs
<1>2. /\ r \in Amounts /\ ~r.text /\ r.value = c.reward_per_epoch.value
      /\ s \in Amounts /\ ~s.text /\ s.value = c.min_indexer_stake.value
  BY <1>1, AmountAgain DEF AsNumber, Amounts
<1>3. e \in Optional(Int) /\ e # None /\ e[1] = Default(c.epoch_length, DefaultEpochLength)
  BY <1>1, WrittenFacts DEF DefaultEpochLength
<1>4. n = [c EXCEPT !.reward_per_epoch = r, !.min_indexer_stake = s, !.epoch_length = e]
  BY DEF IndexerConfig
<1> HIDE DEF r, s, e, n, Optional, Amounts
<1>5. n \in IndexerConfigs /\ n.reward_per_epoch = r /\ n.min_indexer_stake = s /\ n.epoch_length = e
      /\ n.min_indexers = c.min_indexers /\ n.max_indexers = c.max_indexers
  BY <1>2, <1>3, <1>4 DEF IndexerConfigs
<1>6. ConfigSent(n)
  BY <1>2, <1>3, <1>5 DEF ConfigSent, IndexerConfigRule
<1> QED
  BY <1>6 DEF n

\* The completeness rule.
LEMMA CompletenessIsSent ==
  ASSUME NEW c \in Completenesses, CompletenessRule(c)
  PROVE  CompleteSent(Completeness(c))
<1> DEFINE d == Written(c.deferred, FALSE)
           b == Written(c.bond_amount, 0)
           n == Completeness(c)
<1>1. c.deferred \in Optional(BOOLEAN) /\ c.bond_amount \in Optional(Int)
  <2> HIDE DEF Optional
  <2> QED
    BY DEF Completenesses
<1>2. d \in Optional(BOOLEAN) /\ d # None /\ b \in Optional(Int) /\ b # None /\ b[1] = Default(c.bond_amount, 0)
  <2>1. d \in Optional(BOOLEAN) /\ d # None
    <3>1. Default(c.deferred, FALSE) \in BOOLEAN
      BY <1>1, OptionalFacts DEF Default
    <3>2. PICK v \in BOOLEAN : v = Default(c.deferred, FALSE)
      BY <3>1
    <3>3. d = Some(v)
      BY <3>2 DEF Written
    <3> QED
      BY <3>3, SomeFacts
  <2>2. b \in Optional(Int) /\ b # None /\ b[1] = Default(c.bond_amount, 0)
    BY <1>1, WrittenFacts
  <2> QED
    BY <2>1, <2>2
<1>3. n = [c EXCEPT !.deferred = d, !.bond_amount = b]
  BY DEF Completeness
<1> HIDE DEF d, b, n, Optional
<1>4. n \in Completenesses /\ n.deferred = d /\ n.bond_amount = b
      /\ n.log_config_hash = c.log_config_hash /\ n.tx_config_hash = c.tx_config_hash
  BY <1>2, <1>3 DEF Completenesses
<1>5. CompleteSent(n)
  BY <1>2, <1>4 DEF CompleteSent, CompletenessRule
<1> QED
  BY <1>5 DEF n

\* The mode, of each kind.
LEMMA ModeIsSent ==
  ASSUME NEW mode \in Modes, SubgroveModeRule(mode)
  PROVE  ModeSent(SubgroveMode(mode))
<1> HIDE DEF Text, ByteField, Optional, List, Written, Mapped
<1>1. CASE mode \in DataStorages
  <2> DEFINE m == AsFreeReaders(mode)
  <2>1. mode.type = "DataStorage"
    BY <1>1 DEF DataStorages
  <2>2. FreeReadersRule(mode) /\ Holds(mode.read_pricing, PricingRule)
    BY <2>1 DEF SubgroveModeRule
  <2>3. m \in DataStorages /\ m.readers.key = "free_readers" /\ m.read_pricing = mode.read_pricing
    BY <1>1 DEF AsFreeReaders, DataStorages, ReaderLists
  <2>4. mode.read_pricing # None => PricingRule(mode.read_pricing[1])
    <3>1. mode.read_pricing \in Optional(ReadPricings)
      <4> HIDE DEF ReadPricings, ReaderLists
      <4> QED
        BY <1>1 DEF DataStorages
    <3> QED
      BY <2>2, <3>1, HeldFacts DEF Holds
  <2>5. SubgroveMode(mode) = m
    BY <2>1 DEF SubgroveMode
  <2> HIDE DEF m
  <2> QED
    BY <2>3, <2>4, <2>5 DEF ModeSent, DataSent
<1>2. CASE mode \in FileStorages
  <2> DEFINE p == Written(mode.retention_period, 0)
             m == [mode EXCEPT !.retention_period = p]
  <2> HIDE DEF ReadPricings, ReaderLists
  <2>1. mode.type = "FileStorage" /\ mode.read_pricing \in Optional(ReadPricings) /\
          mode.retention_period \in Optional(Int)
    BY <1>2 DEF FileStorages
  <2>2. /\ FreeReadersRule(mode) /\ Holds(mode.read_pricing, PricingRule)
        /\ Unsigned(mode.max_file_size, 8) /\ Unsigned(mode.replication_factor, 1)
        /\ Unsigned(Default(mode.retention_period, 0), 8)
    BY <2>1 DEF SubgroveModeRule
  <2>3. p \in Optional(Int) /\ p # None /\ p[1] = Default(mode.retention_period, 0)
    BY <2>1, WrittenFacts
  <2>4. mode.readers.key = "free_readers"
    BY <2>1, <2>2 DEF FreeReadersRule
  <2>5. mode.read_pricing # None => PricingRule(mode.read_pricing[1])
    BY <2>1, <2>2, HeldFacts DEF Holds
  <2>6. SubgroveMode(mode) = m
    BY <2>1 DEF SubgroveMode
  <2> HIDE DEF p
  <2>7. m \in FileStorages /\ m.readers = mode.readers /\ m.read_pricing = mode.read_pricing
        /\ m.max_file_size = mode.max_file_size /\ m.replication_factor = mode.replication_factor /\
             m.retention_period = p
    BY <1>2, <2>3 DEF FileStorages
  <2> HIDE DEF m
  <2>8. FileSent(m)
    BY <2>2, <2>3, <2>4, <2>5, <2>7 DEF FileSent
  <2> QED
    BY <2>6, <2>8 DEF ModeSent
<1>3. CASE mode \in BlockchainIndexings
  <2> DEFINE manifest == ByteValues(mode.manifest_content)
             wasm == Mapped(Written(mode.wasm_modules, << >>), WasmModules)
             indexers == IndexerConfig(mode.indexer_config)
             forever == [type |-> "Indefinite", value |-> None]
             window == Written(mode.retention_window, forever)
             complete == Mapped(mode.completeness, Completeness)
             auth == Written(mode.historical_auth_mode, "BftEquivalent")
             m == [mode EXCEPT !.manifest_content = manifest, !.wasm_modules = wasm, !.indexer_config = indexers,
                               !.retention_window = window, !.completeness = complete, !.historical_auth_mode = auth]
  <2> HIDE DEF WasmSources, Executions, IndexerConfigs, Counted, Completenesses
  <2>1. /\ mode.type = "BlockchainIndexing" /\ mode.manifest_content \in ByteField
        /\ mode.wasm_modules \in Optional(List(WasmSources)) /\ mode.indexer_config \in IndexerConfigs
        /\ mode.retention_window \in Optional(Counted(ToSet(RetentionWindows)))
        /\ mode.completeness \in Optional(Completenesses)
        /\ mode.historical_auth_mode \in Optional(ToSet(HistoricalAuthModes))
    BY <1>3 DEF BlockchainIndexings
  <2>2. /\ Holds(mode.wasm_modules, WasmRule) /\ ExecutionRule(mode.execution_mode) /\
             IndexerConfigRule(mode.indexer_config)
        /\ Holds(mode.retention_window, LAMBDA w : CountedRule(w, {"Blocks", "Seconds"}))
        /\ Holds(mode.completeness, CompletenessRule)
    BY <2>1 DEF SubgroveModeRule
  <2>3. manifest \in ByteField /\ manifest.form = "list"
    BY <2>1, ByteValuesFacts
  <2>4. /\ wasm \in Optional(List(WasmSources)) /\ wasm # None
        /\ \A i \in DOMAIN wasm[1] : WasmSent(wasm[1][i])
    <3> DEFINE modules == Default(mode.wasm_modules, << >>)
    <3>1. modules \in List(WasmSources) /\ WasmRule(modules)
      <4>1. CASE mode.wasm_modules = None
        <5>1. << >> \in List(WasmSources) /\ WasmRule(<< >>)
          BY EmptyFacts DEF WasmRule
        <5> QED
          BY <4>1, <5>1 DEF Default
      <4>2. CASE mode.wasm_modules # None
        BY <2>1, <2>2, <4>2, HeldFacts DEF Holds, Default
      <4> QED
        BY <4>1, <4>2
    <3>2. WasmModules(modules) \in List(WasmSources)
          /\ \A i \in DOMAIN WasmModules(modules) : WasmSent(WasmModules(modules)[i])
      BY <3>1, WasmIsSent
    <3> HIDE DEF modules
    <3>3. wasm = Some(WasmModules(modules))
      BY OptionFacts DEF Mapped, Written, modules
    <3> HIDE DEF wasm
    <3>4. wasm \in Optional(List(WasmSources)) /\ wasm # None /\ wasm[1] = WasmModules(modules)
      BY <3>2, <3>3, SomeFacts
    <3> QED
      BY <3>2, <3>4
  <2>5. ConfigSent(indexers)
    BY <2>1, <2>2, ConfigIsSent
  <2>6. /\ window \in Optional(Counted(ToSet(RetentionWindows))) /\ window # None
        /\ CountedRule(window[1], {"Blocks", "Seconds"})
    <3>1. forever \in Counted(ToSet(RetentionWindows)) /\ CountedRule(forever, {"Blocks", "Seconds"})
      <4>1. DOMAIN RetentionWindows = 1..4 /\ RetentionWindows[3] = "Indefinite" /\ 3 \in 1..4
        BY DEF RetentionWindows
      <4>2. "Indefinite" \in ToSet(RetentionWindows)
        BY <4>1 DEF ToSet
      <4>3. None \in Optional(Int)
        BY EmptyFacts DEF None
      <4> QED
        BY <4>2, <4>3 DEF Counted, CountedRule
    <3> HIDE DEF forever
    <3>2. window \in Optional(Counted(ToSet(RetentionWindows))) /\ window # None /\
            window[1] = Default(mode.retention_window, forever)
      BY <2>1, <3>1, WrittenFacts
    <3>3. CountedRule(Default(mode.retention_window, forever), {"Blocks", "Seconds"})
      <4>1. CASE mode.retention_window = None
        BY <3>1, <4>1 DEF Default
      <4>2. CASE mode.retention_window # None
        BY <2>1, <2>2, <4>2, HeldFacts DEF Holds, Default
      <4> QED
        BY <4>1, <4>2
    <3> HIDE DEF window
    <3> QED
      BY <3>2, <3>3
  <2>7. complete \in Optional(Completenesses) /\ (complete # None => CompleteSent(complete[1]))
    <3>1. CASE mode.completeness = None
      BY <2>1, <3>1 DEF Mapped
    <3>2. CASE mode.completeness # None
      <4>1. mode.completeness[1] \in Completenesses /\ CompletenessRule(mode.completeness[1])
        BY <2>1, <2>2, <3>2, HeldFacts DEF Holds
      <4>2. CompleteSent(Completeness(mode.completeness[1]))
        BY <4>1, CompletenessIsSent
      <4>3. complete = Some(Completeness(mode.completeness[1]))
        BY <3>2 DEF Mapped
      <4> HIDE DEF complete
      <4> QED
        BY <4>2, <4>3, SomeFacts DEF CompleteSent
    <3> QED
      BY <3>1, <3>2
  <2>8. auth \in Optional(ToSet(HistoricalAuthModes)) /\ auth # None
    <3>1. DOMAIN HistoricalAuthModes = 1..2 /\ HistoricalAuthModes[1] = "BftEquivalent" /\ 1 \in 1..2
      BY DEF HistoricalAuthModes
    <3>2. "BftEquivalent" \in ToSet(HistoricalAuthModes)
      BY <3>1 DEF ToSet
    <3> QED
      BY <2>1, <3>2, WrittenFacts
  <2>9. SubgroveMode(mode) = m
    BY <2>1 DEF SubgroveMode
  <2>10. indexers \in IndexerConfigs
    BY <2>5 DEF ConfigSent
  <2> HIDE DEF manifest, wasm, indexers, window, complete, auth, forever
  <2>11. /\ m \in BlockchainIndexings /\ m.execution_mode = mode.execution_mode
         /\ m.manifest_content = manifest /\ m.wasm_modules = wasm /\ m.indexer_config = indexers
         /\ m.retention_window = window /\ m.completeness = complete /\ m.historical_auth_mode = auth
    BY <1>3, <2>3, <2>4, <2>6, <2>7, <2>8, <2>10 DEF BlockchainIndexings
  <2> HIDE DEF m
  <2>12. IndexingSent(m)
    BY <2>2, <2>3, <2>4, <2>5, <2>6, <2>7, <2>8, <2>11 DEF IndexingSent
  <2> QED
    BY <2>9, <2>12 DEF ModeSent
<1> QED
  BY <1>1, <1>2, <1>3 DEF Modes

\* The mode of a registration that names none.
LEMMA NoModeIsSent == SubgroveModeRule(NoMode) /\ NoMode \in Modes
<1>1. << >> \in Text /\ << >> \in List(Text) /\ None \in Optional(ReadPricings)
  BY EmptyFacts DEF Text, None
<1>2. NoMode \in DataStorages
  BY <1>1 DEF NoMode, DataStorages, ReaderLists
<1>3. ToSet(None) = {}
  BY DEF ToSet, None
<1>4. SubgroveModeRule(NoMode)
  <2>1. FreeReadersRule(NoMode)
    BY DEF FreeReadersRule, NoMode
  <2>2. Holds(None, PricingRule)
    BY <1>3 DEF Holds
  <2>3. NoMode.type = "DataStorage" /\ NoMode.read_pricing = None
    BY DEF NoMode
  <2>4. Holds(NoMode.read_pricing, PricingRule)
    BY <2>2, <2>3
  <2> QED
    BY <2>1, <2>3, <2>4 DEF SubgroveModeRule
<1> QED
  BY <1>2, <1>4 DEF Modes

\* The first grant.
LEMMA GrantIsSent ==
  ASSUME NEW g \in EncryptedKeyGrants, KeyGrantNumbers(g)
  PROVE  GrantSent(KeyGrant(g))
<1> DEFINE e == ByteValues(g.ephemeral_public_key)
           k == ByteValues(g.encrypted_key)
           s == KeyGrant(g)
<1>1. g.ephemeral_public_key \in ByteField /\ g.encrypted_key \in ByteField
  <2> HIDE DEF ByteField, Text
  <2> QED
    BY DEF EncryptedKeyGrants
<1>2. e \in ByteField /\ e.form = "list" /\ k \in ByteField /\ k.form = "list"
  BY <1>1, ByteValuesFacts
<1>3. s = [g EXCEPT !.ephemeral_public_key = e, !.encrypted_key = k]
  BY DEF KeyGrant
<1> HIDE DEF e, k, s, ByteField, Text
<1>4. s \in EncryptedKeyGrants /\ s.ephemeral_public_key = e /\ s.encrypted_key = k
      /\ s.key_epoch = g.key_epoch /\ s.granted_at = g.granted_at
  BY <1>2, <1>3 DEF EncryptedKeyGrants
<1>5. GrantSent(s)
  BY <1>2, <1>4 DEF GrantSent, KeyGrantNumbers
<1> QED
  BY <1>5 DEF s

\* The fields of the body of a registration.
LEMMA BodyFields ==
  ASSUME NEW tx \in RegisterSubgroveTxs
  PROVE  LET d == ToDict(tx)
             b == Normalize(d)
         IN /\ b = [z \in DOMAIN tx |-> b[z]]
            /\ b.kind = "RegisterSubgrove" /\ b.subgrove_id = tx.subgrove_id /\ b.owner_did = tx.owner_did
            /\ b.public_key_id = tx.public_key_id /\ b.schema = tx.schema /\ b.nonce = tx.nonce
            /\ b.required_tee = tx.required_tee /\ b.privacy = tx.privacy
            /\ b.name = Some(NameOf(tx)) /\ b.retention_window = None
            /\ b.description = Written(tx.description, << >>)
            /\ b.admins = Written(tx.admins, << >>)
            /\ b.initial_funding = Mapped(tx.initial_funding, AsNumber)
            /\ b.mode = Some(SubgroveMode(Default(MergedMode(tx), NoMode)))
            /\ b.initial_owner_key_grant = Mapped(tx.initial_owner_key_grant, KeyGrant)
            /\ b.template_config = Mapped(tx.template_config, TemplateConfig)
            /\ b.confirmation_depth = Written(tx.confirmation_depth, 0)
            /\ b.cryptographic_completeness = Written(tx.cryptographic_completeness, FALSE)
            /\ d.mode = MergedMode(tx) /\ d.privacy = tx.privacy /\ d.initial_funding = tx.initial_funding
            /\ d.initial_owner_key_grant = tx.initial_owner_key_grant /\ d.template_config = tx.template_config
            /\ d.confirmation_depth = tx.confirmation_depth /\ d.nonce = tx.nonce
            /\ d.subgrove_id = tx.subgrove_id /\ d.owner_did = tx.owner_did
<1> DEFINE d == ToDict(tx)
           b == Normalize(d)
           description == Written(tx.description, << >>)
           admins == Written(tx.admins, << >>)
           funding == Mapped(tx.initial_funding, AsNumber)
           merged == MergedMode(tx)
           mode == Some(SubgroveMode(Default(merged, NoMode)))
           grant == Mapped(tx.initial_owner_key_grant, KeyGrant)
           template == Mapped(tx.template_config, TemplateConfig)
           depth == Written(tx.confirmation_depth, 0)
           complete == Written(tx.cryptographic_completeness, FALSE)
           name == Some(NameOf(tx))
<1> USE DEF RegisterSubgroveTxs
<1> HIDE DEF Text, Optional, List, Schemas, Amounts, Modes, Counted, PrivacyConfigs, EncryptedKeyGrants,
      TemplateConfigs
<1>1. d = [tx EXCEPT !.mode = merged, !.name = name, !.retention_window = None]
  BY DEF ToDict
<1> HIDE DEF name, d, b
<1>2. /\ DOMAIN d = DOMAIN tx /\ d.mode = merged /\ d.name = name /\ d.retention_window = None
      /\ d.kind = "RegisterSubgrove" /\ d.subgrove_id = tx.subgrove_id /\ d.owner_did = tx.owner_did /\
           d.nonce = tx.nonce
      /\ d.privacy = tx.privacy /\ d.schema = tx.schema /\ d.required_tee = tx.required_tee /\
           d.public_key_id = tx.public_key_id
      /\ d.description = tx.description /\ d.admins = tx.admins /\ d.initial_funding = tx.initial_funding
      /\ d.initial_owner_key_grant = tx.initial_owner_key_grant /\ d.template_config = tx.template_config
      /\ d.confirmation_depth = tx.confirmation_depth
      /\ d.cryptographic_completeness = tx.cryptographic_completeness
  <2> HIDE DEF merged
  <2> QED
    BY <1>1
<1>3. b = [d EXCEPT !.description = description, !.admins = admins, !.initial_funding = funding, !.mode = mode,
                    !.initial_owner_key_grant = grant, !.template_config = template, !.confirmation_depth = depth,
                    !.cryptographic_completeness = complete]
  BY <1>2 DEF Normalize, b
<1> HIDE DEF description, admins, funding, mode, grant, template, depth, complete, merged
<1>4. DOMAIN d = {"kind", "subgrove_id", "name", "description", "schema", "owner_did", "admins", "initial_funding",
                  "required_tee", "mode", "retention_window", "privacy", "initial_owner_key_grant", "template_config",
                  "confirmation_depth", "public_key_id", "nonce", "cryptographic_completeness"}
  BY <1>2
<1>5. /\ DOMAIN b = DOMAIN d /\ b = [z \in DOMAIN b |-> b[z]]
      /\ b.description = description /\ b.admins = admins /\ b.initial_funding = funding /\ b.mode = mode
      /\ b.initial_owner_key_grant = grant /\ b.template_config = template /\ b.confirmation_depth = depth
      /\ b.cryptographic_completeness = complete
      /\ b.kind = d.kind /\ b.subgrove_id = d.subgrove_id /\ b.owner_did = d.owner_did /\ b.nonce = d.nonce
      /\ b.privacy = d.privacy /\ b.schema = d.schema /\ b.name = d.name /\ b.retention_window = d.retention_window
      /\ b.required_tee = d.required_tee /\ b.public_key_id = d.public_key_id
  BY <1>3, <1>4
<1> QED
  BY <1>2, <1>5 DEF d, b, description, admins, funding, mode, grant, template, depth, complete, merged, name

\* The texts a registration names things by.
LEMMA NameFacts ==
  ASSUME NEW tx \in RegisterSubgroveTxs
  PROVE  NameOf(tx) \in Text
<1>1. tx.name \in Optional(Text) /\ tx.mode \in Optional(Modes)
  <2> HIDE DEF Text, Optional, List, Schemas, Amounts, Modes, Counted, PrivacyConfigs, EncryptedKeyGrants,
        TemplateConfigs
  <2> QED
    BY DEF RegisterSubgroveTxs
<1>2. << >> \in Text
  BY EmptyFacts DEF Text
<1>3. \A m \in Modes : "name" \in DOMAIN m => m.name \in Text
  <2> TAKE m \in Modes
  <2> HIDE DEF Text, ByteField, Optional, List, ReaderLists, ReadPricings, WasmSources, Executions, IndexerConfigs,
        Counted, Completenesses
  <2>1. CASE m \in DataStorages \cup FileStorages
    BY <2>1 DEF DataStorages, FileStorages
  <2>2. CASE m \in BlockchainIndexings
    BY <2>2 DEF BlockchainIndexings
  <2> QED
    BY <2>1, <2>2 DEF Modes
<1>4. tx.mode # None => tx.mode[1] \in Modes
  BY <1>1, OptionalFacts
<1> QED
  BY <1>1, <1>2, <1>3, <1>4, OptionalFacts DEF NameOf

\* What the rules take is sent as BodySent says.
LEMMA BodyIsSent ==
  ASSUME NEW tx \in RegisterSubgroveTxs, ModeRule(tx), NormalRule(ToDict(tx))
  PROVE  BodySent(Normalize(ToDict(tx)))
<1> DEFINE d == ToDict(tx)
           b == Normalize(d)
<1>0. /\ Holds(d.initial_funding, LAMBDA n : Unsigned(n.value, 16))
      /\ Holds(d.mode, SubgroveModeRule)
      /\ Holds(d.privacy, LAMBDA p : CountedRule(p.commitment_frequency, {"EveryNBlocks", "EveryNSeconds"}))
      /\ Holds(d.initial_owner_key_grant, KeyGrantNumbers)
      /\ Holds(d.template_config, LAMBDA c : Unsigned(c.template_version, 4))
      /\ Unsigned(Default(d.confirmation_depth, 0), 4)
      /\ Unsigned(d.nonce, 8)
  BY DEF NormalRule
<1>1. /\ b.subgrove_id = tx.subgrove_id /\ b.owner_did = tx.owner_did
      /\ b.public_key_id = tx.public_key_id /\ b.schema = tx.schema /\ b.nonce = tx.nonce
      /\ b.required_tee = tx.required_tee /\ b.privacy = tx.privacy
      /\ b.name = Some(NameOf(tx))
      /\ b.description = Written(tx.description, << >>)
      /\ b.admins = Written(tx.admins, << >>)
      /\ b.initial_funding = Mapped(tx.initial_funding, AsNumber)
      /\ b.mode = Some(SubgroveMode(Default(MergedMode(tx), NoMode)))
      /\ b.initial_owner_key_grant = Mapped(tx.initial_owner_key_grant, KeyGrant)
      /\ b.template_config = Mapped(tx.template_config, TemplateConfig)
      /\ b.confirmation_depth = Written(tx.confirmation_depth, 0)
      /\ b.cryptographic_completeness = Written(tx.cryptographic_completeness, FALSE)
      /\ d.mode = MergedMode(tx) /\ d.privacy = tx.privacy /\ d.initial_funding = tx.initial_funding
      /\ d.initial_owner_key_grant = tx.initial_owner_key_grant /\ d.template_config = tx.template_config
      /\ d.confirmation_depth = tx.confirmation_depth /\ d.nonce = tx.nonce
  BY BodyFields
<1>2. /\ tx.subgrove_id \in Text /\ tx.owner_did \in Text /\ tx.public_key_id \in Text /\ tx.schema \in Schemas
      /\ tx.description \in Optional(Text) /\ tx.admins \in Optional(List(Text))
      /\ tx.initial_funding \in Optional(Amounts) /\ tx.required_tee \in Optional(ToSet(TeeTypes))
      /\ tx.privacy \in Optional(PrivacyConfigs) /\ tx.initial_owner_key_grant \in Optional(EncryptedKeyGrants)
      /\ tx.template_config \in Optional(TemplateConfigs) /\ tx.confirmation_depth \in Optional(Int)
      /\ tx.cryptographic_completeness \in Optional(BOOLEAN)
  <2> HIDE DEF Text, Optional, List, Schemas, Amounts, Modes, Counted, PrivacyConfigs, EncryptedKeyGrants,
        TemplateConfigs
  <2> QED
    BY DEF RegisterSubgroveTxs
<1> HIDE DEF d, b
<1>3. BodyTexts(b)
  <2>1. tx.schema.text \in Text
    <3> HIDE DEF Text
    <3> QED
      BY <1>2 DEF Schemas
  <2>2. Some(NameOf(tx)) \in Optional(Text) /\ Some(NameOf(tx)) # None
    BY NameFacts, SomeFacts
  <2>3. << >> \in Text /\ << >> \in List(Text)
    BY EmptyFacts DEF Text
  <2>4. /\ Written(tx.description, << >>) \in Optional(Text) /\ Written(tx.description, << >>) # None
        /\ Written(tx.admins, << >>) \in Optional(List(Text)) /\ Written(tx.admins, << >>) # None
    BY <1>2, <2>3, WrittenFacts
  <2> QED
    BY <1>1, <1>2, <2>1, <2>2, <2>4 DEF BodyTexts
<1>4. BodyNumbers(b)
  <2>1. /\ Written(tx.confirmation_depth, 0) \in Optional(Int) /\ Written(tx.confirmation_depth, 0) # None
        /\ Written(tx.confirmation_depth, 0)[1] = Default(tx.confirmation_depth, 0)
    BY <1>2, WrittenFacts
  <2>2. Written(tx.cryptographic_completeness, FALSE) \in Optional(BOOLEAN) /\
          Written(tx.cryptographic_completeness, FALSE) # None
    <3>1. Default(tx.cryptographic_completeness, FALSE) \in BOOLEAN
      BY <1>2, OptionalFacts DEF Default
    <3>2. PICK v \in BOOLEAN : v = Default(tx.cryptographic_completeness, FALSE)
      BY <3>1
    <3>3. Written(tx.cryptographic_completeness, FALSE) = Some(v)
      BY <3>2 DEF Written
    <3> QED
      BY <3>3, SomeFacts
  <2> QED
    BY <1>0, <1>1, <2>1, <2>2 DEF BodyNumbers
<1>5. b.initial_funding \in Optional(Amounts) /\ (b.initial_funding # None => FundingSent(b.initial_funding[1]))
  <2>1. CASE tx.initial_funding = None
    BY <1>1, <1>2, <2>1 DEF Mapped
  <2>2. CASE tx.initial_funding # None
    <3>1. PICK n \in Amounts : n = tx.initial_funding[1] /\ Unsigned(n.value, 16)
      BY <1>0, <1>1, <1>2, <2>2, HeldFacts DEF Holds
    <3>2. AsNumber(n) \in Amounts /\ AsNumber(n).value = n.value /\ ~AsNumber(n).text
      BY AmountAgain DEF AsNumber, Amounts
    <3>3. b.initial_funding = Some(AsNumber(n))
      BY <1>1, <2>2, <3>1 DEF Mapped
    <3>4. FundingSent(AsNumber(n))
      BY <3>1, <3>2 DEF FundingSent
    <3> QED
      BY <3>2, <3>3, <3>4, SomeFacts
  <2> QED
    BY <2>1, <2>2
<1>6. b.privacy # None => PrivacySent(b.privacy[1])
  BY <1>0, <1>1, <1>2, HeldFacts DEF Holds, PrivacySent
<1>7. b.initial_owner_key_grant \in Optional(EncryptedKeyGrants)
      /\ (b.initial_owner_key_grant # None => GrantSent(b.initial_owner_key_grant[1]))
  <2>1. CASE tx.initial_owner_key_grant = None
    BY <1>1, <1>2, <2>1 DEF Mapped
  <2>2. CASE tx.initial_owner_key_grant # None
    <3>1. PICK g \in EncryptedKeyGrants : g = tx.initial_owner_key_grant[1] /\ KeyGrantNumbers(g)
      BY <1>0, <1>1, <1>2, <2>2, HeldFacts DEF Holds
    <3>2. GrantSent(KeyGrant(g))
      BY <3>1, GrantIsSent
    <3>3. b.initial_owner_key_grant = Some(KeyGrant(g)) /\ KeyGrant(g) \in EncryptedKeyGrants
      BY <1>1, <2>2, <3>1, <3>2 DEF Mapped, GrantSent
    <3> QED
      BY <3>2, <3>3, SomeFacts
  <2> QED
    BY <2>1, <2>2
<1>8. b.template_config \in Optional(TemplateConfigs) /\
        (b.template_config # None => TemplateSent(b.template_config[1]))
  <2>1. CASE tx.template_config = None
    BY <1>1, <1>2, <2>1 DEF Mapped
  <2>2. CASE tx.template_config # None
    <3>1. PICK c \in TemplateConfigs : c = tx.template_config[1] /\ Unsigned(c.template_version, 4)
      BY <1>0, <1>1, <1>2, <2>2, HeldFacts DEF Holds
    <3>2. TemplateSent(TemplateConfig(c))
      <4> DEFINE v == ByteValues(c.parameters)
                 t == TemplateConfig(c)
      <4>1. c.parameters \in ByteField
        <5> HIDE DEF Text, ByteField, Optional, List
        <5> QED
          BY DEF TemplateConfigs
      <4>2. t = [c EXCEPT !.parameters = v] /\ v \in ByteField /\ v.form = "list"
        BY <4>1, ByteValuesFacts DEF TemplateConfig
      <4> HIDE DEF v, t, Text, ByteField, Optional, List
      <4>3. t \in TemplateConfigs /\ t.parameters = v /\ t.template_version = c.template_version
        BY <4>2 DEF TemplateConfigs
      <4>4. TemplateSent(t)
        BY <3>1, <4>2, <4>3 DEF TemplateSent
      <4> QED
        BY <4>4 DEF t
    <3>3. b.template_config = Some(TemplateConfig(c)) /\ TemplateConfig(c) \in TemplateConfigs
      BY <1>1, <2>2, <3>1, <3>2 DEF Mapped, TemplateSent
    <3> QED
      BY <3>2, <3>3, SomeFacts
  <2> QED
    BY <2>1, <2>2
<1>9. BodyMode(b)
  <2> DEFINE m == Default(MergedMode(tx), NoMode)
  <2>1. m \in Modes /\ SubgroveModeRule(m)
    <3>1. CASE MergedMode(tx) = None
      BY <3>1, NoModeIsSent DEF Default
    <3>2. CASE MergedMode(tx) # None
      <4>1. MergedMode(tx) \in Optional(Modes)
        BY MergedModeFacts
      <4>2. MergedMode(tx)[1] \in ToSet(MergedMode(tx)) /\ MergedMode(tx)[1] \in Modes
        BY <3>2, <4>1, HeldFacts
      <4>3. SubgroveModeRule(MergedMode(tx)[1])
        BY <1>0, <1>1, <4>2 DEF Holds
      <4> QED
        BY <3>2, <4>2, <4>3 DEF Default
    <3> QED
      BY <3>1, <3>2
  <2>2. ModeSent(SubgroveMode(m))
    BY <2>1, ModeIsSent
  <2>3. b.mode = Some(SubgroveMode(m))
    BY <1>1
  <2> HIDE DEF m
  <2>4. b.mode[1] = SubgroveMode(m)
    BY <2>3, OptionFacts
  <2> QED
    BY <2>2, <2>3, <2>4 DEF BodyMode
<1>10. BodySent(b)
  <2>1. BodyOptions(b)
    BY <1>1, <1>2, <1>5, <1>6, <1>7, <1>8 DEF BodyOptions
  <2> QED
    BY <1>3, <1>4, <1>9, <2>1 DEF BodySent
<1> QED
  BY <1>10 DEF b, d

-----------------------------------------------------------------------------
(* Messages in lines.                                                      *)

\* The first of parts joined.
LEMMA FlattenHead ==
  ASSUME NEW parts, Parts(parts), Len(parts) # 0, parts[1] # << >>
  PROVE  FlattenSeq(parts) # << >> /\ FlattenSeq(parts)[1] = parts[1][1]
<1>1. PICK f : Joins(f, parts)
  BY JoinsExist
<1>2. PICK r : r = FlattenSeq(parts)
  OBVIOUS
<1>3. IsSeq(r) /\ r = f[Len(parts)]
  BY <1>1, <1>2, FlattenJoins
<1>4. Len(parts) \in Nat /\ 1 \in 0..Len(parts) /\ 1 \in 1..Len(parts)
  BY SeqFacts DEF Parts
<1>5. PICK p : p = parts[1]
  OBVIOUS
<1>6. IsSeq(p) /\ p # << >>
  BY <1>4, <1>5 DEF Parts
<1>7. f[1] = p
  <2>1. PICK i \in 1..Len(parts) : i = 1
    BY <1>4
  <2>2. f[i] = f[i - 1] \o parts[i] /\ f[0] = << >>
    BY <1>1 DEF Joins
  <2>3. i - 1 = 0
    BY <2>1
  <2>4. f[1] = << >> \o p
    BY <1>5, <2>1, <2>2, <2>3
  <2>5. << >> \o p = p
    BY <1>6 DEF IsSeq
  <2> QED
    BY <2>4, <2>5
<1>8. \A q : IsSeq(q) /\ Fit(r, q) => Fit(p, q)
  BY <1>1, <1>3, <1>4, <1>7, JoinsFit
<1>9. r # << >>
  <2> SUFFICES ASSUME r = << >> PROVE FALSE
    OBVIOUS
  <2>1. PICK e : e \notin {p[1]}
    BY NoSetContainsEverything, Zenon
  <2>2. IsSeq(<<e>>) /\ <<e>>[1] = e /\ <<e>> # << >>
    BY OneToken
  <2>3. PICK q : q = <<e>>
    OBVIOUS
  <2>4. Fit(r, q)
    <3>1. Len(r) = 0
      BY NoTokens
    <3> QED
      BY <3>1 DEF Fit
  <2>5. Fit(p, q)
    BY <1>8, <2>2, <2>3, <2>4
  <2>6. p[1] = q[1]
    BY <1>6, <2>2, <2>3, <2>5, FitFacts
  <2> QED
    BY <2>1, <2>2, <2>3, <2>6
<1>10. Fit(p, r)
  BY <1>3, <1>8, FitFacts
<1>11. p[1] = r[1]
  BY <1>3, <1>6, <1>9, <1>10, FitFacts
<1> QED
  BY <1>2, <1>5, <1>9, <1>11

\* What a message in lines is made of, and how it begins.
Lines(lines) == IsSeq(lines) /\ Len(lines) # 0 /\ \A i \in 1..Len(lines) : Unbroken(lines[i])

\* Joined lines that fit are the same lines.
LEMMA LinesBind ==
  ASSUME NEW lines, NEW others, Lines(lines), Lines(others), JoinLines(lines) = JoinLines(others)
  PROVE  Fit(lines, others)
<1>1. Parts(lines) /\ Parts(others)
  BY DEF Lines, Parts, Unbroken
<1> QED
  BY <1>1, LinesTell DEF Lines, Unbroken

\* Joined lines begin as the first does.
LEMMA LinesHead ==
  ASSUME NEW lines, Lines(lines), lines[1] # << >>
  PROVE  IsSeq(JoinLines(lines)) /\ JoinLines(lines) # << >> /\ JoinLines(lines)[1] = lines[1][1]
<1> DEFINE begun == [i \in 1..Len(lines) |-> IF i = 1 THEN lines[1] ELSE <<LineBreak>> \o lines[i]]
<1>1. Parts(lines) /\ Len(lines) \in Nat /\ Len(lines) # 0 /\ 1 \in 1..Len(lines)
  BY SeqFacts DEF Lines, Parts, Unbroken
<1>2. JoinLines(lines) = FlattenSeq(begun)
  BY DEF JoinLines
<1>3. \A i \in 1..Len(lines) : IsSeq(begun[i])
  <2> TAKE i \in 1..Len(lines)
  <2>1. IsSeq(lines[i])
    BY <1>1 DEF Parts
  <2>2. IsSeq(<<LineBreak>> \o lines[i])
    BY <2>1, OneToken, CatFacts
  <2> QED
    BY <2>1, <2>2
<1>4. begun = [i \in 1..Len(lines) |-> begun[i]] /\ begun[1] = lines[1]
  BY <1>1
<1> HIDE DEF begun
<1>5. Parts(begun) /\ Len(begun) = Len(lines)
  BY <1>1, <1>3, <1>4, OfLength DEF Parts
<1>6. FlattenSeq(begun) # << >> /\ FlattenSeq(begun)[1] = begun[1][1] /\ IsSeq(FlattenSeq(begun))
  BY <1>1, <1>4, <1>5, FlattenHead, JoinsExist, FlattenJoins
<1> QED
  BY <1>2, <1>4, <1>6

\* The tokens of a line are not a break, and are told apart by what they stand for.
LEMMA TokenFacts ==
  /\ \A l : Label(l) # LineBreak
  /\ \A n : Number(n) # LineBreak
  /\ \A b : Hex(b) # LineBreak
  /\ \A t : Sha256(t) # LineBreak
  /\ Word("none") # LineBreak /\ Colon # LineBreak
  /\ \A n, m : Number(n) = Number(m) => n = m
  /\ \A b, c : Hex(b) = Hex(c) => b = c
  /\ \A t, u : Sha256(t) = Sha256(u) => t = u
  /\ \A l, k : Label(l) = Label(k) => l = k
  /\ \A n : Number(n) # Word("none")
BY DEF Label, Number, Hex, Sha256, Word, Colon, LineBreak

\* A line of a text, of a number, of bytes, of a hash.
LEMMA TextLine ==
  ASSUME NEW l, NEW p \in Text, FieldRule(p)
  PROVE  Unbroken(Line(l, p)) /\ \A q \in Text : Line(l, p) = Line(l, q) => p = q
BY FieldUnbroken, LineFacts, TextFacts DEF Text

\* A line with a number is in one piece, and binds it.
LEMMA NumberLine ==
  ASSUME NEW l, NEW n
  PROVE  Unbroken(Line(l, <<Number(n)>>)) /\ \A m : Line(l, <<Number(n)>>) = Line(l, <<Number(m)>>) => n = m
<1>1. Unbroken(<<Number(n)>>) /\ \A m : IsSeq(<<Number(m)>>) /\ <<Number(m)>>[1] = Number(m)
  BY TokenFacts, TokenUnbroken, OneToken
<1>2. Unbroken(Line(l, <<Number(n)>>)) /\ \A m : Line(l, <<Number(n)>>) = Line(l, <<Number(m)>>) =>
        <<Number(n)>> = <<Number(m)>>
  BY <1>1, LineFacts
<1>3. \A m : <<Number(n)>> = <<Number(m)>> => Number(n) = Number(m)
  OBVIOUS
<1> QED
  BY <1>2, <1>3, TokenFacts

\* A line with bytes.
LEMMA HexLine ==
  ASSUME NEW l, NEW b
  PROVE  Unbroken(Line(l, <<Hex(b)>>)) /\ \A c : Line(l, <<Hex(b)>>) = Line(l, <<Hex(c)>>) => b = c
<1>1. Unbroken(<<Hex(b)>>) /\ \A c : IsSeq(<<Hex(c)>>)
  BY TokenFacts, TokenUnbroken, OneToken
<1>2. Unbroken(Line(l, <<Hex(b)>>)) /\ \A c : Line(l, <<Hex(b)>>) = Line(l, <<Hex(c)>>) => <<Hex(b)>> = <<Hex(c)>>
  BY <1>1, LineFacts
<1>3. \A c : <<Hex(b)>> = <<Hex(c)>> => Hex(b) = Hex(c)
  OBVIOUS
<1> QED
  BY <1>2, <1>3, TokenFacts

\* A line with a hash.
LEMMA HashLine ==
  ASSUME NEW l, NEW t
  PROVE  Unbroken(Line(l, <<Sha256(t)>>)) /\ \A u : Line(l, <<Sha256(t)>>) = Line(l, <<Sha256(u)>>) => t = u
<1>1. Unbroken(<<Sha256(t)>>) /\ \A u : IsSeq(<<Sha256(u)>>)
  BY TokenFacts, TokenUnbroken, OneToken
<1>2. Unbroken(Line(l, <<Sha256(t)>>)) /\ \A u : Line(l, <<Sha256(t)>>) = Line(l, <<Sha256(u)>>) =>
        <<Sha256(t)>> = <<Sha256(u)>>
  BY <1>1, LineFacts
<1>3. \A u : <<Sha256(t)>> = <<Sha256(u)>> => Sha256(t) = Sha256(u)
  OBVIOUS
<1> QED
  BY <1>2, <1>3, TokenFacts

\* A message's first token says its kind.
Heads(message, kind) == IsSeq(message) /\ message # << >> /\ message[1] = Label(kind)

\* The first line: the kind.
LEMMA KindLine ==
  ASSUME NEW kind
  PROVE  Unbroken(<<Label(kind)>>) /\ <<Label(kind)>> # << >> /\ <<Label(kind)>>[1] = Label(kind)
BY TokenFacts, TokenUnbroken, OneToken

\* A message of lines begins with its kind.
LEMMA LinesHeads ==
  ASSUME NEW lines, NEW kind, Lines(lines), lines[1] = <<Label(kind)>>
  PROVE  Heads(JoinLines(lines), kind)
BY LinesHead, KindLine DEF Heads

\* Messages of three, five, six, seven and thirteen lines: they are lines, and two that fit are equal line by line.
LEMMA Lines3 ==
  ASSUME NEW l1, NEW l2, NEW l3,
         Unbroken(l1), Unbroken(l2), Unbroken(l3)
  PROVE  Lines(<<l1, l2, l3>>) /\ Len(<<l1, l2, l3>>) = 3 /\ <<l1, l2, l3>>[1] = l1
<1> DEFINE lines == <<l1, l2, l3>>
<1>1. Len(lines) = 3 /\ lines \in Seq({l1, l2, l3})
  OBVIOUS
<1>2. lines[1] = l1 /\ lines[2] = l2 /\ lines[3] = l3
  OBVIOUS
<1> HIDE DEF lines
<1>3. \A i \in 1..3 : i = 1 \/ i = 2 \/ i = 3
  OBVIOUS
<1>4. \A i \in 1..3 : Unbroken(lines[i])
  BY <1>2, <1>3
<1>5. Lines(lines)
  BY <1>1, <1>4 DEF Lines, IsSeq
<1> QED
  BY <1>1, <1>2, <1>5 DEF lines

LEMMA Fit3 ==
  ASSUME NEW l1, NEW l2, NEW l3,
         NEW r1, NEW r2, NEW r3,
         Fit(<<l1, l2, l3>>, <<r1, r2, r3>>)
  PROVE  l1 = r1 /\ l2 = r2 /\ l3 = r3
<1> DEFINE lines == <<l1, l2, l3>>
<1> DEFINE others == <<r1, r2, r3>>
<1>1. Len(lines) = 3 /\ lines[1] = l1 /\ lines[2] = l2 /\ lines[3] = l3
  OBVIOUS
<1>2. Len(others) = 3 /\ others[1] = r1 /\ others[2] = r2 /\ others[3] = r3
  OBVIOUS
<1>3. Fit(lines, others)
  OBVIOUS
<1> HIDE DEF lines, others
<1>4. \A i \in 1..3 : lines[i] = others[i]
  BY <1>1, <1>2, <1>3 DEF Fit
<1>5. 1 \in 1..3 /\ 2 \in 1..3 /\ 3 \in 1..3
  OBVIOUS
<1>6. lines[1] = others[1] /\ lines[2] = others[2] /\ lines[3] = others[3]
  BY <1>4, <1>5
<1> QED
  BY <1>1, <1>2, <1>6

LEMMA Lines5 ==
  ASSUME NEW l1, NEW l2, NEW l3, NEW l4, NEW l5,
         Unbroken(l1), Unbroken(l2), Unbroken(l3), Unbroken(l4), Unbroken(l5)
  PROVE  Lines(<<l1, l2, l3, l4, l5>>) /\ Len(<<l1, l2, l3, l4, l5>>) = 5 /\ <<l1, l2, l3, l4, l5>>[1] = l1
<1> DEFINE lines == <<l1, l2, l3, l4, l5>>
<1>1. Len(lines) = 5 /\ lines \in Seq({l1, l2, l3, l4, l5})
  OBVIOUS
<1>2. lines[1] = l1 /\ lines[2] = l2 /\ lines[3] = l3 /\ lines[4] = l4 /\ lines[5] = l5
  OBVIOUS
<1> HIDE DEF lines
<1>3. \A i \in 1..5 : i = 1 \/ i = 2 \/ i = 3 \/ i = 4 \/ i = 5
  OBVIOUS
<1>4. \A i \in 1..5 : Unbroken(lines[i])
  BY <1>2, <1>3
<1>5. Lines(lines)
  BY <1>1, <1>4 DEF Lines, IsSeq
<1> QED
  BY <1>1, <1>2, <1>5 DEF lines

LEMMA Fit5 ==
  ASSUME NEW l1, NEW l2, NEW l3, NEW l4, NEW l5,
         NEW r1, NEW r2, NEW r3, NEW r4, NEW r5,
         Fit(<<l1, l2, l3, l4, l5>>, <<r1, r2, r3, r4, r5>>)
  PROVE  l1 = r1 /\ l2 = r2 /\ l3 = r3 /\ l4 = r4 /\ l5 = r5
<1> DEFINE lines == <<l1, l2, l3, l4, l5>>
<1> DEFINE others == <<r1, r2, r3, r4, r5>>
<1>1. Len(lines) = 5 /\ lines[1] = l1 /\ lines[2] = l2 /\ lines[3] = l3 /\ lines[4] = l4 /\ lines[5] = l5
  OBVIOUS
<1>2. Len(others) = 5 /\ others[1] = r1 /\ others[2] = r2 /\ others[3] = r3 /\ others[4] = r4 /\ others[5] = r5
  OBVIOUS
<1>3. Fit(lines, others)
  OBVIOUS
<1> HIDE DEF lines, others
<1>4. \A i \in 1..5 : lines[i] = others[i]
  BY <1>1, <1>2, <1>3 DEF Fit
<1>5. 1 \in 1..5 /\ 2 \in 1..5 /\ 3 \in 1..5 /\ 4 \in 1..5 /\ 5 \in 1..5
  OBVIOUS
<1>6. lines[1] = others[1] /\ lines[2] = others[2] /\ lines[3] = others[3] /\ lines[4] = others[4] /\
        lines[5] = others[5]
  BY <1>4, <1>5
<1> QED
  BY <1>1, <1>2, <1>6

LEMMA Lines6 ==
  ASSUME NEW l1, NEW l2, NEW l3, NEW l4, NEW l5, NEW l6,
         Unbroken(l1), Unbroken(l2), Unbroken(l3), Unbroken(l4), Unbroken(l5), Unbroken(l6)
  PROVE  Lines(<<l1, l2, l3, l4, l5, l6>>) /\ Len(<<l1, l2, l3, l4, l5, l6>>) = 6 /\
           <<l1, l2, l3, l4, l5, l6>>[1] = l1
<1> DEFINE lines == <<l1, l2, l3, l4, l5, l6>>
<1>1. Len(lines) = 6 /\ lines \in Seq({l1, l2, l3, l4, l5, l6})
  OBVIOUS
<1>2. lines[1] = l1 /\ lines[2] = l2 /\ lines[3] = l3 /\ lines[4] = l4 /\ lines[5] = l5 /\ lines[6] = l6
  OBVIOUS
<1> HIDE DEF lines
<1>3. \A i \in 1..6 : i = 1 \/ i = 2 \/ i = 3 \/ i = 4 \/ i = 5 \/ i = 6
  OBVIOUS
<1>4. \A i \in 1..6 : Unbroken(lines[i])
  BY <1>2, <1>3
<1>5. Lines(lines)
  BY <1>1, <1>4 DEF Lines, IsSeq
<1> QED
  BY <1>1, <1>2, <1>5 DEF lines

LEMMA Fit6 ==
  ASSUME NEW l1, NEW l2, NEW l3, NEW l4, NEW l5, NEW l6,
         NEW r1, NEW r2, NEW r3, NEW r4, NEW r5, NEW r6,
         Fit(<<l1, l2, l3, l4, l5, l6>>, <<r1, r2, r3, r4, r5, r6>>)
  PROVE  l1 = r1 /\ l2 = r2 /\ l3 = r3 /\ l4 = r4 /\ l5 = r5 /\ l6 = r6
<1> DEFINE lines == <<l1, l2, l3, l4, l5, l6>>
<1> DEFINE others == <<r1, r2, r3, r4, r5, r6>>
<1>1. Len(lines) = 6 /\ lines[1] = l1 /\ lines[2] = l2 /\ lines[3] = l3 /\ lines[4] = l4 /\ lines[5] = l5 /\
        lines[6] = l6
  OBVIOUS
<1>2. Len(others) = 6 /\ others[1] = r1 /\ others[2] = r2 /\ others[3] = r3 /\ others[4] = r4 /\ others[5] = r5 /\
        others[6] = r6
  OBVIOUS
<1>3. Fit(lines, others)
  OBVIOUS
<1> HIDE DEF lines, others
<1>4. \A i \in 1..6 : lines[i] = others[i]
  BY <1>1, <1>2, <1>3 DEF Fit
<1>5. 1 \in 1..6 /\ 2 \in 1..6 /\ 3 \in 1..6 /\ 4 \in 1..6 /\ 5 \in 1..6 /\ 6 \in 1..6
  OBVIOUS
<1>6. lines[1] = others[1] /\ lines[2] = others[2] /\ lines[3] = others[3] /\ lines[4] = others[4] /\
        lines[5] = others[5] /\ lines[6] = others[6]
  BY <1>4, <1>5
<1> QED
  BY <1>1, <1>2, <1>6

LEMMA Lines7 ==
  ASSUME NEW l1, NEW l2, NEW l3, NEW l4, NEW l5, NEW l6, NEW l7,
         Unbroken(l1), Unbroken(l2), Unbroken(l3), Unbroken(l4), Unbroken(l5), Unbroken(l6), Unbroken(l7)
  PROVE  Lines(<<l1, l2, l3, l4, l5, l6, l7>>) /\ Len(<<l1, l2, l3, l4, l5, l6, l7>>) = 7 /\
           <<l1, l2, l3, l4, l5, l6, l7>>[1] = l1
<1> DEFINE lines == <<l1, l2, l3, l4, l5, l6, l7>>
<1>1. Len(lines) = 7 /\ lines \in Seq({l1, l2, l3, l4, l5, l6, l7})
  OBVIOUS
<1>2. lines[1] = l1 /\ lines[2] = l2 /\ lines[3] = l3 /\ lines[4] = l4 /\ lines[5] = l5 /\ lines[6] = l6 /\
        lines[7] = l7
  OBVIOUS
<1> HIDE DEF lines
<1>3. \A i \in 1..7 : i = 1 \/ i = 2 \/ i = 3 \/ i = 4 \/ i = 5 \/ i = 6 \/ i = 7
  OBVIOUS
<1>4. \A i \in 1..7 : Unbroken(lines[i])
  BY <1>2, <1>3
<1>5. Lines(lines)
  BY <1>1, <1>4 DEF Lines, IsSeq
<1> QED
  BY <1>1, <1>2, <1>5 DEF lines

LEMMA Fit7 ==
  ASSUME NEW l1, NEW l2, NEW l3, NEW l4, NEW l5, NEW l6, NEW l7,
         NEW r1, NEW r2, NEW r3, NEW r4, NEW r5, NEW r6, NEW r7,
         Fit(<<l1, l2, l3, l4, l5, l6, l7>>, <<r1, r2, r3, r4, r5, r6, r7>>)
  PROVE  l1 = r1 /\ l2 = r2 /\ l3 = r3 /\ l4 = r4 /\ l5 = r5 /\ l6 = r6 /\ l7 = r7
<1> DEFINE lines == <<l1, l2, l3, l4, l5, l6, l7>>
<1> DEFINE others == <<r1, r2, r3, r4, r5, r6, r7>>
<1>1. Len(lines) = 7 /\ lines[1] = l1 /\ lines[2] = l2 /\ lines[3] = l3 /\ lines[4] = l4 /\ lines[5] = l5 /\
        lines[6] = l6 /\ lines[7] = l7
  OBVIOUS
<1>2. Len(others) = 7 /\ others[1] = r1 /\ others[2] = r2 /\ others[3] = r3 /\ others[4] = r4 /\ others[5] = r5 /\
        others[6] = r6 /\ others[7] = r7
  OBVIOUS
<1>3. Fit(lines, others)
  OBVIOUS
<1> HIDE DEF lines, others
<1>4. \A i \in 1..7 : lines[i] = others[i]
  BY <1>1, <1>2, <1>3 DEF Fit
<1>5. 1 \in 1..7 /\ 2 \in 1..7 /\ 3 \in 1..7 /\ 4 \in 1..7 /\ 5 \in 1..7 /\ 6 \in 1..7 /\ 7 \in 1..7
  OBVIOUS
<1>6. lines[1] = others[1] /\ lines[2] = others[2] /\ lines[3] = others[3] /\ lines[4] = others[4] /\
        lines[5] = others[5] /\ lines[6] = others[6] /\ lines[7] = others[7]
  BY <1>4, <1>5
<1> QED
  BY <1>1, <1>2, <1>6

LEMMA Lines13 ==
  ASSUME NEW l1, NEW l2, NEW l3, NEW l4, NEW l5, NEW l6, NEW l7, NEW l8, NEW l9, NEW l10, NEW l11, NEW l12, NEW l13,
         Unbroken(l1), Unbroken(l2), Unbroken(l3), Unbroken(l4), Unbroken(l5), Unbroken(l6), Unbroken(l7),
           Unbroken(l8), Unbroken(l9), Unbroken(l10), Unbroken(l11), Unbroken(l12), Unbroken(l13)
  PROVE  Lines(<<l1, l2, l3, l4, l5, l6, l7, l8, l9, l10, l11, l12, l13>>) /\
           Len(<<l1, l2, l3, l4, l5, l6, l7, l8, l9, l10, l11, l12, l13>>) = 13 /\
           <<l1, l2, l3, l4, l5, l6, l7, l8, l9, l10, l11, l12, l13>>[1] = l1
<1> DEFINE lines == <<l1, l2, l3, l4, l5, l6, l7, l8, l9, l10, l11, l12, l13>>
<1>1. Len(lines) = 13 /\ lines \in Seq({l1, l2, l3, l4, l5, l6, l7, l8, l9, l10, l11, l12, l13})
  OBVIOUS
<1>2. lines[1] = l1 /\ lines[2] = l2 /\ lines[3] = l3 /\ lines[4] = l4 /\ lines[5] = l5 /\ lines[6] = l6 /\
        lines[7] = l7 /\ lines[8] = l8 /\ lines[9] = l9 /\ lines[10] = l10 /\ lines[11] = l11 /\ lines[12] = l12 /\
        lines[13] = l13
  OBVIOUS
<1> HIDE DEF lines
<1>3. \A i \in 1..13 : i = 1 \/ i = 2 \/ i = 3 \/ i = 4 \/ i = 5 \/ i = 6 \/ i = 7 \/ i = 8 \/ i = 9 \/ i = 10 \/
        i = 11 \/ i = 12 \/ i = 13
  OBVIOUS
<1>4. \A i \in 1..13 : Unbroken(lines[i])
  BY <1>2, <1>3
<1>5. Lines(lines)
  BY <1>1, <1>4 DEF Lines, IsSeq
<1> QED
  BY <1>1, <1>2, <1>5 DEF lines

LEMMA Fit13 ==
  ASSUME NEW l1, NEW l2, NEW l3, NEW l4, NEW l5, NEW l6, NEW l7, NEW l8, NEW l9, NEW l10, NEW l11, NEW l12, NEW l13,
         NEW r1, NEW r2, NEW r3, NEW r4, NEW r5, NEW r6, NEW r7, NEW r8, NEW r9, NEW r10, NEW r11, NEW r12, NEW r13,
         Fit(<<l1, l2, l3, l4, l5, l6, l7, l8, l9, l10, l11, l12, l13>>,
           <<r1, r2, r3, r4, r5, r6, r7, r8, r9, r10, r11, r12, r13>>)
  PROVE  l1 = r1 /\ l2 = r2 /\ l3 = r3 /\ l4 = r4 /\ l5 = r5 /\ l6 = r6 /\ l7 = r7 /\ l8 = r8 /\ l9 = r9 /\
           l10 = r10 /\ l11 = r11 /\ l12 = r12 /\ l13 = r13
<1> DEFINE lines == <<l1, l2, l3, l4, l5, l6, l7, l8, l9, l10, l11, l12, l13>>
<1> DEFINE others == <<r1, r2, r3, r4, r5, r6, r7, r8, r9, r10, r11, r12, r13>>
<1>1. Len(lines) = 13 /\ lines[1] = l1 /\ lines[2] = l2 /\ lines[3] = l3 /\ lines[4] = l4 /\ lines[5] = l5 /\
        lines[6] = l6 /\ lines[7] = l7 /\ lines[8] = l8 /\ lines[9] = l9 /\ lines[10] = l10 /\ lines[11] = l11 /\
        lines[12] = l12 /\ lines[13] = l13
  OBVIOUS
<1>2. Len(others) = 13 /\ others[1] = r1 /\ others[2] = r2 /\ others[3] = r3 /\ others[4] = r4 /\ others[5] = r5 /\
        others[6] = r6 /\ others[7] = r7 /\ others[8] = r8 /\ others[9] = r9 /\ others[10] = r10 /\
        others[11] = r11 /\ others[12] = r12 /\ others[13] = r13
  OBVIOUS
<1>3. Fit(lines, others)
  OBVIOUS
<1> HIDE DEF lines, others
<1>4. \A i \in 1..13 : lines[i] = others[i]
  BY <1>1, <1>2, <1>3 DEF Fit
<1>5. 1 \in 1..13 /\ 2 \in 1..13 /\ 3 \in 1..13 /\ 4 \in 1..13 /\ 5 \in 1..13 /\ 6 \in 1..13 /\ 7 \in 1..13 /\
        8 \in 1..13 /\ 9 \in 1..13 /\ 10 \in 1..13 /\ 11 \in 1..13 /\ 12 \in 1..13 /\ 13 \in 1..13
  OBVIOUS
<1>6. lines[1] = others[1] /\ lines[2] = others[2] /\ lines[3] = others[3] /\ lines[4] = others[4] /\
        lines[5] = others[5] /\ lines[6] = others[6] /\ lines[7] = others[7] /\ lines[8] = others[8] /\
        lines[9] = others[9] /\ lines[10] = others[10] /\ lines[11] = others[11] /\ lines[12] = others[12] /\
        lines[13] = others[13]
  BY <1>4, <1>5
<1> QED
  BY <1>1, <1>2, <1>6

-----------------------------------------------------------------------------
(* What each message binds.                                                *)
\* The message of a write of data is its kind and its fields.
LEMMA StoreDataBinds ==
  ASSUME NEW tx \in StoreDataTxs, StoreDataRule(tx)
  PROVE  /\ Heads(StoreDataMessage(tx), "StoreData")
         /\ \A other \in StoreDataTxs : StoreDataRule(other) /\ StoreDataMessage(other) = StoreDataMessage(tx) =>
              other = tx
<1> DEFINE lines(t) == << <<Label("StoreData")>>, Line("Subgrove", t.subgrove_id), Line("Key", t.key),
             Line("Owner", t.owner_did), Line("DataHash", <<Sha256(t.data)>>), Line("Nonce", <<Number(t.nonce)>>) >>
<1>1. \A t \in StoreDataTxs : StoreDataMessage(t) = JoinLines(lines(t))
  BY DEF StoreDataTxs, StoreDataMessage, Kind, NonceLine
<1>2. \A t \in StoreDataTxs : StoreDataRule(t) =>
        Lines(lines(t)) /\ lines(t)[1] = <<Label("StoreData")>> /\ \A u \in StoreDataTxs : Fit(lines(t), lines(u)) =>
          t = u
  <2> SUFFICES ASSUME NEW t \in StoreDataTxs, StoreDataRule(t)
               PROVE  Lines(lines(t)) /\ lines(t)[1] = <<Label("StoreData")>> /\
                        \A u \in StoreDataTxs : Fit(lines(t), lines(u)) => t = u
    OBVIOUS
  <2>1. /\ t.subgrove_id \in Text /\ FieldRule(t.subgrove_id) /\ t.key \in Text /\ FieldRule(t.key) /\
             t.owner_did \in Text /\ FieldRule(t.owner_did)
    BY DEF StoreDataTxs, StoreDataRule
  <2>2. Unbroken(Line("Subgrove", t.subgrove_id)) /\
          \A u \in StoreDataTxs : Line("Subgrove", t.subgrove_id) = Line("Subgrove", u.subgrove_id) =>
          t.subgrove_id = u.subgrove_id
    BY <2>1, TextLine DEF StoreDataTxs
  <2>3. Unbroken(Line("Key", t.key)) /\ \A u \in StoreDataTxs : Line("Key", t.key) = Line("Key", u.key) =>
          t.key = u.key
    BY <2>1, TextLine DEF StoreDataTxs
  <2>4. Unbroken(Line("Owner", t.owner_did)) /\
          \A u \in StoreDataTxs : Line("Owner", t.owner_did) = Line("Owner", u.owner_did) => t.owner_did = u.owner_did
    BY <2>1, TextLine DEF StoreDataTxs
  <2>5. Unbroken(Line("DataHash", <<Sha256(t.data)>>)) /\
          \A u \in StoreDataTxs : Line("DataHash", <<Sha256(t.data)>>) = Line("DataHash", <<Sha256(u.data)>>) =>
          t.data = u.data
    BY HashLine
  <2>6. Unbroken(Line("Nonce", <<Number(t.nonce)>>)) /\
          \A u \in StoreDataTxs : Line("Nonce", <<Number(t.nonce)>>) = Line("Nonce", <<Number(u.nonce)>>) =>
          t.nonce = u.nonce
    BY NumberLine
  <2>7. Lines(lines(t)) /\ lines(t)[1] = <<Label("StoreData")>>
    BY <2>2, <2>3, <2>4, <2>5, <2>6, KindLine, Lines6
  <2>8. ASSUME NEW u \in StoreDataTxs, Fit(lines(t), lines(u)) PROVE t = u
    <3>1. PICK l1, l2, l3, l4, l5, l6 : l1 = <<Label("StoreData")>> /\ l2 = Line("Subgrove", t.subgrove_id) /\
                 l3 = Line("Key", t.key) /\ l4 = Line("Owner", t.owner_did) /\
                 l5 = Line("DataHash", <<Sha256(t.data)>>) /\ l6 = Line("Nonce", <<Number(t.nonce)>>)
      OBVIOUS
    <3>2. PICK r1, r2, r3, r4, r5, r6 : r1 = <<Label("StoreData")>> /\ r2 = Line("Subgrove", u.subgrove_id) /\
                 r3 = Line("Key", u.key) /\ r4 = Line("Owner", u.owner_did) /\
                 r5 = Line("DataHash", <<Sha256(u.data)>>) /\ r6 = Line("Nonce", <<Number(u.nonce)>>)
      OBVIOUS
    <3>3. Fit(<<l1, l2, l3, l4, l5, l6>>, <<r1, r2, r3, r4, r5, r6>>)
      BY <2>8, <3>1, <3>2
    <3>4. l1 = r1 /\ l2 = r2 /\ l3 = r3 /\ l4 = r4 /\ l5 = r5 /\ l6 = r6
      BY <3>3, Fit6
    <3>5. t.subgrove_id = u.subgrove_id /\ t.key = u.key /\ t.owner_did = u.owner_did /\ t.data = u.data /\
            t.nonce = u.nonce
      BY <3>1, <3>2, <3>4, <2>2, <2>3, <2>4, <2>5, <2>6
    <3> QED
      BY <3>5 DEF StoreDataTxs
  <2> QED
    BY <2>7, <2>8
<1>3. StoreDataMessage(tx) = JoinLines(lines(tx)) /\ Lines(lines(tx)) /\ lines(tx)[1] = <<Label("StoreData")>>
  BY <1>1, <1>2
<1>4. ASSUME NEW other \in StoreDataTxs, StoreDataRule(other),
             StoreDataMessage(other) = StoreDataMessage(tx) PROVE other = tx
  <2>1. Lines(lines(other)) /\ JoinLines(lines(tx)) = JoinLines(lines(other))
    BY <1>1, <1>2, <1>4
  <2>2. Fit(lines(tx), lines(other))
    <3> HIDE DEF lines
    <3> QED
      BY <1>3, <2>1, LinesBind
  <2> QED
    BY <1>2, <2>2
<1>5. Heads(StoreDataMessage(tx), "StoreData")
  <2> HIDE DEF lines
  <2> QED
    BY <1>3, LinesHeads
<1> QED
  BY <1>4, <1>5
\* The message of a deletion of a file is its kind and its fields.
LEMMA DeleteFileManifestBinds ==
  ASSUME NEW tx \in DeleteFileManifestTxs, DeleteFileManifestRule(tx)
  PROVE  /\ Heads(DeleteFileManifestMessage(tx), "DeleteFileManifest")
         /\ \A other \in DeleteFileManifestTxs : DeleteFileManifestRule(other) /\
              DeleteFileManifestMessage(other) = DeleteFileManifestMessage(tx) => other = tx
<1> DEFINE lines(t) == << <<Label("DeleteFileManifest")>>, Line("Subgrove", t.subgrove_id), Line("Key", t.file_key),
             Line("Owner", t.owner_did), Line("Nonce", <<Number(t.nonce)>>) >>
<1>1. \A t \in DeleteFileManifestTxs : DeleteFileManifestMessage(t) = JoinLines(lines(t))
  BY DEF DeleteFileManifestTxs, DeleteFileManifestMessage, Kind, NonceLine
<1>2. \A t \in DeleteFileManifestTxs : DeleteFileManifestRule(t) =>
        Lines(lines(t)) /\ lines(t)[1] = <<Label("DeleteFileManifest")>> /\
          \A u \in DeleteFileManifestTxs : Fit(lines(t), lines(u)) => t = u
  <2> SUFFICES ASSUME NEW t \in DeleteFileManifestTxs, DeleteFileManifestRule(t)
               PROVE  Lines(lines(t)) /\ lines(t)[1] = <<Label("DeleteFileManifest")>> /\
                        \A u \in DeleteFileManifestTxs : Fit(lines(t), lines(u)) => t = u
    OBVIOUS
  <2>1. /\ t.subgrove_id \in Text /\ FieldRule(t.subgrove_id) /\ t.file_key \in Text /\ FieldRule(t.file_key) /\
             t.owner_did \in Text /\ FieldRule(t.owner_did)
    BY DEF DeleteFileManifestTxs, DeleteFileManifestRule
  <2>2. Unbroken(Line("Subgrove", t.subgrove_id)) /\
          \A u \in DeleteFileManifestTxs : Line("Subgrove", t.subgrove_id) = Line("Subgrove", u.subgrove_id) =>
          t.subgrove_id = u.subgrove_id
    BY <2>1, TextLine DEF DeleteFileManifestTxs
  <2>3. Unbroken(Line("Key", t.file_key)) /\
          \A u \in DeleteFileManifestTxs : Line("Key", t.file_key) = Line("Key", u.file_key) =>
          t.file_key = u.file_key
    BY <2>1, TextLine DEF DeleteFileManifestTxs
  <2>4. Unbroken(Line("Owner", t.owner_did)) /\
          \A u \in DeleteFileManifestTxs : Line("Owner", t.owner_did) = Line("Owner", u.owner_did) =>
          t.owner_did = u.owner_did
    BY <2>1, TextLine DEF DeleteFileManifestTxs
  <2>5. Unbroken(Line("Nonce", <<Number(t.nonce)>>)) /\
          \A u \in DeleteFileManifestTxs : Line("Nonce", <<Number(t.nonce)>>) = Line("Nonce", <<Number(u.nonce)>>) =>
          t.nonce = u.nonce
    BY NumberLine
  <2>6. Lines(lines(t)) /\ lines(t)[1] = <<Label("DeleteFileManifest")>>
    BY <2>2, <2>3, <2>4, <2>5, KindLine, Lines5
  <2>7. ASSUME NEW u \in DeleteFileManifestTxs, Fit(lines(t), lines(u)) PROVE t = u
    <3>1. PICK l1, l2, l3, l4, l5 : l1 = <<Label("DeleteFileManifest")>> /\ l2 = Line("Subgrove", t.subgrove_id) /\
                 l3 = Line("Key", t.file_key) /\ l4 = Line("Owner", t.owner_did) /\
                 l5 = Line("Nonce", <<Number(t.nonce)>>)
      OBVIOUS
    <3>2. PICK r1, r2, r3, r4, r5 : r1 = <<Label("DeleteFileManifest")>> /\ r2 = Line("Subgrove", u.subgrove_id) /\
                 r3 = Line("Key", u.file_key) /\ r4 = Line("Owner", u.owner_did) /\
                 r5 = Line("Nonce", <<Number(u.nonce)>>)
      OBVIOUS
    <3>3. Fit(<<l1, l2, l3, l4, l5>>, <<r1, r2, r3, r4, r5>>)
      BY <2>7, <3>1, <3>2
    <3>4. l1 = r1 /\ l2 = r2 /\ l3 = r3 /\ l4 = r4 /\ l5 = r5
      BY <3>3, Fit5
    <3>5. t.subgrove_id = u.subgrove_id /\ t.file_key = u.file_key /\ t.owner_did = u.owner_did /\ t.nonce = u.nonce
      BY <3>1, <3>2, <3>4, <2>2, <2>3, <2>4, <2>5
    <3> QED
      BY <3>5 DEF DeleteFileManifestTxs
  <2> QED
    BY <2>6, <2>7
<1>3. DeleteFileManifestMessage(tx) = JoinLines(lines(tx)) /\ Lines(lines(tx)) /\
        lines(tx)[1] = <<Label("DeleteFileManifest")>>
  BY <1>1, <1>2
<1>4. ASSUME NEW other \in DeleteFileManifestTxs, DeleteFileManifestRule(other),
             DeleteFileManifestMessage(other) = DeleteFileManifestMessage(tx) PROVE other = tx
  <2>1. Lines(lines(other)) /\ JoinLines(lines(tx)) = JoinLines(lines(other))
    BY <1>1, <1>2, <1>4
  <2>2. Fit(lines(tx), lines(other))
    <3> HIDE DEF lines
    <3> QED
      BY <1>3, <2>1, LinesBind
  <2> QED
    BY <1>2, <2>2
<1>5. Heads(DeleteFileManifestMessage(tx), "DeleteFileManifest")
  <2> HIDE DEF lines
  <2> QED
    BY <1>3, LinesHeads
<1> QED
  BY <1>4, <1>5
\* The message of a storage node's departure is its kind and its fields.
LEMMA UnregisterBinds ==
  ASSUME NEW tx \in UnregisterTxs, UnregisterRule(tx)
  PROVE  /\ Heads(UnregisterMessage(tx), "UnregisterStorageNode")
         /\ \A other \in UnregisterTxs : UnregisterRule(other) /\ UnregisterMessage(other) = UnregisterMessage(tx) =>
              other = tx
<1> DEFINE lines(t) == << <<Label("UnregisterStorageNode")>>, Line("Node", t.node_did),
             Line("Nonce", <<Number(t.nonce)>>) >>
<1>1. \A t \in UnregisterTxs : UnregisterMessage(t) = JoinLines(lines(t))
  BY DEF UnregisterTxs, UnregisterMessage, Kind, NonceLine
<1>2. \A t \in UnregisterTxs : UnregisterRule(t) =>
        Lines(lines(t)) /\ lines(t)[1] = <<Label("UnregisterStorageNode")>> /\
          \A u \in UnregisterTxs : Fit(lines(t), lines(u)) => t = u
  <2> SUFFICES ASSUME NEW t \in UnregisterTxs, UnregisterRule(t)
               PROVE  Lines(lines(t)) /\ lines(t)[1] = <<Label("UnregisterStorageNode")>> /\
                        \A u \in UnregisterTxs : Fit(lines(t), lines(u)) => t = u
    OBVIOUS
  <2>1. /\ t.node_did \in Text /\ FieldRule(t.node_did)
    BY DEF UnregisterTxs, UnregisterRule
  <2>2. Unbroken(Line("Node", t.node_did)) /\
          \A u \in UnregisterTxs : Line("Node", t.node_did) = Line("Node", u.node_did) => t.node_did = u.node_did
    BY <2>1, TextLine DEF UnregisterTxs
  <2>3. Unbroken(Line("Nonce", <<Number(t.nonce)>>)) /\
          \A u \in UnregisterTxs : Line("Nonce", <<Number(t.nonce)>>) = Line("Nonce", <<Number(u.nonce)>>) =>
          t.nonce = u.nonce
    BY NumberLine
  <2>4. Lines(lines(t)) /\ lines(t)[1] = <<Label("UnregisterStorageNode")>>
    BY <2>2, <2>3, KindLine, Lines3
  <2>5. ASSUME NEW u \in UnregisterTxs, Fit(lines(t), lines(u)) PROVE t = u
    <3>1. PICK l1, l2, l3 : l1 = <<Label("UnregisterStorageNode")>> /\ l2 = Line("Node", t.node_did) /\
                 l3 = Line("Nonce", <<Number(t.nonce)>>)
      OBVIOUS
    <3>2. PICK r1, r2, r3 : r1 = <<Label("UnregisterStorageNode")>> /\ r2 = Line("Node", u.node_did) /\
                 r3 = Line("Nonce", <<Number(u.nonce)>>)
      OBVIOUS
    <3>3. Fit(<<l1, l2, l3>>, <<r1, r2, r3>>)
      BY <2>5, <3>1, <3>2
    <3>4. l1 = r1 /\ l2 = r2 /\ l3 = r3
      BY <3>3, Fit3
    <3>5. t.node_did = u.node_did /\ t.nonce = u.nonce
      BY <3>1, <3>2, <3>4, <2>2, <2>3
    <3> QED
      BY <3>5 DEF UnregisterTxs
  <2> QED
    BY <2>4, <2>5
<1>3. UnregisterMessage(tx) = JoinLines(lines(tx)) /\ Lines(lines(tx)) /\
        lines(tx)[1] = <<Label("UnregisterStorageNode")>>
  BY <1>1, <1>2
<1>4. ASSUME NEW other \in UnregisterTxs, UnregisterRule(other),
             UnregisterMessage(other) = UnregisterMessage(tx) PROVE other = tx
  <2>1. Lines(lines(other)) /\ JoinLines(lines(tx)) = JoinLines(lines(other))
    BY <1>1, <1>2, <1>4
  <2>2. Fit(lines(tx), lines(other))
    <3> HIDE DEF lines
    <3> QED
      BY <1>3, <2>1, LinesBind
  <2> QED
    BY <1>2, <2>2
<1>5. Heads(UnregisterMessage(tx), "UnregisterStorageNode")
  <2> HIDE DEF lines
  <2> QED
    BY <1>3, LinesHeads
<1> QED
  BY <1>4, <1>5

\* A byte field as sent is its bytes.
LEMMA SameBytes ==
  ASSUME NEW f \in ByteField, NEW g \in ByteField, f.bytes = g.bytes
  PROVE  ByteValues(f) = ByteValues(g) /\ (f.form = g.form => f = g)
<1> DEFINE B == List(0..(Base - 1))
<1> HIDE DEF B
<1>1. f \in [form : ByteForms, bytes : B] /\ g \in [form : ByteForms, bytes : B]
  BY DEF ByteField, B
<1> QED
  BY <1>1 DEF ByteValues

\* The line of a manifest's encryption.
LEMMA EncryptionTells ==
  ASSUME NEW o \in Optional(Encryptions), NEW r \in Optional(Encryptions)
  PROVE  Unbroken(EncryptionLine(o)) /\ (EncryptionLine(o) = EncryptionLine(r) => o = r)
<1> DEFINE value(x) == IF x = None THEN <<Word("none")>>
                       ELSE <<Number(x[1].key_epoch), Colon, Hex(x[1].nonce.bytes)>>
<1>1. ASSUME NEW n, NEW b PROVE Unbroken(<<Number(n), Colon, Hex(b)>>)
  <2>1. Len(<<Number(n), Colon, Hex(b)>>) = 3 /\ <<Number(n), Colon, Hex(b)>> \in Seq({Number(n), Colon, Hex(b)})
    OBVIOUS
  <2>2. \A i \in 1..3 : <<Number(n), Colon, Hex(b)>>[i] # LineBreak
    BY TokenFacts
  <2> QED
    BY <2>1, <2>2 DEF Unbroken, IsSeq
<1>2. ASSUME NEW x \in Optional(Encryptions) PROVE Unbroken(value(x)) /\
             EncryptionLine(x) = Line("Encryption", value(x))
  <2>1. Unbroken(<<Word("none")>>)
    BY TokenFacts, TokenUnbroken
  <2> QED
    BY <1>1, <2>1 DEF EncryptionLine
<1>3. Unbroken(value(o)) /\ Unbroken(value(r)) /\ EncryptionLine(o) = Line("Encryption", value(o)) /\
        EncryptionLine(r) = Line("Encryption", value(r))
  BY <1>2
<1>4. Unbroken(EncryptionLine(o)) /\ (EncryptionLine(o) = EncryptionLine(r) => value(o) = value(r))
  <2> HIDE DEF value
  <2> QED
    BY <1>3, LineFacts DEF Unbroken
<1>5. ASSUME value(o) = value(r) PROVE o = r
  <2>1. o = None <=> r = None
    <3>1. \A n, b : <<Number(n), Colon, Hex(b)>> # <<Word("none")>>
      BY TokenFacts
    <3> QED
      BY <1>5, <3>1
  <2>2. CASE o # None
    <3>1. PICK e, f : e = o[1] /\ f = r[1]
      OBVIOUS
    <3>2. o = Some(e) /\ r = Some(f) /\ e \in Encryptions /\ f \in Encryptions
      BY <2>1, <2>2, <3>1, OptionalFacts
    <3>3. <<Number(e.key_epoch), Colon, Hex(e.nonce.bytes)>> = <<Number(f.key_epoch), Colon, Hex(f.nonce.bytes)>>
      BY <1>5, <2>1, <2>2, <3>1
    <3>4. Number(e.key_epoch) = Number(f.key_epoch) /\ Hex(e.nonce.bytes) = Hex(f.nonce.bytes)
      BY <3>3
    <3>5. e.key_epoch = f.key_epoch /\ e.nonce.bytes = f.nonce.bytes
      BY <3>4, TokenFacts
    <3> HIDE DEF ByteField
    <3>6. e.nonce \in ByteField /\ f.nonce \in ByteField /\ e.nonce.form = f.nonce.form
      BY <3>2 DEF Encryptions
    <3>7. e.nonce = f.nonce
      BY <3>5, <3>6, SameBytes
    <3>8. e = f
      BY <3>2, <3>5, <3>7 DEF Encryptions
    <3> QED
      BY <3>2, <3>8
  <2> QED
    BY <2>1, <2>2
<1> QED
  BY <1>4, <1>5

\* The message of a file's manifest is its kind and its fields as sent.
LEMMA StoreFileManifestBinds ==
  ASSUME NEW tx \in StoreFileManifestTxs, StoreFileManifestRule(tx)
  PROVE  /\ Heads(StoreFileManifestMessage(tx), "StoreFileManifest")
         /\ \A other \in StoreFileManifestTxs :
              StoreFileManifestRule(other) /\ StoreFileManifestMessage(other) = StoreFileManifestMessage(tx)
                => WireBody(other) = WireBody(tx)
<1> DEFINE lines(t) ==
             << <<Label("StoreFileManifest")>>, Line("Subgrove", t.subgrove_id), Line("Key", t.file_key),
                Line("Owner", t.owner_did), Line("Filename", t.filename), Line("ContentType", t.content_type),
                Line("TotalSize", <<Number(t.total_size)>>), Line("ContentHash", <<Hex(t.content_hash.bytes)>>),
                Line("ChunkCount", <<Number(t.chunk_count)>>), Line("ChunkSize", <<Number(t.chunk_size)>>),
                Line("ChunkMerkleRoot", <<Hex(t.chunk_merkle_root.bytes)>>), EncryptionLine(t.encryption),
                Line("Nonce", <<Number(t.nonce)>>) >>
<1> USE DEF StoreFileManifestTxs
<1> HIDE DEF Text, ByteField, Encryptions
<1>1. \A t \in StoreFileManifestTxs : StoreFileManifestMessage(t) = JoinLines(lines(t)) /\
        t.kind = "StoreFileManifest"
  BY DEF StoreFileManifestMessage, Kind, NonceLine
<1>2. ASSUME NEW t \in StoreFileManifestTxs, StoreFileManifestRule(t)
      PROVE  /\ Lines(lines(t)) /\ lines(t)[1] = <<Label("StoreFileManifest")>>
             /\ \A u \in StoreFileManifestTxs : Fit(lines(t), lines(u)) => WireBody(t) = WireBody(u)
  <2>1. /\ t.subgrove_id \in Text /\ FieldRule(t.subgrove_id)
        /\ t.file_key \in Text /\ FieldRule(t.file_key)
        /\ t.owner_did \in Text /\ FieldRule(t.owner_did)
        /\ t.filename \in Text /\ FieldRule(t.filename)
        /\ t.content_type \in Text /\ FieldRule(t.content_type)
    BY <1>2 DEF StoreFileManifestRule
  <2>2. Unbroken(Line("Subgrove", t.subgrove_id))
        /\ \A u \in StoreFileManifestTxs : Line("Subgrove", t.subgrove_id) = Line("Subgrove", u.subgrove_id) =>
             t.subgrove_id = u.subgrove_id
    BY <2>1, TextLine
  <2>3. Unbroken(Line("Key", t.file_key))
        /\ \A u \in StoreFileManifestTxs : Line("Key", t.file_key) = Line("Key", u.file_key) =>
             t.file_key = u.file_key
    BY <2>1, TextLine
  <2>4. Unbroken(Line("Owner", t.owner_did))
        /\ \A u \in StoreFileManifestTxs : Line("Owner", t.owner_did) = Line("Owner", u.owner_did) =>
             t.owner_did = u.owner_did
    BY <2>1, TextLine
  <2>5. Unbroken(Line("Filename", t.filename))
        /\ \A u \in StoreFileManifestTxs : Line("Filename", t.filename) = Line("Filename", u.filename) =>
             t.filename = u.filename
    BY <2>1, TextLine
  <2>6. Unbroken(Line("ContentType", t.content_type))
        /\ \A u \in StoreFileManifestTxs : Line("ContentType", t.content_type) = Line("ContentType",
             u.content_type) => t.content_type = u.content_type
    BY <2>1, TextLine
  <2>7. Unbroken(Line("TotalSize", <<Number(t.total_size)>>))
        /\ \A u \in StoreFileManifestTxs : Line("TotalSize", <<Number(t.total_size)>>) = Line("TotalSize",
             <<Number(u.total_size)>>) => t.total_size = u.total_size
    BY NumberLine
  <2>8. Unbroken(Line("ContentHash", <<Hex(t.content_hash.bytes)>>))
        /\ \A u \in StoreFileManifestTxs : Line("ContentHash", <<Hex(t.content_hash.bytes)>>) = Line("ContentHash",
             <<Hex(u.content_hash.bytes)>>) => t.content_hash.bytes = u.content_hash.bytes
    BY HexLine
  <2>9. Unbroken(Line("ChunkCount", <<Number(t.chunk_count)>>))
        /\ \A u \in StoreFileManifestTxs : Line("ChunkCount", <<Number(t.chunk_count)>>) = Line("ChunkCount",
             <<Number(u.chunk_count)>>) => t.chunk_count = u.chunk_count
    BY NumberLine
  <2>10. Unbroken(Line("ChunkSize", <<Number(t.chunk_size)>>))
        /\ \A u \in StoreFileManifestTxs : Line("ChunkSize", <<Number(t.chunk_size)>>) = Line("ChunkSize",
             <<Number(u.chunk_size)>>) => t.chunk_size = u.chunk_size
    BY NumberLine
  <2>11. Unbroken(Line("ChunkMerkleRoot", <<Hex(t.chunk_merkle_root.bytes)>>))
        /\ \A u \in StoreFileManifestTxs : Line("ChunkMerkleRoot",
             <<Hex(t.chunk_merkle_root.bytes)>>) = Line("ChunkMerkleRoot", <<Hex(u.chunk_merkle_root.bytes)>>) =>
             t.chunk_merkle_root.bytes = u.chunk_merkle_root.bytes
    BY HexLine
  <2>12. Unbroken(EncryptionLine(t.encryption))
        /\ \A u \in StoreFileManifestTxs : EncryptionLine(t.encryption) = EncryptionLine(u.encryption) =>
             t.encryption = u.encryption
    BY EncryptionTells
  <2>13. Unbroken(Line("Nonce", <<Number(t.nonce)>>))
        /\ \A u \in StoreFileManifestTxs : Line("Nonce", <<Number(t.nonce)>>) = Line("Nonce", <<Number(u.nonce)>>) =>
             t.nonce = u.nonce
    BY NumberLine
  <2>14. Lines(lines(t)) /\ lines(t)[1] = <<Label("StoreFileManifest")>>
    BY <2>2, <2>3, <2>4, <2>5, <2>6, <2>7, <2>8, <2>9, <2>10, <2>11, <2>12, <2>13, KindLine, Lines13
  <2>15. ASSUME NEW u \in StoreFileManifestTxs, Fit(lines(t), lines(u)) PROVE WireBody(t) = WireBody(u)
    <3>1. PICK l1, l2, l3, l4, l5, l6, l7, l8, l9, l10, l11, l12, l13 :
            /\ l1 = <<Label("StoreFileManifest")>> /\ l2 = Line("Subgrove", t.subgrove_id)
            /\ l3 = Line("Key", t.file_key) /\ l4 = Line("Owner", t.owner_did) /\ l5 = Line("Filename", t.filename)
            /\ l6 = Line("ContentType", t.content_type) /\ l7 = Line("TotalSize", <<Number(t.total_size)>>)
            /\ l8 = Line("ContentHash", <<Hex(t.content_hash.bytes)>>)
            /\ l9 = Line("ChunkCount", <<Number(t.chunk_count)>>) /\ l10 = Line("ChunkSize", <<Number(t.chunk_size)>>)
            /\ l11 = Line("ChunkMerkleRoot", <<Hex(t.chunk_merkle_root.bytes)>>) /\ l12 = EncryptionLine(t.encryption)
            /\ l13 = Line("Nonce", <<Number(t.nonce)>>)
      OBVIOUS
    <3>2. PICK r1, r2, r3, r4, r5, r6, r7, r8, r9, r10, r11, r12, r13 :
            /\ r1 = <<Label("StoreFileManifest")>> /\ r2 = Line("Subgrove", u.subgrove_id)
            /\ r3 = Line("Key", u.file_key) /\ r4 = Line("Owner", u.owner_did) /\ r5 = Line("Filename", u.filename)
            /\ r6 = Line("ContentType", u.content_type) /\ r7 = Line("TotalSize", <<Number(u.total_size)>>)
            /\ r8 = Line("ContentHash", <<Hex(u.content_hash.bytes)>>)
            /\ r9 = Line("ChunkCount", <<Number(u.chunk_count)>>) /\ r10 = Line("ChunkSize", <<Number(u.chunk_size)>>)
            /\ r11 = Line("ChunkMerkleRoot", <<Hex(u.chunk_merkle_root.bytes)>>) /\ r12 = EncryptionLine(u.encryption)
            /\ r13 = Line("Nonce", <<Number(u.nonce)>>)
      OBVIOUS
    <3>3. Fit(<<l1, l2, l3, l4, l5, l6, l7, l8, l9, l10, l11, l12, l13>>,
            <<r1, r2, r3, r4, r5, r6, r7, r8, r9, r10, r11, r12, r13>>)
      BY <2>15, <3>1, <3>2
    <3>4. /\ l1 = r1 /\ l2 = r2 /\ l3 = r3 /\ l4 = r4 /\ l5 = r5 /\ l6 = r6 /\ l7 = r7 /\ l8 = r8 /\ l9 = r9
          /\ l10 = r10 /\ l11 = r11 /\ l12 = r12 /\ l13 = r13
      BY <3>3, Fit13
    <3>5. /\ t.subgrove_id = u.subgrove_id /\ t.file_key = u.file_key /\ t.owner_did = u.owner_did
          /\ t.filename = u.filename /\ t.content_type = u.content_type /\ t.total_size = u.total_size
          /\ t.content_hash.bytes = u.content_hash.bytes /\ t.chunk_count = u.chunk_count
          /\ t.chunk_size = u.chunk_size /\ t.chunk_merkle_root.bytes = u.chunk_merkle_root.bytes
          /\ t.encryption = u.encryption /\ t.nonce = u.nonce
      BY <3>1, <3>2, <3>4, <2>2, <2>3, <2>4, <2>5, <2>6, <2>7, <2>8, <2>9, <2>10, <2>11, <2>12, <2>13
    <3>6. ByteValues(t.content_hash) = ByteValues(u.content_hash)
          /\ ByteValues(t.chunk_merkle_root) = ByteValues(u.chunk_merkle_root)
      BY <3>5, SameBytes
    <3>7. PICK h, m : h = ByteValues(t.content_hash) /\ m = ByteValues(t.chunk_merkle_root)
      OBVIOUS
    <3>8. WireBody(t) = [t EXCEPT !.content_hash = h, !.chunk_merkle_root = m]
          /\ WireBody(u) = [u EXCEPT !.content_hash = h, !.chunk_merkle_root = m]
      BY <1>1, <3>6, <3>7 DEF WireBody
    <3>9. [t EXCEPT !.content_hash = h, !.chunk_merkle_root = m] = [u EXCEPT !.content_hash = h,
            !.chunk_merkle_root = m]
      BY <3>5
    <3> QED
      BY <3>8, <3>9
  <2> QED
    BY <2>14, <2>15
<1>3. StoreFileManifestMessage(tx) = JoinLines(lines(tx)) /\ Lines(lines(tx)) /\
        lines(tx)[1] = <<Label("StoreFileManifest")>>
  BY <1>1, <1>2
<1>4. ASSUME NEW other \in StoreFileManifestTxs, StoreFileManifestRule(other),
             StoreFileManifestMessage(other) = StoreFileManifestMessage(tx)
      PROVE  WireBody(other) = WireBody(tx)
  <2>1. Lines(lines(other)) /\ JoinLines(lines(tx)) = JoinLines(lines(other))
    BY <1>1, <1>2, <1>4
  <2>2. Fit(lines(tx), lines(other))
    <3> HIDE DEF lines
    <3> QED
      BY <1>3, <2>1, LinesBind
  <2> QED
    BY <1>2, <2>2
<1>5. Heads(StoreFileManifestMessage(tx), "StoreFileManifest")
  <2> HIDE DEF lines
  <2> QED
    BY <1>3, LinesHeads
<1> QED
  BY <1>4, <1>5

\* The message of a registration binds every field of the body: the schema by
\* its text, every other field by the hash of the bincode.
LEMMA RegisterSubgroveBinds ==
  ASSUME NEW tx \in RegisterSubgroveTxs, ModeRule(tx), RegisterSubgroveRule(ToDict(tx))
  PROVE  /\ Heads(RegisterSubgroveMessage(ToDict(tx)), "RegisterSubgrove")
         /\ \A other \in RegisterSubgroveTxs :
              /\ ModeRule(other) /\ RegisterSubgroveRule(ToDict(other))
              /\ RegisterSubgroveMessage(ToDict(other)) = RegisterSubgroveMessage(ToDict(tx))
              /\ other.schema.text = tx.schema.text => other.schema = tx.schema
              => Normalize(ToDict(other)) = Normalize(ToDict(tx))
<1> DEFINE body(t) == Normalize(ToDict(t))
           lines(t) == << <<Label("RegisterSubgrove")>>, Line("Subgrove", t.subgrove_id), Line("Owner", t.owner_did),
                          Line("Config", <<Sha256(UnsignedBincode(body(t)))>>), Line("Nonce", <<Number(t.nonce)>>) >>
           Ruled(t) == t \in RegisterSubgroveTxs /\ ModeRule(t) /\ RegisterSubgroveRule(ToDict(t))
<1>1. ASSUME NEW t, Ruled(t)
      PROVE  /\ RegisterSubgroveMessage(ToDict(t)) = JoinLines(lines(t))
             /\ t.subgrove_id \in Text /\ FieldRule(t.subgrove_id) /\ t.owner_did \in Text /\ FieldRule(t.owner_did)
             /\ BodySent(body(t))
  <2>1. ToDict(t).subgrove_id = t.subgrove_id /\ ToDict(t).owner_did = t.owner_did /\ ToDict(t).nonce = t.nonce
    BY <1>1, BodyFields
  <2>2. BodySent(body(t))
    BY <1>1, BodyIsSent DEF RegisterSubgroveRule
  <2>3. body(t).subgrove_id = t.subgrove_id /\ body(t).owner_did = t.owner_did
    BY <1>1, BodyFields
  <2>4. t.subgrove_id \in Text /\ t.owner_did \in Text
    BY <2>2, <2>3 DEF BodySent, BodyTexts
  <2> HIDE DEF body
  <2>5. RegisterSubgroveMessage(ToDict(t)) = JoinLines(lines(t))
    BY <2>1 DEF RegisterSubgroveMessage, body
  <2> QED
    BY <1>1, <2>1, <2>2, <2>4, <2>5 DEF RegisterSubgroveRule
<1> HIDE DEF body
<1>2. ASSUME NEW t, Ruled(t)
      PROVE  /\ Lines(lines(t)) /\ lines(t)[1] = <<Label("RegisterSubgrove")>>
             /\ \A u : Ruled(u) /\ Fit(lines(t), lines(u)) => UnsignedBincode(body(t)) = UnsignedBincode(body(u))
  <2>1. Unbroken(Line("Subgrove", t.subgrove_id)) /\ Unbroken(Line("Owner", t.owner_did))
    BY <1>1, <1>2, TextLine
  <2>2. Unbroken(Line("Nonce", <<Number(t.nonce)>>))
    BY NumberLine
  <2>3. \A x : Unbroken(Line("Config", <<Sha256(x)>>)) /\
          \A y : Line("Config", <<Sha256(x)>>) = Line("Config", <<Sha256(y)>>) => x = y
    BY HashLine
  <2>4. Lines(lines(t)) /\ lines(t)[1] = <<Label("RegisterSubgrove")>>
    BY <2>1, <2>2, <2>3, KindLine, Lines5
  <2>5. ASSUME NEW u, Ruled(u), Fit(lines(t), lines(u)) PROVE UnsignedBincode(body(t)) = UnsignedBincode(body(u))
    <3>1. PICK x, y : x = UnsignedBincode(body(t)) /\ y = UnsignedBincode(body(u))
      OBVIOUS
    <3>2. PICK l1, l2, l3, l4, l5 :
            /\ l1 = <<Label("RegisterSubgrove")>> /\ l2 = Line("Subgrove", t.subgrove_id) /\
                 l3 = Line("Owner", t.owner_did)
            /\ l4 = Line("Config", <<Sha256(x)>>) /\ l5 = Line("Nonce", <<Number(t.nonce)>>)
      OBVIOUS
    <3>3. PICK r1, r2, r3, r4, r5 :
            /\ r1 = <<Label("RegisterSubgrove")>> /\ r2 = Line("Subgrove", u.subgrove_id) /\
                 r3 = Line("Owner", u.owner_did)
            /\ r4 = Line("Config", <<Sha256(y)>>) /\ r5 = Line("Nonce", <<Number(u.nonce)>>)
      OBVIOUS
    <3>4. Fit(<<l1, l2, l3, l4, l5>>, <<r1, r2, r3, r4, r5>>)
      BY <2>5, <3>1, <3>2, <3>3
    <3>5. l4 = r4
      BY <3>4, Fit5
    <3> QED
      BY <2>3, <3>1, <3>2, <3>3, <3>5
  <2> QED
    BY <2>4, <2>5
<1>3. Ruled(tx)
  OBVIOUS
<1>4. ASSUME NEW other \in RegisterSubgroveTxs, ModeRule(other), RegisterSubgroveRule(ToDict(other)),
             RegisterSubgroveMessage(ToDict(other)) = RegisterSubgroveMessage(ToDict(tx)),
             other.schema.text = tx.schema.text => other.schema = tx.schema
      PROVE  body(other) = body(tx)
  <2>1. Ruled(other)
    BY <1>4
  <2>2. UnsignedBincode(body(tx)) = UnsignedBincode(body(other))
    <3>1. /\ Lines(lines(tx)) /\ Lines(lines(other)) /\ JoinLines(lines(tx)) = JoinLines(lines(other))
          /\ Fit(lines(tx), lines(other)) => UnsignedBincode(body(tx)) = UnsignedBincode(body(other))
      BY <1>1, <1>2, <1>3, <1>4, <2>1
    <3> HIDE DEF lines
    <3> QED
      BY <3>1, LinesBind
  <2>3. SameFields(body(tx), body(other))
    BY <1>1, <1>3, <2>1, <2>2, BincodeTells
  <2>4. PICK b, c : b = body(tx) /\ c = body(other)
    OBVIOUS
  <2>5. /\ b = [z \in DOMAIN tx |-> b[z]] /\ c = [z \in DOMAIN other |-> c[z]]
        /\ b.kind = "RegisterSubgrove" /\ c.kind = "RegisterSubgrove"
        /\ b.schema = tx.schema /\ c.schema = other.schema
        /\ b.retention_window = None /\ c.retention_window = None
    BY <2>4, BodyFields DEF body
  <2>6. DOMAIN tx = DOMAIN other /\
        DOMAIN tx = {"kind", "subgrove_id", "name", "description", "schema", "owner_did", "admins", "initial_funding",
                     "required_tee", "mode", "privacy", "initial_owner_key_grant", "template_config",
                     "confirmation_depth", "public_key_id", "nonce", "cryptographic_completeness", "retention_window"}
    BY DEF RegisterSubgroveTxs
  <2>7. b.schema = c.schema
    BY <1>4, <2>3, <2>4, <2>5 DEF SameFields
  <2>8. \A z \in DOMAIN tx : b[z] = c[z]
    BY <2>3, <2>4, <2>5, <2>6, <2>7 DEF SameFields
  <2> QED
    BY <2>4, <2>5, <2>6, <2>8
<1>5. Heads(RegisterSubgroveMessage(ToDict(tx)), "RegisterSubgrove")
  <2>1. RegisterSubgroveMessage(ToDict(tx)) = JoinLines(lines(tx)) /\ Lines(lines(tx)) /\
          lines(tx)[1] = <<Label("RegisterSubgrove")>>
    BY <1>1, <1>2, <1>3
  <2> HIDE DEF lines
  <2> QED
    BY <2>1, LinesHeads
<1> QED
  BY <1>4, <1>5 DEF body

\* Lines after lines.
LEMMA LinesCat ==
  ASSUME NEW lines, NEW more, Lines(lines), Lines(more)
  PROVE  Lines(lines \o more) /\ (lines \o more)[1] = lines[1]
<1>1. /\ IsSeq(lines \o more) /\ Len(lines) \in Nat /\ Len(more) \in Nat /\
           Len(lines \o more) = Len(lines) + Len(more)
      /\ \A i \in 1..Len(lines) : (lines \o more)[i] = lines[i]
      /\ \A i \in 1..Len(more) : (lines \o more)[Len(lines) + i] = more[i]
  BY CatFacts DEF Lines
<1>2. 1 \in 1..Len(lines)
  BY <1>1 DEF Lines
<1>3. ASSUME NEW i \in 1..Len(lines \o more) PROVE Unbroken((lines \o more)[i])
  <2>1. CASE i =< Len(lines)
    <3>1. i \in 1..Len(lines)
      BY <1>1, <2>1
    <3> QED
      BY <1>1, <3>1 DEF Lines
  <2>2. CASE i > Len(lines)
    <3>1. PICK j \in 1..Len(more) : i = Len(lines) + j
      <4>1. i - Len(lines) \in 1..Len(more) /\ i = Len(lines) + (i - Len(lines))
        BY <1>1, <2>2
      <4> QED
        BY <4>1
    <3> QED
      BY <1>1, <3>1 DEF Lines
  <2> QED
    BY <1>1, <2>1, <2>2
<1> QED
  BY <1>1, <1>2, <1>3 DEF Lines

\* What is in every part is in the parts joined.
LEMMA FlattenIn ==
  ASSUME NEW parts, Parts(parts), NEW S, \A i \in 1..Len(parts) : \A j \in 1..Len(parts[i]) : parts[i][j] \in S
  PROVE  \A j \in 1..Len(FlattenSeq(parts)) : FlattenSeq(parts)[j] \in S
<1>1. PICK f : Joins(f, parts)
  BY JoinsExist
<1>2. Len(parts) \in Nat
  BY SeqFacts DEF Parts
<1> DEFINE bad == {k \in 0..Len(parts) : \E j \in 1..Len(f[k]) : f[k][j] \notin S}
<1>3. bad = {}
  <2> SUFFICES ASSUME bad # {} PROVE FALSE
    OBVIOUS
  <2>1. bad \subseteq Nat
    BY <1>2
  <2>2. PICK k \in bad : \A m \in bad : k =< m
    <3> HIDE DEF bad
    <3> QED
      BY <2>1, LeastNat
  <2>3. k \in 0..Len(parts) /\ \E j \in 1..Len(f[k]) : f[k][j] \notin S
    BY <2>2
  <2>4. k # 0
    <3>1. f[0] = << >> /\ Len(<< >>) = 0
      BY <1>1 DEF Joins
    <3> QED
      BY <2>3, <3>1
  <2>5. PICK m \in 0..Len(parts) : m = k - 1
    BY <1>2, <2>3, <2>4
  <2>6. m \notin bad /\ k \in 1..Len(parts)
    <3>1. k \in 1..Len(parts) /\ ~(k =< m)
      BY <1>2, <2>3, <2>4, <2>5
    <3> HIDE DEF bad
    <3> QED
      BY <2>2, <3>1
  <2>7. \A j \in 1..Len(f[m]) : f[m][j] \in S
    BY <2>6
  <2>8. PICK p, q : p = f[m] /\ q = parts[k]
    OBVIOUS
  <2>9. f[k] = p \o q /\ IsSeq(p) /\ IsSeq(q) /\ (\A j \in 1..Len(p) : p[j] \in S) /\
          (\A j \in 1..Len(q) : q[j] \in S)
    BY <1>1, <2>5, <2>6, <2>7, <2>8 DEF Joins, Parts
  <2>10. \A j \in 1..Len(p \o q) : (p \o q)[j] \in S
    <3>1. /\ Len(p) \in Nat /\ Len(q) \in Nat /\ Len(p \o q) = Len(p) + Len(q)
          /\ \A i \in 1..Len(p) : (p \o q)[i] = p[i]
          /\ \A i \in 1..Len(q) : (p \o q)[Len(p) + i] = q[i]
      BY <2>9, CatFacts
    <3> TAKE j \in 1..Len(p \o q)
    <3>2. CASE j =< Len(p)
      <4>1. j \in 1..Len(p)
        BY <3>1, <3>2
      <4> QED
        BY <2>9, <3>1, <4>1
    <3>3. CASE j > Len(p)
      <4>1. PICK i \in 1..Len(q) : j = Len(p) + i
        <5>1. j - Len(p) \in 1..Len(q) /\ j = Len(p) + (j - Len(p))
          BY <3>1, <3>3
        <5> QED
          BY <5>1
      <4> QED
        BY <2>9, <3>1, <4>1
    <3> QED
      BY <3>1, <3>2, <3>3
  <2> QED
    BY <2>3, <2>9, <2>10
<1>4. Len(parts) \in 0..Len(parts) /\ FlattenSeq(parts) = f[Len(parts)]
  BY <1>1, <1>2, FlattenJoins
<1> QED
  BY <1>3, <1>4

\* The lines of a grant are its fields as sent.
LEMMA GrantLinesTell ==
  ASSUME NEW g \in EncryptedKeyGrants, GrantFields(g)
  PROVE  /\ Lines(GrantLines(g)) /\ Len(GrantLines(g)) = 7
         /\ \A h \in EncryptedKeyGrants : Fit(GrantLines(g), GrantLines(h)) => GrantLines(g) = GrantLines(h) /\
              KeyGrant(g) = KeyGrant(h)
<1> USE DEF EncryptedKeyGrants
<1> HIDE DEF Text, ByteField
<1>1. /\ g.grantee_did \in Text /\ FieldRule(g.grantee_did)
      /\ g.grantee_public_key_id \in Text /\ FieldRule(g.grantee_public_key_id)
      /\ g.granted_by \in Text /\ FieldRule(g.granted_by)
  BY DEF GrantFields
<1>2. Unbroken(Line("Grantee", g.grantee_did))
      /\ \A h \in EncryptedKeyGrants : Line("Grantee", g.grantee_did) = Line("Grantee", h.grantee_did) =>
           g.grantee_did = h.grantee_did
  BY <1>1, TextLine
<1>3. Unbroken(Line("GranteeKey", g.grantee_public_key_id))
      /\ \A h \in EncryptedKeyGrants : Line("GranteeKey", g.grantee_public_key_id) = Line("GranteeKey",
           h.grantee_public_key_id) => g.grantee_public_key_id = h.grantee_public_key_id
  BY <1>1, TextLine
<1>4. Unbroken(Line("KeyEpoch", <<Number(g.key_epoch)>>))
      /\ \A h \in EncryptedKeyGrants : Line("KeyEpoch", <<Number(g.key_epoch)>>) = Line("KeyEpoch",
           <<Number(h.key_epoch)>>) => g.key_epoch = h.key_epoch
  BY NumberLine
<1>5. Unbroken(Line("EphemeralKey", <<Hex(g.ephemeral_public_key.bytes)>>))
      /\ \A h \in EncryptedKeyGrants : Line("EphemeralKey",
           <<Hex(g.ephemeral_public_key.bytes)>>) = Line("EphemeralKey", <<Hex(h.ephemeral_public_key.bytes)>>) =>
           g.ephemeral_public_key.bytes = h.ephemeral_public_key.bytes
  BY HexLine
<1>6. Unbroken(Line("EncryptedKey", <<Hex(g.encrypted_key.bytes)>>))
      /\ \A h \in EncryptedKeyGrants : Line("EncryptedKey", <<Hex(g.encrypted_key.bytes)>>) = Line("EncryptedKey",
           <<Hex(h.encrypted_key.bytes)>>) => g.encrypted_key.bytes = h.encrypted_key.bytes
  BY HexLine
<1>7. Unbroken(Line("GrantedBy", g.granted_by))
      /\ \A h \in EncryptedKeyGrants : Line("GrantedBy", g.granted_by) = Line("GrantedBy", h.granted_by) =>
           g.granted_by = h.granted_by
  BY <1>1, TextLine
<1>8. Unbroken(Line("GrantedAt", <<Number(g.granted_at)>>))
      /\ \A h \in EncryptedKeyGrants : Line("GrantedAt", <<Number(g.granted_at)>>) = Line("GrantedAt",
           <<Number(h.granted_at)>>) => g.granted_at = h.granted_at
  BY NumberLine
<1>9. Lines(GrantLines(g)) /\ Len(GrantLines(g)) = 7
  BY <1>2, <1>3, <1>4, <1>5, <1>6, <1>7, <1>8, Lines7 DEF GrantLines
<1>10. ASSUME NEW h \in EncryptedKeyGrants, Fit(GrantLines(g), GrantLines(h))
      PROVE  GrantLines(g) = GrantLines(h) /\ KeyGrant(g) = KeyGrant(h)
  <2>1. PICK l1, l2, l3, l4, l5, l6, l7 :
          /\ l1 = Line("Grantee", g.grantee_did) /\ l2 = Line("GranteeKey", g.grantee_public_key_id)
          /\ l3 = Line("KeyEpoch", <<Number(g.key_epoch)>>)
          /\ l4 = Line("EphemeralKey", <<Hex(g.ephemeral_public_key.bytes)>>)
          /\ l5 = Line("EncryptedKey", <<Hex(g.encrypted_key.bytes)>>) /\ l6 = Line("GrantedBy", g.granted_by)
          /\ l7 = Line("GrantedAt", <<Number(g.granted_at)>>)
    OBVIOUS
  <2>2. PICK r1, r2, r3, r4, r5, r6, r7 :
          /\ r1 = Line("Grantee", h.grantee_did) /\ r2 = Line("GranteeKey", h.grantee_public_key_id)
          /\ r3 = Line("KeyEpoch", <<Number(h.key_epoch)>>)
          /\ r4 = Line("EphemeralKey", <<Hex(h.ephemeral_public_key.bytes)>>)
          /\ r5 = Line("EncryptedKey", <<Hex(h.encrypted_key.bytes)>>) /\ r6 = Line("GrantedBy", h.granted_by)
          /\ r7 = Line("GrantedAt", <<Number(h.granted_at)>>)
    OBVIOUS
  <2>3. GrantLines(g) = <<l1, l2, l3, l4, l5, l6, l7>> /\ GrantLines(h) = <<r1, r2, r3, r4, r5, r6, r7>>
    BY <2>1, <2>2 DEF GrantLines
  <2>4. l1 = r1 /\ l2 = r2 /\ l3 = r3 /\ l4 = r4 /\ l5 = r5 /\ l6 = r6 /\ l7 = r7
    BY <1>10, <2>3, Fit7
  <2>5. /\ g.grantee_did = h.grantee_did /\ g.grantee_public_key_id = h.grantee_public_key_id
        /\ g.key_epoch = h.key_epoch /\ g.ephemeral_public_key.bytes = h.ephemeral_public_key.bytes
        /\ g.encrypted_key.bytes = h.encrypted_key.bytes /\ g.granted_by = h.granted_by
        /\ g.granted_at = h.granted_at
    BY <2>1, <2>2, <2>4, <1>2, <1>3, <1>4, <1>5, <1>6, <1>7, <1>8
  <2>6. ByteValues(g.ephemeral_public_key) = ByteValues(h.ephemeral_public_key)
        /\ ByteValues(g.encrypted_key) = ByteValues(h.encrypted_key)
    BY <2>5, SameBytes
  <2>7. PICK e, k : e = ByteValues(g.ephemeral_public_key) /\ k = ByteValues(g.encrypted_key)
    OBVIOUS
  <2>8. KeyGrant(g) = [g EXCEPT !.ephemeral_public_key = e, !.encrypted_key = k]
        /\ KeyGrant(h) = [h EXCEPT !.ephemeral_public_key = e, !.encrypted_key = k]
    BY <2>6, <2>7 DEF KeyGrant
  <2>9. [g EXCEPT !.ephemeral_public_key = e, !.encrypted_key = k] = [h EXCEPT !.ephemeral_public_key = e,
          !.encrypted_key = k]
    BY <2>5
  <2> QED
    BY <2>3, <2>4, <2>8, <2>9
<1> QED
  BY <1>9, <1>10

\* The message of a grant is its kind and its fields as sent.
LEMMA GrantBinds ==
  ASSUME NEW tx \in GrantTxs, GrantRule(tx)
  PROVE  /\ Heads(GrantMessage(tx), "GrantSubgroveKey")
         /\ \A other \in GrantTxs :
              GrantRule(other) /\ GrantMessage(other) = GrantMessage(tx) => WireBody(other) = WireBody(tx)
<1> DEFINE front(t) == << <<Label("GrantSubgroveKey")>>, Line("Subgrove", t.subgrove_id),
             Line("Sender", t.sender_did) >>
           back(t) == << Line("Nonce", <<Number(t.nonce)>>) >>
           lines(t) == front(t) \o GrantLines(t.grant) \o back(t)
<1> USE DEF GrantTxs
<1> HIDE DEF Text, EncryptedKeyGrants
<1>1. \A t \in GrantTxs : GrantMessage(t) = JoinLines(lines(t)) /\ t.kind = "GrantSubgroveKey"
  BY DEF GrantMessage, Kind, NonceLine
<1>2. ASSUME NEW t \in GrantTxs, GrantRule(t)
      PROVE  /\ Lines(front(t)) /\ Len(front(t)) = 3 /\ front(t)[1] = <<Label("GrantSubgroveKey")>>
             /\ Lines(GrantLines(t.grant)) /\ Len(GrantLines(t.grant)) = 7
             /\ Lines(back(t)) /\ Len(back(t)) = 1
             /\ Lines(lines(t)) /\ lines(t)[1] = <<Label("GrantSubgroveKey")>>
  <2>1. Unbroken(Line("Subgrove", t.subgrove_id)) /\ Unbroken(Line("Sender", t.sender_did)) /\
          Unbroken(Line("Nonce", <<Number(t.nonce)>>))
    BY <1>2, TextLine, NumberLine DEF GrantRule
  <2>2. Lines(front(t)) /\ Len(front(t)) = 3 /\ front(t)[1] = <<Label("GrantSubgroveKey")>>
    BY <2>1, KindLine, Lines3
  <2>3. Lines(GrantLines(t.grant)) /\ Len(GrantLines(t.grant)) = 7
    BY <1>2, GrantLinesTell DEF GrantRule
  <2>4. Lines(back(t)) /\ Len(back(t)) = 1
    BY <2>1, OneToken DEF Lines
  <2>5. PICK p, q, r : p = front(t) /\ q = GrantLines(t.grant) /\ r = back(t)
    OBVIOUS
  <2>6. Lines(p \o q) /\ (p \o q)[1] = p[1]
    BY <2>2, <2>3, <2>5, LinesCat
  <2>7. Lines(p \o q \o r) /\ (p \o q \o r)[1] = p[1]
    <3>1. PICK s : s = p \o q
      OBVIOUS
    <3>2. Lines(s \o r) /\ (s \o r)[1] = s[1]
      BY <2>4, <2>5, <2>6, <3>1, LinesCat
    <3> QED
      BY <2>6, <3>1, <3>2
  <2> QED
    BY <2>2, <2>3, <2>4, <2>5, <2>7
<1>3. ASSUME NEW t \in GrantTxs, NEW u \in GrantTxs, GrantRule(t), GrantRule(u), Fit(lines(t), lines(u))
      PROVE  WireBody(u) = WireBody(t)
  <2>1. PICK p, q, r : p = front(t) /\ q = GrantLines(t.grant) /\ r = back(t)
    OBVIOUS
  <2>2. PICK x, y, z : x = front(u) /\ y = GrantLines(u.grant) /\ z = back(u)
    OBVIOUS
  <2>3. /\ IsSeq(p) /\ IsSeq(q) /\ IsSeq(r) /\ IsSeq(x) /\ IsSeq(y) /\ IsSeq(z)
        /\ Len(p) = Len(x) /\ Len(q) = Len(y) /\ Len(r) = Len(z)
        /\ Fit(p \o q \o r, x \o y \o z)
    <3> HIDE DEF front, back
    <3> QED
      BY <1>2, <1>3, <2>1, <2>2 DEF Lines
  <2>4. p = x
    BY <2>3, Peel3, FitFacts
  <2>5. q = y
    BY <2>3, <2>4, Peel3, FitFacts
  <2>6. r = z
    BY <2>3, <2>4, <2>5, Peel3, FitFacts
  <2>7. t.subgrove_id = u.subgrove_id /\ t.sender_did = u.sender_did
    <3>1. /\ \A v \in Text : Line("Subgrove", t.subgrove_id) = Line("Subgrove", v) => t.subgrove_id = v
          /\ \A v \in Text : Line("Sender", t.sender_did) = Line("Sender", v) => t.sender_did = v
      BY <1>3, TextLine DEF GrantRule
    <3>2. Line("Subgrove", t.subgrove_id) = Line("Subgrove", u.subgrove_id) /\
            Line("Sender", t.sender_did) = Line("Sender", u.sender_did)
      BY <2>1, <2>2, <2>4
    <3> QED
      BY <3>1, <3>2
  <2>8. t.nonce = u.nonce
    <3>1. Line("Nonce", <<Number(t.nonce)>>) = Line("Nonce", <<Number(u.nonce)>>)
      BY <2>1, <2>2, <2>6
    <3> QED
      BY <3>1, NumberLine
  <2>9. KeyGrant(t.grant) = KeyGrant(u.grant)
    <3>1. t.grant \in EncryptedKeyGrants /\ u.grant \in EncryptedKeyGrants /\ GrantFields(t.grant)
      BY <1>3 DEF GrantRule
    <3>2. Fit(GrantLines(t.grant), GrantLines(u.grant))
      BY <2>1, <2>2, <2>3, <2>5, FitFacts
    <3> QED
      BY <3>1, <3>2, GrantLinesTell
  <2>10. PICK g : g = KeyGrant(t.grant)
    OBVIOUS
  <2>11. WireBody(t) = [t EXCEPT !.grant = g] /\ WireBody(u) = [u EXCEPT !.grant = g]
    BY <1>1, <2>9, <2>10 DEF WireBody
  <2>12. [t EXCEPT !.grant = g] = [u EXCEPT !.grant = g]
    BY <2>7, <2>8
  <2> QED
    BY <2>11, <2>12
<1> HIDE DEF lines
<1>4. Heads(GrantMessage(tx), "GrantSubgroveKey")
  BY <1>1, <1>2, LinesHeads
<1>5. ASSUME NEW other \in GrantTxs, GrantRule(other), GrantMessage(other) = GrantMessage(tx)
      PROVE  WireBody(other) = WireBody(tx)
  <2>1. Lines(lines(tx)) /\ Lines(lines(other)) /\ JoinLines(lines(tx)) = JoinLines(lines(other))
    BY <1>1, <1>2, <1>5
  <2>2. Fit(lines(tx), lines(other))
    BY <2>1, LinesBind
  <2> QED
    BY <1>3, <1>5, <2>2
<1> QED
  BY <1>4, <1>5

\* The lines of the grants of a rotation, and what they say of each grant.
BlocksOf(grants) == [i \in DOMAIN grants |-> GrantLines(grants[i])]

\* Grants one after another.
LEMMA BlocksTell ==
  ASSUME NEW gs \in Seq(EncryptedKeyGrants), Len(gs) # 0, \A i \in DOMAIN gs : GrantFields(gs[i])
  PROVE  /\ Lines(FlattenSeq(BlocksOf(gs)))
         /\ \A hs \in Seq(EncryptedKeyGrants) :
              /\ Len(hs) = Len(gs) /\ (\A i \in DOMAIN hs : GrantFields(hs[i]))
              /\ Fit(FlattenSeq(BlocksOf(gs)), FlattenSeq(BlocksOf(hs)))
              => /\ FlattenSeq(BlocksOf(gs)) = FlattenSeq(BlocksOf(hs))
                 /\ [i \in DOMAIN gs |-> KeyGrant(gs[i])] = [i \in DOMAIN hs |-> KeyGrant(hs[i])]
<1> HIDE DEF EncryptedKeyGrants
<1>1. ASSUME NEW hs \in Seq(EncryptedKeyGrants), \A i \in DOMAIN hs : GrantFields(hs[i])
      PROVE  /\ Parts(BlocksOf(hs)) /\ Len(BlocksOf(hs)) = Len(hs) /\ DOMAIN hs = 1..Len(hs)
             /\ \A i \in 1..Len(hs) : /\ hs[i] \in EncryptedKeyGrants /\ GrantFields(hs[i])
                                      /\ BlocksOf(hs)[i] = GrantLines(hs[i])
                                      /\ Lines(GrantLines(hs[i])) /\ Len(GrantLines(hs[i])) = 7
  <2>1. DOMAIN hs = 1..Len(hs) /\ Len(hs) \in Nat /\ \A i \in 1..Len(hs) : hs[i] \in EncryptedKeyGrants /\
          GrantFields(hs[i])
    BY <1>1
  <2>2. \A i \in 1..Len(hs) : Lines(GrantLines(hs[i])) /\ Len(GrantLines(hs[i])) = 7
    BY <2>1, GrantLinesTell
  <2>3. BlocksOf(hs) = [i \in 1..Len(hs) |-> BlocksOf(hs)[i]] /\
          \A i \in 1..Len(hs) : BlocksOf(hs)[i] = GrantLines(hs[i])
    BY <2>1 DEF BlocksOf
  <2>4. PICK f : f = BlocksOf(hs)
    OBVIOUS
  <2>5. IsSeq(f) /\ Len(f) = Len(hs)
    BY <2>1, <2>3, <2>4, OfLength
  <2>6. Parts(f)
    BY <2>2, <2>3, <2>4, <2>5 DEF Parts, Lines
  <2> QED
    BY <2>1, <2>2, <2>3, <2>4, <2>5, <2>6
<1>2. Lines(FlattenSeq(BlocksOf(gs)))
  <2>1. PICK f : f = BlocksOf(gs)
    OBVIOUS
  <2>2. Parts(f) /\ Len(f) = Len(gs) /\ Len(gs) \in Nat /\ \A i \in 1..Len(gs) : Lines(f[i]) /\ Len(f[i]) = 7
    BY <1>1, <2>1
  <2> DEFINE S == {f[x[1]][x[2]] : x \in {y \in (1..Len(f)) \X (1..7) : Unbroken(f[y[1]][y[2]])}}
  <2>3. \A i \in 1..Len(f) : \A j \in 1..Len(f[i]) : f[i][j] \in S
    <3> TAKE i \in 1..Len(f)
    <3> TAKE j \in 1..Len(f[i])
    <3>1. <<i, j>> \in (1..Len(f)) \X (1..7) /\ Unbroken(f[i][j])
      BY <2>2 DEF Lines
    <3> QED
      BY <3>1
  <2>4. \A l \in S : Unbroken(l)
    OBVIOUS
  <2> HIDE DEF S
  <2>5. \A j \in 1..Len(FlattenSeq(f)) : FlattenSeq(f)[j] \in S
    BY <2>2, <2>3, FlattenIn
  <2>6. IsSeq(FlattenSeq(f))
    BY <2>2, JoinsExist, FlattenJoins
  <2>7. FlattenSeq(f) # << >>
    <3>1. 1 \in 1..Len(gs) /\ Len(f) # 0
      BY <2>2
    <3>2. f[1] # << >>
      <4> SUFFICES ASSUME f[1] = << >> PROVE FALSE
        OBVIOUS
      <4>1. Len(f[1]) = 7
        BY <2>2, <3>1
      <4>2. Len(f[1]) = Len(<< >>)
        OBVIOUS
      <4>3. PICK n, m : n = 7 /\ m = 0 /\ n = Len(f[1]) /\ m = Len(<< >>)
        BY <4>1, NoTokens
      <4> QED
        BY <4>2, <4>3
    <3> QED
      BY <2>2, <3>1, <3>2, FlattenHead
  <2>8. Len(FlattenSeq(f)) # 0
    <3>1. PICK r : r = FlattenSeq(f)
      OBVIOUS
    <3> QED
      BY <2>6, <2>7, <3>1 DEF IsSeq
  <2> QED
    BY <2>1, <2>4, <2>5, <2>6, <2>8 DEF Lines
<1>3. ASSUME NEW hs \in Seq(EncryptedKeyGrants), Len(hs) = Len(gs), \A i \in DOMAIN hs : GrantFields(hs[i]),
             Fit(FlattenSeq(BlocksOf(gs)), FlattenSeq(BlocksOf(hs)))
      PROVE  /\ FlattenSeq(BlocksOf(gs)) = FlattenSeq(BlocksOf(hs))
             /\ [i \in DOMAIN gs |-> KeyGrant(gs[i])] = [i \in DOMAIN hs |-> KeyGrant(hs[i])]
  <2>1. PICK f, k : f = BlocksOf(gs) /\ k = BlocksOf(hs)
    OBVIOUS
  <2>2. /\ Parts(f) /\ Len(f) = Len(gs) /\ Parts(k) /\ Len(k) = Len(gs)
        /\ DOMAIN gs = 1..Len(gs) /\ DOMAIN hs = 1..Len(gs)
        /\ \A i \in 1..Len(gs) : /\ f[i] = GrantLines(gs[i]) /\ k[i] = GrantLines(hs[i])
                                 /\ gs[i] \in EncryptedKeyGrants /\ hs[i] \in EncryptedKeyGrants /\ GrantFields(gs[i])
                                 /\ IsSeq(f[i]) /\ IsSeq(k[i])
    <3>1. /\ Parts(f) /\ Len(f) = Len(gs) /\ DOMAIN gs = 1..Len(gs)
          /\ \A i \in 1..Len(gs) : /\ gs[i] \in EncryptedKeyGrants /\ GrantFields(gs[i]) /\ f[i] = GrantLines(gs[i])
                                   /\ IsSeq(f[i])
      BY <1>1, <2>1 DEF Lines
    <3>2. /\ Parts(k) /\ Len(k) = Len(gs) /\ DOMAIN hs = 1..Len(gs)
          /\ \A i \in 1..Len(gs) : hs[i] \in EncryptedKeyGrants /\ k[i] = GrantLines(hs[i]) /\ IsSeq(k[i])
      BY <1>1, <1>3, <2>1 DEF Lines
    <3> QED
      BY <3>1, <3>2
  <2>3. \A i \in 1..Len(f) : Told(f[i], k[i]) /\ (f[i] = k[i] => KeyGrant(gs[i]) = KeyGrant(hs[i]))
    <3> TAKE i \in 1..Len(f)
    <3>1. PICK g, h : g = gs[i] /\ h = hs[i]
      OBVIOUS
    <3>2. g \in EncryptedKeyGrants /\ h \in EncryptedKeyGrants /\ GrantFields(g) /\ f[i] = GrantLines(g) /\
            k[i] = GrantLines(h)
          /\ IsSeq(f[i]) /\ IsSeq(k[i])
      BY <2>2, <3>1
    <3>3. Fit(GrantLines(g), GrantLines(h)) => GrantLines(g) = GrantLines(h) /\ KeyGrant(g) = KeyGrant(h)
      BY <3>2, GrantLinesTell
    <3>4. Told(f[i], k[i])
      BY <3>2, <3>3 DEF Told
    <3>5. f[i] = k[i] => Fit(GrantLines(g), GrantLines(h))
      BY <3>2, FitFacts
    <3> QED
      BY <3>1, <3>3, <3>4, <3>5
  <2>4. /\ Told(FlattenSeq(f), FlattenSeq(k))
        /\ FlattenSeq(f) = FlattenSeq(k) => f = k
    BY <2>2, <2>3, ManyTell
  <2>5. FlattenSeq(f) = FlattenSeq(k) /\ f = k
    BY <1>3, <2>1, <2>4 DEF Told
  <2>6. \A i \in 1..Len(gs) : KeyGrant(gs[i]) = KeyGrant(hs[i])
    BY <2>2, <2>3, <2>5
  <2> QED
    BY <2>1, <2>2, <2>5, <2>6
<1> QED
  BY <1>2, <1>3

\* The message of a rotation is its kind and its fields as sent, every grant among them.
LEMMA RotateBinds ==
  ASSUME NEW tx \in RotateTxs, RotateRule(tx)
  PROVE  /\ Heads(RotateMessage(tx), "RotateSubgroveKey")
         /\ \A other \in RotateTxs :
              RotateRule(other) /\ RotateMessage(other) = RotateMessage(tx) => WireBody(other) = WireBody(tx)
<1> DEFINE front(t) == << <<Label("RotateSubgroveKey")>>, Line("Subgrove", t.subgrove_id),
             Line("Sender", t.sender_did),
                          Line("NewEpoch", <<Number(t.new_epoch)>>), Line("Grants", <<Number(Len(t.new_grants))>>) >>
           middle(t) == FlattenSeq(BlocksOf(t.new_grants))
           back(t) == << Line("Nonce", <<Number(t.nonce)>>) >>
           lines(t) == front(t) \o middle(t) \o back(t)
<1> USE DEF RotateTxs
<1> HIDE DEF Text, EncryptedKeyGrants
<1>1. \A t \in RotateTxs : RotateMessage(t) = JoinLines(lines(t)) /\ t.kind = "RotateSubgroveKey"
  BY DEF RotateMessage, Kind, NonceLine, BlocksOf
<1>a. ASSUME NEW t \in RotateTxs, RotateRule(t)
      PROVE  /\ t.new_grants \in Seq(EncryptedKeyGrants) /\ Len(t.new_grants) # 0 /\
                  \A i \in DOMAIN t.new_grants : GrantFields(t.new_grants[i])
             /\ t.subgrove_id \in Text /\ FieldRule(t.subgrove_id) /\ t.sender_did \in Text /\ FieldRule(t.sender_did)
  BY <1>a DEF RotateRule
<1>2. ASSUME NEW t \in RotateTxs, RotateRule(t)
      PROVE  /\ Lines(front(t)) /\ Len(front(t)) = 5 /\ front(t)[1] = <<Label("RotateSubgroveKey")>>
             /\ Lines(middle(t))
             /\ Lines(back(t)) /\ Len(back(t)) = 1
             /\ Lines(lines(t)) /\ lines(t)[1] = <<Label("RotateSubgroveKey")>>
  <2>1. /\ Unbroken(Line("Subgrove", t.subgrove_id)) /\ Unbroken(Line("Sender", t.sender_did))
        /\ \A l, n : Unbroken(Line(l, <<Number(n)>>))
    BY <1>a, <1>2, TextLine, NumberLine
  <2>2. Lines(front(t)) /\ Len(front(t)) = 5 /\ front(t)[1] = <<Label("RotateSubgroveKey")>>
    BY <2>1, KindLine, Lines5
  <2>3. Lines(middle(t))
    BY <1>a, <1>2, BlocksTell
  <2>4. Lines(back(t)) /\ Len(back(t)) = 1
    BY <2>1, OneToken DEF Lines
  <2>5. PICK p, q, r : p = front(t) /\ q = middle(t) /\ r = back(t)
    OBVIOUS
  <2>6. Lines(p \o q) /\ (p \o q)[1] = p[1]
    BY <2>2, <2>3, <2>5, LinesCat
  <2>7. Lines(p \o q \o r) /\ (p \o q \o r)[1] = p[1]
    <3>1. PICK s : s = p \o q
      OBVIOUS
    <3>2. Lines(s \o r) /\ (s \o r)[1] = s[1]
      BY <2>4, <2>5, <2>6, <3>1, LinesCat
    <3> QED
      BY <2>6, <3>1, <3>2
  <2> QED
    BY <2>2, <2>3, <2>4, <2>5, <2>7
<1>3. ASSUME NEW t \in RotateTxs, NEW u \in RotateTxs, RotateRule(t), RotateRule(u), Fit(lines(t), lines(u))
      PROVE  WireBody(u) = WireBody(t)
  <2>1. PICK p, q, r : p = front(t) /\ q = middle(t) /\ r = back(t)
    OBVIOUS
  <2>2. PICK x, y, z : x = front(u) /\ y = middle(u) /\ z = back(u)
    OBVIOUS
  <2>3. /\ IsSeq(p) /\ IsSeq(q) /\ IsSeq(r) /\ IsSeq(x) /\ IsSeq(y) /\ IsSeq(z)
        /\ Len(p) = Len(x) /\ Len(r) = Len(z)
        /\ Fit(p \o q \o r, x \o y \o z)
    <3> HIDE DEF front, middle, back
    <3> QED
      BY <1>2, <1>3, <2>1, <2>2 DEF Lines
  <2>4. p = x
    BY <2>3, Peel3, FitFacts
  <2>5. t.subgrove_id = u.subgrove_id /\ t.sender_did = u.sender_did /\ t.new_epoch = u.new_epoch /\
          Len(t.new_grants) = Len(u.new_grants)
    <3>1. /\ Line("Subgrove", t.subgrove_id) = Line("Subgrove", u.subgrove_id)
          /\ Line("Sender", t.sender_did) = Line("Sender", u.sender_did)
          /\ Line("NewEpoch", <<Number(t.new_epoch)>>) = Line("NewEpoch", <<Number(u.new_epoch)>>)
          /\ Line("Grants", <<Number(Len(t.new_grants))>>) = Line("Grants", <<Number(Len(u.new_grants))>>)
      BY <2>1, <2>2, <2>4
    <3>2. /\ \A v \in Text : Line("Subgrove", t.subgrove_id) = Line("Subgrove", v) => t.subgrove_id = v
          /\ \A v \in Text : Line("Sender", t.sender_did) = Line("Sender", v) => t.sender_did = v
          /\ \A l, n, m : Line(l, <<Number(n)>>) = Line(l, <<Number(m)>>) => n = m
      BY <1>a, <1>3, TextLine, NumberLine
    <3> QED
      BY <1>a, <1>3, <3>1, <3>2
  <2>6. q = y /\
          [i \in DOMAIN t.new_grants |-> KeyGrant(t.new_grants[i])] = [i \in DOMAIN u.new_grants |-> KeyGrant(u.new_grants[i])]
    <3>1. Fit(q, y)
      BY <2>3, <2>4, Peel3
    <3>2. PICK gs, hs : gs = t.new_grants /\ hs = u.new_grants
      OBVIOUS
    <3>3. /\ gs \in Seq(EncryptedKeyGrants) /\ Len(gs) # 0 /\ (\A i \in DOMAIN gs : GrantFields(gs[i]))
          /\ hs \in Seq(EncryptedKeyGrants) /\ Len(hs) = Len(gs) /\ (\A i \in DOMAIN hs : GrantFields(hs[i]))
          /\ Fit(FlattenSeq(BlocksOf(gs)), FlattenSeq(BlocksOf(hs)))
          /\ q = FlattenSeq(BlocksOf(gs)) /\ y = FlattenSeq(BlocksOf(hs))
      <4>1. gs \in Seq(EncryptedKeyGrants) /\ Len(gs) # 0 /\ (\A i \in DOMAIN gs : GrantFields(gs[i]))
        BY <1>a, <1>3, <3>2
      <4>2. hs \in Seq(EncryptedKeyGrants) /\ (\A i \in DOMAIN hs : GrantFields(hs[i]))
        BY <1>a, <1>3, <3>2
      <4> QED
        BY <2>1, <2>2, <2>5, <3>1, <3>2, <4>1, <4>2
    <3> QED
      BY <3>2, <3>3, BlocksTell
  <2>7. r = z
    BY <2>3, <2>4, <2>6, Peel3, FitFacts
  <2>8. t.nonce = u.nonce
    <3>1. Line("Nonce", <<Number(t.nonce)>>) = Line("Nonce", <<Number(u.nonce)>>)
      BY <2>1, <2>2, <2>7
    <3> QED
      BY <3>1, NumberLine
  <2>9. PICK g : g = [i \in DOMAIN t.new_grants |-> KeyGrant(t.new_grants[i])]
    OBVIOUS
  <2>10. WireBody(t) = [t EXCEPT !.new_grants = g] /\ WireBody(u) = [u EXCEPT !.new_grants = g]
    BY <1>1, <2>6, <2>9 DEF WireBody
  <2>11. [t EXCEPT !.new_grants = g] = [u EXCEPT !.new_grants = g]
    BY <2>5, <2>8
  <2> QED
    BY <2>10, <2>11
<1> HIDE DEF lines
<1>4. Heads(RotateMessage(tx), "RotateSubgroveKey")
  BY <1>1, <1>2, LinesHeads
<1>5. ASSUME NEW other \in RotateTxs, RotateRule(other), RotateMessage(other) = RotateMessage(tx)
      PROVE  WireBody(other) = WireBody(tx)
  <2>1. Lines(lines(tx)) /\ Lines(lines(other)) /\ JoinLines(lines(tx)) = JoinLines(lines(other))
    BY <1>1, <1>2, <1>5
  <2>2. Fit(lines(tx), lines(other))
    BY <2>1, LinesBind
  <2> QED
    BY <1>3, <1>5, <2>2
<1> QED
  BY <1>4, <1>5

\* A text up to a token it does not hold.
LEMMA UntilTold ==
  ASSUME NEW p, NEW q, NEW e, IsSeq(p), IsSeq(q),
         \A i \in 1..Len(p) : p[i] # e, \A i \in 1..Len(q) : q[i] # e
  PROVE  Told(p \o <<e>>, q \o <<e>>) /\ (p \o <<e>> = q \o <<e>> => p = q)
<1>1. PICK s, t : s = p \o <<e>> /\ t = q \o <<e>>
  OBVIOUS
<1>2. IsSeq(s) /\ IsSeq(t)
  BY <1>1, OneToken, CatFacts
<1>3. Fit(s, t) => p = q
  BY <1>1, Until
<1>4. s = t => Fit(s, t)
  BY <1>2, FitFacts
<1> QED
  BY <1>1, <1>2, <1>3, <1>4 DEF Told

\* A DID is its prefix and an ID without a colon.
LEMMA DidParts ==
  ASSUME NEW p \in Text, DidRule(p)
  PROVE  \E r : IsSeq(r) /\ (\A i \in 1..Len(r) : r[i] # Colon) /\ p = DidPrefix \o r
<1>1. p \in Seq(Chars) /\ Len(p) \in Nat
  BY TextFacts DEF Text
<1>2. Len(DidPrefix) = 4 /\ IsSeq(DidPrefix)
  <2>1. Len(DidPrefix) = 4 /\ DidPrefix \in Seq({Word("did"), Word("willow"), Colon})
    BY DEF DidPrefix
  <2> QED
    BY <2>1 DEF IsSeq
<1>3. 4 =< Len(p) /\ \A i \in 1..4 : DidPrefix[i] = p[i]
  <2>1. Len(DidPrefix) =< Len(p) /\ SubSeq(DidPrefix, 1, Len(DidPrefix)) = SubSeq(p, 1, Len(DidPrefix))
    BY DEF DidRule, IsStrictPrefix, IsPrefix
  <2>2. PICK d : d = DidPrefix
    OBVIOUS
  <2>3. d \in Seq({Word("did"), Word("willow"), Colon}) /\ Len(d) = 4
    BY <2>2 DEF DidPrefix
  <2>4. SubSeq(d, 1, 4) = SubSeq(p, 1, 4) /\ 4 =< Len(p)
    BY <1>2, <2>1, <2>2
  <2>5. \A i \in 1..4 : SubSeq(d, 1, 4)[i] = d[i] /\ SubSeq(p, 1, 4)[i] = p[i]
    BY <1>1, <2>3, <2>4
  <2> QED
    BY <2>2, <2>4, <2>5
<1>4. PICK r : r = SubSeq(p, 5, Len(p))
  OBVIOUS
<1>5. IsSeq(r) /\ Len(r) = Len(p) - 4 /\ \A i \in 1..Len(r) : r[i] = p[i + 4]
  <2>1. PICK n \in Nat : n = Len(p)
    BY <1>1
  <2>2. 4 =< n /\ r = SubSeq(p, 5, n)
    BY <1>3, <1>4, <2>1
  <2>3. p \in Seq(Chars) /\ n = Len(p)
    BY <1>1, <2>1
  <2>4. n - 4 \in Nat /\ Len(SubSeq(p, 5, n)) = n - 4 /\ \A i \in 1..(n - 4) : SubSeq(p, 5, n)[i] = p[i + 4]
    BY <2>2, <2>3
  <2>5. SubSeq(p, 5, n) \in Seq(Chars)
    BY <2>2, <2>3
  <2> QED
    BY <2>1, <2>2, <2>4, <2>5 DEF IsSeq
<1>6. IdChars(r)
  BY <1>2, <1>4 DEF DidRule
<1>7. \A i \in 1..Len(r) : r[i] # Colon
  <2>1. DOMAIN r = 1..Len(r)
    BY <1>5, SeqFacts
  <2>2. Colon[1] = "mark"
    BY DEF Colon
  <2>3. \A i \in 1..Len(r) : r[i][1] \in {"word", "dash"}
    BY <1>6, <2>1 DEF IdChars
  <2>4. "mark" \notin {"word", "dash"}
    OBVIOUS
  <2> QED
    BY <2>2, <2>3, <2>4
<1>8. p = DidPrefix \o r
  <2>1. PICK d, s : d = DidPrefix /\ s = d \o r
    OBVIOUS
  <2>2. /\ IsSeq(s) /\ Len(s) = Len(p)
        /\ \A i \in 1..4 : s[i] = d[i]
        /\ \A i \in 1..Len(r) : s[4 + i] = r[i]
    <3>0. Len(d) = 4
      BY <1>2, <2>1
    <3>1. IsSeq(d) /\ IsSeq(r)
      BY <1>2, <1>5, <2>1
    <3>2. /\ IsSeq(d \o r) /\ Len(d \o r) = Len(d) + Len(r)
          /\ \A i \in 1..Len(d) : (d \o r)[i] = d[i]
          /\ \A i \in 1..Len(r) : (d \o r)[Len(d) + i] = r[i]
      BY <3>1, CatFacts
    <3>3. 4 + Len(r) = Len(p)
      BY <1>1, <1>5
    <3> QED
      BY <2>1, <3>0, <3>2, <3>3
  <2>3. \A i \in 1..Len(p) : p[i] = s[i]
    <3> TAKE i \in 1..Len(p)
    <3>1. CASE i =< 4
      <4>1. i \in 1..4
        BY <1>1, <3>1
      <4> QED
        BY <1>3, <2>1, <2>2, <4>1
    <3>2. CASE i > 4
      <4>1. PICK j \in 1..Len(r) : i = j + 4 /\ i = 4 + j
        <5>1. i - 4 \in 1..Len(r) /\ i = (i - 4) + 4 /\ i = 4 + (i - 4)
          BY <1>1, <1>5, <3>2
        <5> QED
          BY <5>1
      <4> QED
        BY <1>5, <2>2, <4>1
    <3> QED
      BY <1>1, <3>1, <3>2
  <2> QED
    BY <1>1, <2>1, <2>2, <2>3, SameSeq DEF IsSeq
<1> QED
  BY <1>5, <1>7, <1>8

\* A DID and what follows it.
LEMMA DidTold ==
  ASSUME NEW p \in Text, NEW q \in Text, DidRule(p), DidRule(q)
  PROVE  Told(p \o <<Colon>>, q \o <<Colon>>) /\ (p \o <<Colon>> = q \o <<Colon>> => p = q)
<1>1. PICK d, e : d = DidPrefix /\ e = <<Colon>>
  OBVIOUS
<1>2. PICK r : IsSeq(r) /\ (\A i \in 1..Len(r) : r[i] # Colon) /\ p = d \o r
  BY <1>1, DidParts
<1>3. PICK s : IsSeq(s) /\ (\A i \in 1..Len(s) : s[i] # Colon) /\ q = d \o s
  BY <1>1, DidParts
<1>4. IsSeq(d) /\ IsSeq(e)
  <2>1. DidPrefix \in Seq({Word("did"), Word("willow"), Colon})
    BY DEF DidPrefix
  <2> QED
    BY <1>1, <2>1, OneToken DEF IsSeq
<1>5. Told(r \o e, s \o e) /\ (r \o e = s \o e => r = s)
  BY <1>1, <1>2, <1>3, UntilTold
<1>6. PICK x, y : x = r \o e /\ y = s \o e
  OBVIOUS
<1>7. p \o e = d \o x /\ q \o e = d \o y
  <2>1. (d \o r) \o e = d \o (r \o e) /\ (d \o s) \o e = d \o (s \o e)
    <3>1. IsSeq(d) /\ IsSeq(r) /\ IsSeq(s) /\ IsSeq(e)
      BY <1>2, <1>3, <1>4
    <3>2. (d \o r) \o e = d \o (r \o e)
      BY <3>1, Grouped
    <3>3. (d \o s) \o e = d \o (s \o e)
      BY <3>1, Grouped
    <3> QED
      BY <3>2, <3>3
  <2> QED
    BY <1>2, <1>3, <1>6, <2>1, Zenon
<1>8. IsSeq(x) /\ IsSeq(y)
  BY <1>2, <1>3, <1>4, <1>6, CatFacts
<1>9. Told(d, d)
  BY <1>4 DEF Told
<1>10. Told(d \o x, d \o y) /\ (d \o x = d \o y => x = y)
  BY <1>5, <1>6, <1>8, <1>9, Told2
<1> QED
  BY <1>1, <1>2, <1>3, <1>5, <1>6, <1>7, <1>10

\* The message of a revoke is its kind and its fields.
LEMMA RevokeBinds ==
  ASSUME NEW tx \in RevokeTxs, RevokeRule(tx)
  PROVE  /\ Heads(RevokeMessage(tx), "RevokeSubgroveKey")
         /\ \A other \in RevokeTxs : RevokeRule(other) /\ RevokeMessage(other) = RevokeMessage(tx) => other = tx
<1> USE DEF RevokeTxs
<1> HIDE DEF Text
<1>1. PICK e, k : e = <<Colon>> /\ k = <<Label("RevokeSubgroveKey")>>
  OBVIOUS
<1>2. IsSeq(e) /\ IsSeq(k) /\ k # << >> /\ k[1] = Label("RevokeSubgroveKey") /\ IsSeq(k \o e)
  BY <1>1, OneToken, CatFacts
<1>3. ASSUME NEW t \in RevokeTxs, RevokeRule(t)
      PROVE  /\ IsSeq(t.subgrove_id) /\ (\A i \in 1..Len(t.subgrove_id) : t.subgrove_id[i] # Colon)
             /\ t.revokee_did \in Text /\ t.sender_did \in Text /\ IsSeq(t.revokee_did) /\ IsSeq(t.sender_did)
             /\ DidRule(t.revokee_did) /\ DidRule(t.sender_did)
             /\ RevokeMessage(t) = Row4(k \o e, t.subgrove_id \o e, t.revokee_did \o e,
                  t.sender_did \o (e \o <<Number(t.nonce)>>))
  <2>1. t.subgrove_id \in Text /\ t.revokee_did \in Text /\ t.sender_did \in Text
    OBVIOUS
  <2>2. IsSeq(t.subgrove_id) /\ IsSeq(t.revokee_did) /\ IsSeq(t.sender_did)
    BY <2>1, TextFacts DEF Text
  <2>3. \A i \in 1..Len(t.subgrove_id) : t.subgrove_id[i] # Colon
    BY <1>3 DEF RevokeRule, KeySubgroveRule, Contains
  <2>4. PICK s, r, d, n : s = t.subgrove_id /\ r = t.revokee_did /\ d = t.sender_did /\ n = Number(t.nonce)
    OBVIOUS
  <2>5. PICK f : f = <<Colon, n>>
    OBVIOUS
  <2>6. RevokeMessage(t) = k \o e \o s \o e \o r \o e \o d \o f
    BY <1>1, <2>4, <2>5 DEF RevokeMessage, Kind
  <2>7. f = e \o <<n>>
    BY <1>1, <2>5
  <2>8. IsSeq(f) /\ IsSeq(s) /\ IsSeq(r) /\ IsSeq(d)
    BY <1>2, <2>2, <2>4, <2>7, OneToken, CatFacts
  <2>9. PICK a, b, c, g : a = k \o e /\ b = s \o e /\ c = r \o e /\ g = d \o f
    OBVIOUS
  <2>10. IsSeq(a) /\ IsSeq(b) /\ IsSeq(c) /\ IsSeq(g)
    BY <1>2, <2>8, <2>9, CatFacts
  <2>11. a \o s \o e = a \o b
    <3>0. IsSeq(a) /\ IsSeq(s) /\ IsSeq(e)
      BY <1>2, <2>8, <2>10
    <3>1. (a \o s) \o e = a \o (s \o e)
      BY <3>0, Grouped
    <3> QED
      BY <2>9, <3>1, Zenon
  <2>12. PICK m : m = a \o b
    OBVIOUS
  <2>13. IsSeq(m) /\ m \o r \o e = m \o c
    <3>1. IsSeq(m)
      BY <2>10, <2>12, CatFacts
    <3>0. IsSeq(m) /\ IsSeq(r) /\ IsSeq(e)
      BY <1>2, <2>8, <3>1
    <3>2. (m \o r) \o e = m \o (r \o e)
      BY <3>0, Grouped
    <3> QED
      BY <2>9, <3>1, <3>2, Zenon
  <2>14. PICK l : l = m \o c
    OBVIOUS
  <2>15. IsSeq(l) /\ l \o d \o f = l \o g
    <3>1. IsSeq(l)
      BY <2>10, <2>13, <2>14, CatFacts
    <3>0. IsSeq(l) /\ IsSeq(d) /\ IsSeq(f)
      BY <2>8, <3>1
    <3>2. (l \o d) \o f = l \o (d \o f)
      BY <3>0, Grouped
    <3> QED
      BY <2>9, <3>1, <3>2, Zenon
  <2>16. RevokeMessage(t) = a \o b \o c \o g
    BY <2>6, <2>9, <2>11, <2>12, <2>13, <2>14, <2>15
  <2> QED
    BY <1>3, <2>1, <2>2, <2>3, <2>4, <2>7, <2>9, <2>16 DEF RevokeRule, Row4
<1>4. Heads(RevokeMessage(tx), "RevokeSubgroveKey")
  <2>1. PICK s, r, d : s = tx.subgrove_id \o e /\ r = tx.revokee_did \o e /\
               d = tx.sender_did \o (e \o <<Number(tx.nonce)>>)
    OBVIOUS
  <2>2. IsSeq(s) /\ IsSeq(r) /\ IsSeq(d)
    <3>1. PICK f : f = e \o <<Number(tx.nonce)>>
      OBVIOUS
    <3>2. IsSeq(f)
      BY <1>2, <3>1, OneToken, CatFacts
    <3> QED
      BY <1>2, <1>3, <2>1, <3>1, <3>2, CatFacts
  <2>3. RevokeMessage(tx) = k \o e \o s \o r \o d
    BY <1>3, <2>1 DEF Row4
  <2>4. PICK a, b, c : a = k \o e /\ b = a \o s /\ c = b \o r
    OBVIOUS
  <2>5. IsSeq(a) /\ IsSeq(b) /\ IsSeq(c) /\ RevokeMessage(tx) = c \o d /\ IsSeq(c \o d)
    <3>1. IsSeq(a) /\ IsSeq(b)
      BY <1>2, <2>2, <2>4, CatFacts
    <3>2. IsSeq(c) /\ IsSeq(c \o d)
      BY <2>2, <2>4, <3>1, CatFacts
    <3> QED
      BY <2>3, <2>4, <3>1, <3>2
  <2>6. Fit(k, c \o d)
    <3>1. Fit(c \o d, c \o d)
      BY <2>5, FitFacts
    <3>2. Fit(c, c \o d)
      BY <2>2, <2>5, <3>1, PeelOne
    <3>3. Fit(b, c \o d)
      BY <2>2, <2>4, <2>5, <3>2, PeelOne
    <3>4. Fit(a, c \o d)
      BY <2>2, <2>4, <2>5, <3>3, PeelOne
    <3> QED
      BY <1>2, <2>4, <2>5, <3>4, PeelOne
  <2>7. PICK w : w = c \o d
    OBVIOUS
  <2>8. Len(w) \in Nat /\ Len(w) # 0
    <3>1. Len(k) = 1
      BY <1>1, OneToken
    <3>2. Len(a) \in Nat /\ Len(a) >= 1
      BY <1>2, <2>4, <3>1, CatFacts
    <3>3. Len(b) \in Nat /\ Len(b) >= 1
      BY <2>2, <2>4, <2>5, <3>2, CatFacts
    <3>4. Len(c) \in Nat /\ Len(c) >= 1
      BY <2>2, <2>4, <2>5, <3>3, CatFacts
    <3> QED
      BY <2>2, <2>5, <2>7, <3>4, CatFacts
  <2>9. w # << >>
    BY <2>8, NoTokens
  <2>10. k[1] = w[1]
    BY <1>2, <2>5, <2>6, <2>7, <2>9, FitFacts
  <2> QED
    BY <1>2, <2>5, <2>7, <2>9, <2>10 DEF Heads
<1>5. ASSUME NEW other \in RevokeTxs, RevokeRule(other), RevokeMessage(other) = RevokeMessage(tx) PROVE other = tx
  <2>1. PICK p1, p2, p3, p4 : /\ p1 = k \o e /\ p2 = tx.subgrove_id \o e /\ p3 = tx.revokee_did \o e
                              /\ p4 = tx.sender_did \o (e \o <<Number(tx.nonce)>>)
    OBVIOUS
  <2>2. PICK q1, q2, q3, q4 : /\ q1 = k \o e /\ q2 = other.subgrove_id \o e /\ q3 = other.revokee_did \o e
                              /\ q4 = other.sender_did \o (e \o <<Number(other.nonce)>>)
    OBVIOUS
  <2>3. Told(p1, q1)
    BY <1>2, <2>1, <2>2 DEF Told
  <2>4. Told(p2, q2) /\ (p2 = q2 => tx.subgrove_id = other.subgrove_id)
    BY <1>1, <1>3, <1>5, <2>1, <2>2, UntilTold
  <2>5. Told(p3, q3) /\ (p3 = q3 => tx.revokee_did = other.revokee_did)
    BY <1>1, <1>3, <1>5, <2>1, <2>2, DidTold
  <2>6. Told(p4, q4) /\ (p4 = q4 => tx.sender_did = other.sender_did /\ tx.nonce = other.nonce)
    <3>1. PICK d, f, x, y : d = tx.sender_did /\ f = other.sender_did /\ x = <<Number(tx.nonce)>> /\
                 y = <<Number(other.nonce)>>
      OBVIOUS
    <3>2. Told(x, y) /\ (x = y => tx.nonce = other.nonce)
      <4>1. IsSeq(x) /\ IsSeq(y) /\ Len(x) = 1 /\ Len(y) = 1 /\ x[1] = Number(tx.nonce) /\ y[1] = Number(other.nonce)
        BY <3>1, OneToken
      <4> QED
        BY <4>1, FitFacts, TokenFacts DEF Told
    <3>3. Told(d \o e, f \o e) /\ (d \o e = f \o e => d = f)
      BY <1>1, <1>3, <1>5, <3>1, DidTold
    <3>4. IsSeq(d) /\ IsSeq(f) /\ IsSeq(x) /\ IsSeq(y)
      BY <1>3, <1>5, <3>1, <3>2 DEF Told
    <3>5. p4 = (d \o e) \o x /\ q4 = (f \o e) \o y
      <4>1. (d \o e) \o x = d \o (e \o x) /\ (f \o e) \o y = f \o (e \o y)
        <5>1. IsSeq(d) /\ IsSeq(e) /\ IsSeq(f) /\ IsSeq(x) /\ IsSeq(y)
          BY <1>2, <3>4
        <5>2. (d \o e) \o x = d \o (e \o x)
          BY <5>1, Grouped
        <5>3. (f \o e) \o y = f \o (e \o y)
          BY <5>1, Grouped
        <5> QED
          BY <5>2, <5>3
      <4> QED
        BY <2>1, <2>2, <3>1, <4>1, Zenon
    <3>6. PICK a, b : a = d \o e /\ b = f \o e
      OBVIOUS
    <3>7. Told(a \o x, b \o y) /\ (a \o x = b \o y => a = b /\ x = y)
      <4>1. Told(a, b) /\ IsSeq(x) /\ IsSeq(y) /\ Told(x, y)
        BY <3>2, <3>3, <3>4, <3>6
      <4> QED
        BY <4>1, Told2
    <3> QED
      BY <3>1, <3>2, <3>3, <3>5, <3>6, <3>7
  <2>7. Row4(p1, p2, p3, p4) = Row4(q1, q2, q3, q4)
    BY <1>3, <1>5, <2>1, <2>2
  <2>8. p2 = q2 /\ p3 = q3 /\ p4 = q4
    BY <2>3, <2>4, <2>5, <2>6, <2>7, Told4
  <2>9. tx.subgrove_id = other.subgrove_id /\ tx.revokee_did = other.revokee_did /\
          tx.sender_did = other.sender_did /\ tx.nonce = other.nonce
    BY <2>4, <2>5, <2>6, <2>8
  <2> QED
    BY <2>9
<1> QED
  BY <1>4, <1>5

-----------------------------------------------------------------------------
(* JSON.                                                                   *)

\* Parts in a row, up to an end none of them begins as.
LEMMA EndedTell ==
  ASSUME NEW parts, NEW others, NEW end, Parts(parts), Parts(others), IsSeq(end),
         \A i \in 1..Len(parts) : i =< Len(others) => Told(parts[i], others[i]),
         \A i \in 1..Len(parts) : ~Fit(parts[i], end),
         \A i \in 1..Len(others) : ~Fit(end, others[i])
  PROVE  /\ Told(FlattenSeq(parts) \o end, FlattenSeq(others) \o end)
         /\ FlattenSeq(parts) \o end = FlattenSeq(others) \o end => parts = others
<1>1. PICK p, q : p = Append(parts, end) /\ q = Append(others, end)
  OBVIOUS
<1>2. /\ Parts(p) /\ FlattenSeq(p) = FlattenSeq(parts) \o end
      /\ Parts(q) /\ FlattenSeq(q) = FlattenSeq(others) \o end
  BY <1>1, FlattenAppend
<1>3. PICK n, m : n = Len(parts) /\ m = Len(others)
  OBVIOUS
<1>4. n \in Nat /\ m \in Nat
  BY <1>3, SeqFacts DEF Parts
<1>5. /\ Len(p) = n + 1 /\ p[n + 1] = end /\ \A i \in 1..n : p[i] = parts[i]
      /\ Len(q) = m + 1 /\ q[m + 1] = end /\ \A i \in 1..m : q[i] = others[i]
  <2>1. ASSUME NEW s, IsSeq(s) PROVE Len(Append(s, end)) = Len(s) + 1 /\ Append(s, end)[Len(s) + 1] = end
                                     /\ \A i \in 1..Len(s) : Append(s, end)[i] = s[i]
    <3>1. PICK S : s \in Seq(S)
      BY <2>1 DEF IsSeq
    <3>2. s \in Seq(S \cup {end}) /\ end \in S \cup {end}
      BY <3>1
    <3> QED
      BY <3>2
  <2> QED
    BY <1>1, <1>3, <2>1 DEF Parts
<1>6. ASSUME Fit(FlattenSeq(p), FlattenSeq(q)) PROVE parts = others
  <2>1. \A i \in 1..Len(p) : i =< Len(q) /\ Fit(p[i], q[i]) => p[i] = q[i]
    <3> SUFFICES ASSUME NEW i \in 1..Len(p), i =< Len(q), Fit(p[i], q[i]) PROVE p[i] = q[i]
      OBVIOUS
    <3>1. i \in Nat /\ i >= 1 /\ i =< n + 1 /\ i =< m + 1
      BY <1>4, <1>5
    <3>2. CASE i =< n /\ i =< m
      <4>1. i \in 1..n /\ i \in 1..m
        BY <1>4, <3>1, <3>2
      <4>2. Told(parts[i], others[i]) /\ p[i] = parts[i] /\ q[i] = others[i]
        BY <1>3, <1>5, <3>2, <4>1
      <4> QED
        BY <4>2 DEF Told
    <3>3. CASE i = n + 1 /\ i = m + 1
      BY <1>5, <3>3
    <3>4. CASE i =< n /\ i = m + 1
      <4>1. i \in 1..n
        BY <1>4, <3>1, <3>4
      <4>2. p[i] = parts[i] /\ q[i] = end
        BY <1>5, <3>4, <4>1
      <4> QED
        BY <1>3, <4>1, <4>2
    <3>5. CASE i = n + 1 /\ i =< m
      <4>1. i \in 1..m
        BY <1>4, <3>1, <3>5
      <4>2. p[i] = end /\ q[i] = others[i]
        BY <1>5, <3>5, <4>1
      <4> QED
        BY <1>3, <4>1, <4>2
    <3> QED
      BY <1>4, <3>1, <3>2, <3>3, <3>4, <3>5
  <2>2. Fit(p, q)
    BY <1>2, <1>6, <2>1, FlattenTells
  <2>3. \A i \in Nat : i >= 1 /\ i =< n + 1 /\ i =< m + 1 => p[i] = q[i]
    <3>1. \A i \in 1..Len(p) : i =< Len(q) => p[i] = q[i]
      BY <2>2 DEF Fit
    <3> QED
      BY <1>4, <1>5, <3>1
  <2>4. \A s : IsSeq(s) => Fit(s, s)
    BY FitFacts
  <2>5. ~(n < m)
    <3> SUFFICES ASSUME n < m PROVE FALSE
      OBVIOUS
    <3>1. PICK i \in 1..m : i = n + 1
      BY <1>4
    <3>2. p[i] = end /\ q[i] = others[i] /\ p[i] = q[i]
      BY <1>4, <1>5, <2>3, <3>1
    <3> QED
      BY <1>3, <2>4, <3>2
  <2>6. ~(m < n)
    <3> SUFFICES ASSUME m < n PROVE FALSE
      OBVIOUS
    <3>1. PICK i \in 1..n : i = m + 1
      BY <1>4
    <3>2. q[i] = end /\ p[i] = parts[i] /\ p[i] = q[i]
      BY <1>4, <1>5, <2>3, <3>1
    <3> QED
      BY <1>3, <2>4, <3>2
  <2>7. n = m
    BY <1>4, <2>5, <2>6
  <2>8. \A i \in 1..n : parts[i] = others[i]
    BY <1>4, <1>5, <2>3, <2>7
  <2> QED
    BY <1>3, <2>7, <2>8, SameSeq DEF Parts
<1>7. PICK s, t : s = FlattenSeq(p) /\ t = FlattenSeq(q)
  OBVIOUS
<1>8. IsSeq(s) /\ IsSeq(t)
  BY <1>2, <1>7, JoinsExist, FlattenJoins
<1>9. s = t => Fit(s, t)
  BY <1>8, FitFacts
<1>10. Fit(s, t) => s = t
  BY <1>1, <1>6, <1>7
<1> QED
  BY <1>2, <1>6, <1>7, <1>8, <1>9, <1>10 DEF Told

\* A character as JSON has it.
Backslash == <<"mark", "backslash">>
Escaped(c) == IF c \in {Quote, LineBreak, Backslash} THEN <<Backslash, c>> ELSE <<c>>
EscapedAll(text) == [i \in DOMAIN text |-> Escaped(text[i])]

\* No two characters are escaped alike, and none as the quote that ends the text.
LEMMA EscapedTells ==
  ASSUME NEW c, NEW d
  PROVE  /\ Told(Escaped(c), Escaped(d)) /\ (Escaped(c) = Escaped(d) => c = d)
         /\ ~Fit(Escaped(c), <<Quote>>) /\ ~Fit(<<Quote>>, Escaped(d))
<1>1. Quote # Backslash
  BY DEF Quote, Backslash
<1>2. ASSUME NEW x
      PROVE  /\ x \in {Quote, LineBreak, Backslash} => Escaped(x) = <<Backslash, x>> /\ Len(Escaped(x)) = 2
                                                       /\ Escaped(x)[1] = Backslash /\ Escaped(x)[2] = x
             /\ x \notin {Quote, LineBreak, Backslash} => Escaped(x) = <<x>> /\ Len(Escaped(x)) = 1 /\
                  Escaped(x)[1] = x
                                                          /\ x # Backslash /\ x # Quote
             /\ IsSeq(Escaped(x))
  <2>1. <<Backslash, x>> \in Seq({Backslash, x}) /\ <<x>> \in Seq({x}) /\ Len(<<Backslash, x>>) = 2 /\ Len(<<x>>) = 1
        /\ <<Backslash, x>>[1] = Backslash /\ <<Backslash, x>>[2] = x /\ <<x>>[1] = x
    OBVIOUS
  <2>2. IsSeq(<<Backslash, x>>) /\ IsSeq(<<x>>)
    BY <2>1 DEF IsSeq
  <2> QED
    BY <2>1, <2>2 DEF Escaped
<1>3. PICK v, w, e : v = Escaped(c) /\ w = Escaped(d) /\ e = <<Quote>>
  OBVIOUS
<1>4. IsSeq(v) /\ IsSeq(w) /\ Len(e) = 1 /\ e[1] = Quote
  BY <1>2, <1>3, OneToken
<1>5. /\ (Len(v) = 2 /\ v[1] = Backslash /\ v[2] = c) \/ (Len(v) = 1 /\ v[1] = c /\ c # Backslash /\ c # Quote)
      /\ (Len(w) = 2 /\ w[1] = Backslash /\ w[2] = d) \/ (Len(w) = 1 /\ w[1] = d /\ d # Backslash /\ d # Quote)
  BY <1>2, <1>3
<1>6. Fit(v, w) => Len(v) = Len(w) /\ c = d
  <2> SUFFICES ASSUME Fit(v, w) PROVE Len(v) = Len(w) /\ c = d
    OBVIOUS
  <2>1. v[1] = w[1]
    <3>1. 1 \in 1..Len(v) /\ 1 =< Len(w)
      BY <1>5
    <3> QED
      BY <3>1 DEF Fit
  <2>2. Len(v) = Len(w)
    BY <1>5, <2>1
  <2>3. CASE Len(v) = 2
    <3>1. 2 \in 1..Len(v) /\ 2 =< Len(w)
      BY <2>2, <2>3
    <3>2. v[2] = w[2]
      BY <3>1 DEF Fit
    <3> QED
      BY <1>5, <2>2, <2>3, <3>2
  <2>4. CASE Len(v) = 1
    BY <1>5, <2>1, <2>2, <2>4
  <2> QED
    BY <1>5, <2>3, <2>4
<1>7. ~Fit(v, e) /\ ~Fit(e, w)
  <2>1. 1 \in 1..Len(v) /\ 1 =< Len(e) /\ 1 \in 1..Len(e) /\ 1 =< Len(w)
    BY <1>4, <1>5
  <2>2. v[1] # e[1] /\ e[1] # w[1]
    BY <1>1, <1>4, <1>5
  <2> QED
    BY <2>1, <2>2 DEF Fit
<1>8. Fit(v, w) => v = w
  BY <1>4, <1>6, FitFacts
<1>9. v = w => Fit(v, w)
  BY <1>4, FitFacts
<1> QED
  BY <1>3, <1>4, <1>6, <1>7, <1>8, <1>9 DEF Told

\* How a text in JSON begins.
Opens(json, e) == IsSeq(json) /\ json # << >> /\ json[1] = e

\* What begins with a token.
LEMMA HeadFacts ==
  ASSUME NEW e, NEW p, IsSeq(p)
  PROVE  Opens(<<e>> \o p, e)
<1>1. PICK h, s : h = <<e>> /\ s = h \o p
  OBVIOUS
<1>2. IsSeq(h) /\ Len(h) = 1 /\ h[1] = e
  BY <1>1, OneToken
<1>3. IsSeq(s) /\ Fit(h, s) /\ Len(p) \in Nat
  <2>1. IsSeq(s) /\ Len(p) \in Nat
    BY <1>1, <1>2, CatFacts
  <2>2. Fit(s, s)
    BY <2>1, FitFacts
  <2> QED
    BY <1>1, <1>2, <2>1, <2>2, PeelOne
<1>4. Len(s) >= 1
  <2>1. Len(s) = Len(h) + Len(p)
    BY <1>1, <1>2, CatFacts
  <2> QED
    BY <1>2, <1>3, <2>1
<1>5. s # << >>
  BY <1>4, NoTokens
<1>6. s[1] = h[1]
  <2>1. 1 \in 1..Len(h) /\ 1 =< Len(s)
    BY <1>2, <1>4
  <2> QED
    BY <1>3, <2>1 DEF Fit
<1> QED
  BY <1>1, <1>2, <1>3, <1>5, <1>6 DEF Opens

\* A text in JSON ends at its closing quote, whatever quotes it holds.
LEMMA JsonTextTells ==
  ASSUME NEW p \in Text
  PROVE  /\ Opens(JsonText(p), Quote)
         /\ \A q \in Text : Told(JsonText(p), JsonText(q)) /\ (JsonText(p) = JsonText(q) => p = q)
<1>1. ASSUME NEW q \in Text
      PROVE  /\ IsSeq(q) /\ DOMAIN q = 1..Len(q) /\ Len(q) \in Nat
             /\ Parts(EscapedAll(q)) /\ Len(EscapedAll(q)) = Len(q) /\ IsSeq(FlattenSeq(EscapedAll(q)))
             /\ \A i \in 1..Len(q) : EscapedAll(q)[i] = Escaped(q[i])
             /\ JsonText(q) = <<Quote>> \o FlattenSeq(EscapedAll(q)) \o <<Quote>>
  <2>1. IsSeq(q) /\ DOMAIN q = 1..Len(q) /\ Len(q) \in Nat
    <3>1. IsSeq(q)
      BY TextFacts DEF Text
    <3> QED
      BY <3>1, SeqFacts
  <2>2. PICK f : f = EscapedAll(q)
    OBVIOUS
  <2>3. f = [i \in 1..Len(q) |-> f[i]] /\ \A i \in 1..Len(q) : f[i] = Escaped(q[i])
    BY <2>1, <2>2 DEF EscapedAll
  <2>4. IsSeq(f) /\ Len(f) = Len(q)
    BY <2>1, <2>3, OfLength
  <2>5. \A i \in 1..Len(f) : IsSeq(f[i])
    BY <2>3, <2>4, EscapedTells DEF Told
  <2>6. IsSeq(FlattenSeq(f))
    BY <2>4, <2>5, JoinsExist, FlattenJoins DEF Parts
  <2>7. JsonText(q) = <<Quote>> \o FlattenSeq(EscapedAll(q)) \o <<Quote>>
    BY DEF JsonText, EscapedAll, Escaped, Backslash
  <2> QED
    BY <2>1, <2>2, <2>3, <2>4, <2>5, <2>6, <2>7 DEF Parts
<1>2. PICK e : e = <<Quote>>
  OBVIOUS
<1>3. IsSeq(e)
  BY <1>2, OneToken
<1>4. ASSUME NEW q \in Text PROVE JsonText(q) = e \o (FlattenSeq(EscapedAll(q)) \o e) /\
             IsSeq(FlattenSeq(EscapedAll(q)) \o e)
  <2>1. PICK f : f = FlattenSeq(EscapedAll(q))
    OBVIOUS
  <2>2. IsSeq(f) /\ JsonText(q) = (e \o f) \o e
    BY <1>1, <1>2, <2>1
  <2>3. (e \o f) \o e = e \o (f \o e)
    BY <1>3, <2>2, Grouped
  <2>4. IsSeq(f \o e)
    BY <1>3, <2>2, CatFacts
  <2> QED
    BY <2>1, <2>2, <2>3, <2>4
<1>5. Opens(JsonText(p), Quote)
  <2>1. PICK f : f = FlattenSeq(EscapedAll(p)) \o e
    OBVIOUS
  <2>2. JsonText(p) = <<Quote>> \o f /\ IsSeq(f)
    BY <1>2, <1>4, <2>1
  <2> QED
    BY <2>2, HeadFacts
<1>6. ASSUME NEW q \in Text PROVE Told(JsonText(p), JsonText(q)) /\ (JsonText(p) = JsonText(q) => p = q)
  <2>1. PICK f, g : f = EscapedAll(p) /\ g = EscapedAll(q)
    OBVIOUS
  <2>2. /\ Parts(f) /\ Parts(g) /\ Len(f) = Len(p) /\ Len(g) = Len(q) /\ IsSeq(p) /\ IsSeq(q)
        /\ (\A i \in 1..Len(f) : f[i] = Escaped(p[i])) /\ \A i \in 1..Len(g) : g[i] = Escaped(q[i])
    BY <1>1, <2>1
  <2>3. \A i \in 1..Len(f) : i =< Len(g) => Told(f[i], g[i])
    <3> SUFFICES ASSUME NEW i \in 1..Len(f), i =< Len(g) PROVE Told(f[i], g[i])
      OBVIOUS
    <3>1. Len(f) \in Nat /\ Len(g) \in Nat
      BY <2>2, SeqFacts DEF Parts
    <3>2. i \in 1..Len(g)
      BY <3>1
    <3>3. f[i] = Escaped(p[i]) /\ g[i] = Escaped(q[i])
      BY <2>2, <3>2
    <3> QED
      BY <3>3, EscapedTells
  <2>4. (\A i \in 1..Len(f) : ~Fit(f[i], e)) /\ \A i \in 1..Len(g) : ~Fit(e, g[i])
    BY <1>2, <2>2, EscapedTells
  <2>5. Told(FlattenSeq(f) \o e, FlattenSeq(g) \o e) /\ (FlattenSeq(f) \o e = FlattenSeq(g) \o e => f = g)
    BY <1>3, <2>2, <2>3, <2>4, EndedTell
  <2>6. f = g => p = q
    <3> SUFFICES ASSUME f = g PROVE p = q
      OBVIOUS
    <3>1. Len(p) = Len(q)
      BY <2>2
    <3>2. \A i \in 1..Len(p) : Escaped(p[i]) = Escaped(q[i])
      BY <2>2
    <3>3. \A i \in 1..Len(p) : p[i] = q[i]
      BY <3>2, EscapedTells
    <3> QED
      BY <2>2, <3>1, <3>3, SameSeq
  <2>7. PICK x, y : x = FlattenSeq(f) \o e /\ y = FlattenSeq(g) \o e
    OBVIOUS
  <2>8. JsonText(p) = e \o x /\ JsonText(q) = e \o y /\ IsSeq(x) /\ IsSeq(y)
    BY <1>4, <2>1, <2>7
  <2>9. Told(e, e) /\ Told(x, y) /\ (x = y => f = g)
    BY <1>3, <2>5, <2>7 DEF Told
  <2>10. Told(e \o x, e \o y) /\ (e \o x = e \o y => x = y)
    BY <2>8, <2>9, Told2
  <2> QED
    BY <2>6, <2>8, <2>9, <2>10
<1> QED
  BY <1>5, <1>6

\* What begins otherwise, and what goes on.
LEMMA OpensFacts ==
  ASSUME NEW x, NEW e, Opens(x, e)
  PROVE  /\ \A y : IsSeq(y) => Opens(x \o y, e)
         /\ \A f : f # e => ~Fit(x, <<f>>) /\ ~Fit(<<f>>, x)
<1>1. IsSeq(x) /\ x # << >> /\ x[1] = e /\ Len(x) \in Nat
  BY SeqFacts DEF Opens
<1>2. Len(x) # 0
  BY <1>1 DEF IsSeq
<1>3. ASSUME NEW y, IsSeq(y) PROVE Opens(x \o y, e)
  <2>1. PICK s : s = x \o y
    OBVIOUS
  <2>2. IsSeq(s) /\ Len(y) \in Nat /\ Len(s) = Len(x) + Len(y) /\ \A i \in 1..Len(x) : s[i] = x[i]
    BY <1>1, <1>3, <2>1, CatFacts
  <2>3. 1 \in 1..Len(x) /\ Len(s) # 0
    BY <1>1, <1>2, <2>2
  <2>4. s[1] = e /\ s # << >>
    BY <1>1, <2>2, <2>3, NoTokens
  <2> QED
    BY <2>1, <2>2, <2>4 DEF Opens
<1>4. ASSUME NEW f, f # e PROVE ~Fit(x, <<f>>) /\ ~Fit(<<f>>, x)
  <2>1. PICK s : s = <<f>>
    OBVIOUS
  <2>2. Len(s) = 1 /\ s[1] = f
    BY <2>1, OneToken
  <2>3. 1 \in 1..Len(x) /\ 1 =< Len(s) /\ 1 \in 1..Len(s) /\ 1 =< Len(x)
    BY <1>1, <1>2, <2>2
  <2>4. s[1] # x[1]
    BY <1>1, <1>4, <2>2
  <2> QED
    BY <2>1, <2>3, <2>4 DEF Fit
<1> QED
  BY <1>3, <1>4

\* JSON's marks.
Brace == <<"mark", "{">>
Bracket == <<"mark", "]">>
Comma == <<"mark", ",">>

\* An object, a member of it, a number.
LEMMA ObjectTells ==
  ASSUME NEW ms, NEW ks, Parts(ms), Parts(ks), Len(ms) = Len(ks), \A i \in 1..Len(ms) : Told(ms[i], ks[i])
  PROVE  /\ Opens(JsonObject(ms), Brace)
         /\ Told(JsonObject(ms), JsonObject(ks)) /\ (JsonObject(ms) = JsonObject(ks) => ms = ks)
<1>1. PICK b, c, f, g : b = <<Brace>> /\ c = <<<<"mark", "}">>>> /\ f = FlattenSeq(ms) /\ g = FlattenSeq(ks)
  OBVIOUS
<1>2. IsSeq(b) /\ IsSeq(c)
  BY <1>1, OneToken
<1>3. Told(b, b) /\ Told(c, c)
  BY <1>2 DEF Told
<1>4. Told(f, g) /\ (f = g => ms = ks)
  BY <1>1, ManyTell
<1>5. JsonObject(ms) = Row3(b, f, c) /\ JsonObject(ks) = Row3(b, g, c)
  BY <1>1 DEF JsonObject, Row3, Brace
<1>6. Told(Row3(b, f, c), Row3(b, g, c)) /\ (Row3(b, f, c) = Row3(b, g, c) => f = g)
  BY <1>3, <1>4, Told3
<1>7. Opens(JsonObject(ms), Brace)
  <2>1. IsSeq(f)
    BY <1>4 DEF Told
  <2>2. PICK s : s = b \o f
    OBVIOUS
  <2>3. Opens(s, Brace)
    BY <1>1, <2>1, <2>2, HeadFacts
  <2>4. Opens(s \o c, Brace)
    BY <1>2, <2>3, OpensFacts
  <2> QED
    BY <1>5, <2>2, <2>4 DEF Row3
<1> QED
  BY <1>4, <1>5, <1>6, <1>7

\* A member is told apart by its value.
LEMMA MemberTells ==
  ASSUME NEW name, NEW j, NEW k, Told(j, k)
  PROVE  Told(JsonMember(name, j), JsonMember(name, k)) /\ (JsonMember(name, j) = JsonMember(name, k) => j = k)
<1>1. PICK l : l = <<Label(name)>>
  OBVIOUS
<1>2. Told(l, l) /\ IsSeq(j) /\ IsSeq(k)
  BY <1>1, OneToken DEF Told
<1>3. Told(l \o j, l \o k) /\ (l \o j = l \o k => j = k)
  BY <1>2, Told2
<1> QED
  BY <1>1, <1>3 DEF JsonMember

\* So is a number.
LEMMA NumberTells ==
  ASSUME NEW n, NEW m
  PROVE  Told(<<Number(n)>>, <<Number(m)>>) /\ (<<Number(n)>> = <<Number(m)>> => n = m)
<1>1. PICK x, y : x = <<Number(n)>> /\ y = <<Number(m)>>
  OBVIOUS
<1>2. IsSeq(x) /\ IsSeq(y) /\ Len(x) = 1 /\ Len(y) = 1 /\ x[1] = Number(n) /\ y[1] = Number(m)
  BY <1>1, OneToken
<1>3. Fit(x, y) => x = y
  BY <1>2, FitFacts
<1>4. x = y => n = m
  BY <1>2, TokenFacts
<1> QED
  BY <1>1, <1>2, <1>3, <1>4 DEF Told

\* An optional value in JSON, which begins otherwise than null.
LEMMA JsonOptionTells ==
  ASSUME NEW S, NEW o \in Optional(S), NEW r \in Optional(S), NEW w, NEW v, NEW e, e # Word("null"),
         o # None => Opens(w, e), r # None => Opens(v, e),
         o # None /\ r # None => Told(w, v) /\ (w = v => o[1] = r[1])
  PROVE  LET a == IF o = None THEN <<Word("null")>> ELSE w
             b == IF r = None THEN <<Word("null")>> ELSE v
         IN Told(a, b) /\ (a = b => o = r)
<1>1. PICK n : n = <<Word("null")>>
  OBVIOUS
<1>2. IsSeq(n) /\ \A x : Opens(x, e) => IsSeq(x) /\ ~Fit(x, n) /\ ~Fit(n, x) /\ x # n
  <2>1. IsSeq(n)
    BY <1>1, OneToken
  <2>2. Fit(n, n)
    BY <2>1, FitFacts
  <2>3. \A x : Opens(x, e) => IsSeq(x) /\ ~Fit(x, n) /\ ~Fit(n, x)
    BY <1>1, OpensFacts DEF Opens
  <2> QED
    BY <2>1, <2>2, <2>3
<1>3. PICK a, b : a = (IF o = None THEN <<Word("null")>> ELSE w) /\ b = (IF r = None THEN <<Word("null")>> ELSE v)
  OBVIOUS
<1>4. CASE o = None /\ r = None
  BY <1>1, <1>2, <1>3, <1>4 DEF Told
<1>5. CASE o = None /\ r # None
  BY <1>1, <1>2, <1>3, <1>5 DEF Told
<1>6. CASE o # None /\ r = None
  BY <1>1, <1>2, <1>3, <1>6 DEF Told
<1>7. CASE o # None /\ r # None
  <2>1. o = Some(o[1]) /\ r = Some(r[1])
    BY <1>7, OptionalFacts
  <2> QED
    BY <1>3, <1>7, <2>1
<1> QED
  BY <1>4, <1>5, <1>6, <1>7

\* A list.
LEMMA ListTells ==
  ASSUME NEW items, NEW others, IsSeq(items), IsSeq(others), NEW e, e # Bracket,
         \A i \in 1..Len(items) : Opens(items[i], e), \A i \in 1..Len(others) : Opens(others[i], e),
         \A i \in 1..Len(items) : i =< Len(others) => Told(items[i], others[i])
  PROVE  Told(JsonList(items), JsonList(others)) /\ (JsonList(items) = JsonList(others) => items = others)
<1> DEFINE closed(s) == [i \in DOMAIN s |-> s[i] \o <<Comma>>]
<1>1. PICK b, c, d : b = <<<<"mark", "[">>>> /\ c = <<Comma>> /\ d = <<Bracket>>
  OBVIOUS
<1>2. IsSeq(b) /\ IsSeq(c) /\ IsSeq(d) /\ Told(b, b) /\ Told(c, c)
  <2>1. IsSeq(b) /\ IsSeq(c) /\ IsSeq(d)
    BY <1>1, OneToken
  <2> QED
    BY <2>1 DEF Told
<1>3. ASSUME NEW s, IsSeq(s), \A i \in 1..Len(s) : Opens(s[i], e)
      PROVE  /\ Parts(closed(s)) /\ Len(closed(s)) = Len(s) /\ Len(s) \in Nat
             /\ \A i \in 1..Len(s) : /\ closed(s)[i] = s[i] \o c /\ IsSeq(s[i])
                                     /\ ~Fit(closed(s)[i], d) /\ ~Fit(d, closed(s)[i])
             /\ JsonList(s) = b \o FlattenSeq(closed(s)) \o d
  <2>1. DOMAIN s = 1..Len(s) /\ Len(s) \in Nat
    BY <1>3, SeqFacts
  <2>2. PICK f : f = closed(s)
    OBVIOUS
  <2>3. f = [i \in 1..Len(s) |-> f[i]] /\ \A i \in 1..Len(s) : f[i] = s[i] \o c
    BY <1>1, <2>1, <2>2
  <2>4. IsSeq(f) /\ Len(f) = Len(s)
    BY <2>1, <2>3, OfLength
  <2>5. \A i \in 1..Len(s) : Opens(f[i], e) /\ IsSeq(s[i])
    <3> TAKE i \in 1..Len(s)
    <3>1. PICK x : x = s[i]
      OBVIOUS
    <3>2. Opens(x, e)
      BY <1>3, <3>1
    <3>3. Opens(x \o c, e)
      BY <1>2, <3>2, OpensFacts
    <3> QED
      BY <2>3, <3>1, <3>2, <3>3 DEF Opens
  <2>6. \A i \in 1..Len(s) : ~Fit(f[i], d) /\ ~Fit(d, f[i]) /\ IsSeq(f[i])
    BY <1>1, <2>5, OpensFacts DEF Opens
  <2>7. Parts(f)
    BY <2>4, <2>6 DEF Parts
  <2>8. JsonList(s) = b \o FlattenSeq(f) \o d
    BY <1>1, <2>2 DEF JsonList, Comma, Bracket
  <2> QED
    BY <2>1, <2>2, <2>3, <2>4, <2>5, <2>6, <2>7, <2>8
<1>4. PICK f, g : f = closed(items) /\ g = closed(others)
  OBVIOUS
<1>5. /\ Parts(f) /\ Len(f) = Len(items) /\ Len(items) \in Nat /\ JsonList(items) = b \o FlattenSeq(f) \o d
      /\ \A i \in 1..Len(items) : f[i] = items[i] \o c /\ IsSeq(items[i]) /\ ~Fit(f[i], d)
  BY <1>3, <1>4
<1>6. /\ Parts(g) /\ Len(g) = Len(others) /\ Len(others) \in Nat /\ JsonList(others) = b \o FlattenSeq(g) \o d
      /\ \A i \in 1..Len(others) : g[i] = others[i] \o c /\ IsSeq(others[i]) /\ ~Fit(d, g[i])
  BY <1>3, <1>4
<1> HIDE DEF closed
<1>7. \A i \in 1..Len(items) : i =< Len(others) => Told(f[i], g[i]) /\ (f[i] = g[i] => items[i] = others[i])
  <2> SUFFICES ASSUME NEW i \in 1..Len(items), i =< Len(others)
               PROVE  Told(f[i], g[i]) /\ (f[i] = g[i] => items[i] = others[i])
    OBVIOUS
  <2>1. i \in 1..Len(others)
    BY <1>5, <1>6
  <2>2. PICK x, y : x = items[i] /\ y = others[i]
    OBVIOUS
  <2>3. Told(x, y) /\ f[i] = x \o c /\ g[i] = y \o c
    BY <1>5, <1>6, <2>1, <2>2
  <2>4. Told(x \o c, y \o c) /\ (x \o c = y \o c => x = y)
    BY <1>2, <2>3, Told2
  <2> QED
    BY <2>2, <2>3, <2>4
<1>8. Told(FlattenSeq(f) \o d, FlattenSeq(g) \o d) /\ (FlattenSeq(f) \o d = FlattenSeq(g) \o d => f = g)
  <2>1. \A i \in 1..Len(f) : i =< Len(g) => Told(f[i], g[i])
    BY <1>5, <1>6, <1>7
  <2>2. (\A i \in 1..Len(f) : ~Fit(f[i], d)) /\ \A i \in 1..Len(g) : ~Fit(d, g[i])
    BY <1>5, <1>6
  <2> QED
    <3>1. Parts(f) /\ Parts(g) /\ IsSeq(d)
      BY <1>2, <1>5, <1>6
    <3> QED
      BY <2>1, <2>2, <3>1, EndedTell
<1>9. f = g => items = others
  <2> SUFFICES ASSUME f = g PROVE items = others
    OBVIOUS
  <2>1. Len(items) = Len(others)
    BY <1>5, <1>6
  <2>2. \A i \in 1..Len(items) : items[i] = others[i]
    BY <1>5, <1>7, <2>1
  <2> QED
    BY <2>1, <2>2, SameSeq
<1>10. PICK p, q, x, y : p = FlattenSeq(f) /\ q = FlattenSeq(g) /\ x = p \o d /\ y = q \o d
  OBVIOUS
<1>11. Told(x, y) /\ (x = y => items = others)
  BY <1>8, <1>9, <1>10
<1>12. JsonList(items) = b \o x
  <2>1. IsSeq(p)
    BY <1>5, <1>10, JoinsExist, FlattenJoins
  <2>2. (b \o p) \o d = b \o (p \o d)
    BY <1>2, <2>1, Grouped
  <2> QED
    BY <1>5, <1>10, <2>2
<1>13. JsonList(others) = b \o y
  <2>1. IsSeq(q)
    BY <1>6, <1>10, JoinsExist, FlattenJoins
  <2>2. (b \o q) \o d = b \o (q \o d)
    BY <1>2, <2>1, Grouped
  <2> QED
    BY <1>6, <1>10, <2>2
<1>14. IsSeq(x) /\ IsSeq(y)
  BY <1>11 DEF Told
<1>15. Told(b \o x, b \o y) /\ (b \o x = b \o y => x = y)
  BY <1>2, <1>11, <1>14, Told2
<1> QED
  BY <1>11, <1>12, <1>13, <1>15

\* Objects of three, five and seven members, kept closed.
Object3(m1, m2, m3) == JsonObject(<<m1, m2, m3>>)

\* They are told apart member by member.
LEMMA Members3 ==
  ASSUME NEW m1, NEW m2, NEW m3,
         NEW k1, NEW k2, NEW k3,
         Told(m1, k1), Told(m2, k2), Told(m3, k3)
  PROVE  /\ Opens(Object3(m1, m2, m3), Brace)
         /\ Told(Object3(m1, m2, m3), Object3(k1, k2, k3))
         /\ Object3(m1, m2, m3) = Object3(k1, k2, k3) => m1 = k1 /\ m2 = k2 /\ m3 = k3
<1> DEFINE ms == <<m1, m2, m3>>
           ks == <<k1, k2, k3>>
<1>1. Len(ms) = 3 /\ ms \in Seq({m1, m2, m3}) /\ ms[1] = m1 /\ ms[2] = m2 /\ ms[3] = m3
  OBVIOUS
<1>2. Len(ks) = 3 /\ ks \in Seq({k1, k2, k3}) /\ ks[1] = k1 /\ ks[2] = k2 /\ ks[3] = k3
  OBVIOUS
<1>9. Object3(m1, m2, m3) = JsonObject(ms) /\ Object3(k1, k2, k3) = JsonObject(ks)
  BY DEF Object3
<1> HIDE DEF ms, ks
<1>3. \A i \in 1..3 : i = 1 \/ i = 2 \/ i = 3
  OBVIOUS
<1>4. \A i \in 1..3 : Told(ms[i], ks[i])
  BY <1>1, <1>2, <1>3
<1>5. \A i \in 1..3 : IsSeq(ms[i]) /\ IsSeq(ks[i])
  BY <1>4 DEF Told
<1>6. Parts(ms) /\ Parts(ks)
  BY <1>1, <1>2, <1>5 DEF Parts, IsSeq
<1>7. Opens(JsonObject(ms), Brace) /\ Told(JsonObject(ms), JsonObject(ks)) /\
        (JsonObject(ms) = JsonObject(ks) => ms = ks)
  BY <1>1, <1>2, <1>4, <1>6, ObjectTells
<1>8. ms = ks => m1 = k1 /\ m2 = k2 /\ m3 = k3
  BY <1>1, <1>2
<1> QED
  BY <1>7, <1>8, <1>9

Object5(m1, m2, m3, m4, m5) == JsonObject(<<m1, m2, m3, m4, m5>>)

LEMMA Members5 ==
  ASSUME NEW m1, NEW m2, NEW m3, NEW m4, NEW m5,
         NEW k1, NEW k2, NEW k3, NEW k4, NEW k5,
         Told(m1, k1), Told(m2, k2), Told(m3, k3), Told(m4, k4), Told(m5, k5)
  PROVE  /\ Opens(Object5(m1, m2, m3, m4, m5), Brace)
         /\ Told(Object5(m1, m2, m3, m4, m5), Object5(k1, k2, k3, k4, k5))
         /\ Object5(m1, m2, m3, m4, m5) = Object5(k1, k2, k3, k4, k5) => m1 = k1 /\ m2 = k2 /\ m3 = k3 /\ m4 = k4 /\
              m5 = k5
<1> DEFINE ms == <<m1, m2, m3, m4, m5>>
           ks == <<k1, k2, k3, k4, k5>>
<1>1. /\ Len(ms) = 5 /\ ms \in Seq({m1, m2, m3, m4, m5}) /\ ms[1] = m1 /\ ms[2] = m2 /\ ms[3] = m3 /\ ms[4] = m4
      /\ ms[5] = m5
  OBVIOUS
<1>2. /\ Len(ks) = 5 /\ ks \in Seq({k1, k2, k3, k4, k5}) /\ ks[1] = k1 /\ ks[2] = k2 /\ ks[3] = k3 /\ ks[4] = k4
      /\ ks[5] = k5
  OBVIOUS
<1>9. Object5(m1, m2, m3, m4, m5) = JsonObject(ms) /\ Object5(k1, k2, k3, k4, k5) = JsonObject(ks)
  BY DEF Object5
<1> HIDE DEF ms, ks
<1>3. \A i \in 1..5 : i = 1 \/ i = 2 \/ i = 3 \/ i = 4 \/ i = 5
  OBVIOUS
<1>4. \A i \in 1..5 : Told(ms[i], ks[i])
  BY <1>1, <1>2, <1>3
<1>5. \A i \in 1..5 : IsSeq(ms[i]) /\ IsSeq(ks[i])
  BY <1>4 DEF Told
<1>6. Parts(ms) /\ Parts(ks)
  BY <1>1, <1>2, <1>5 DEF Parts, IsSeq
<1>7. Opens(JsonObject(ms), Brace) /\ Told(JsonObject(ms), JsonObject(ks)) /\
        (JsonObject(ms) = JsonObject(ks) => ms = ks)
  BY <1>1, <1>2, <1>4, <1>6, ObjectTells
<1>8. ms = ks => m1 = k1 /\ m2 = k2 /\ m3 = k3 /\ m4 = k4 /\ m5 = k5
  BY <1>1, <1>2
<1> QED
  BY <1>7, <1>8, <1>9

Object7(m1, m2, m3, m4, m5, m6, m7) == JsonObject(<<m1, m2, m3, m4, m5, m6, m7>>)

LEMMA Members7 ==
  ASSUME NEW m1, NEW m2, NEW m3, NEW m4, NEW m5, NEW m6, NEW m7,
         NEW k1, NEW k2, NEW k3, NEW k4, NEW k5, NEW k6, NEW k7,
         Told(m1, k1), Told(m2, k2), Told(m3, k3), Told(m4, k4), Told(m5, k5), Told(m6, k6), Told(m7, k7)
  PROVE  /\ Opens(Object7(m1, m2, m3, m4, m5, m6, m7), Brace)
         /\ Told(Object7(m1, m2, m3, m4, m5, m6, m7), Object7(k1, k2, k3, k4, k5, k6, k7))
         /\ Object7(m1, m2, m3, m4, m5, m6, m7) = Object7(k1, k2, k3, k4, k5, k6, k7) => m1 = k1 /\ m2 = k2 /\
              m3 = k3 /\ m4 = k4 /\ m5 = k5 /\ m6 = k6 /\ m7 = k7
<1> DEFINE ms == <<m1, m2, m3, m4, m5, m6, m7>>
           ks == <<k1, k2, k3, k4, k5, k6, k7>>
<1>1. /\ Len(ms) = 7 /\ ms \in Seq({m1, m2, m3, m4, m5, m6, m7}) /\ ms[1] = m1 /\ ms[2] = m2 /\ ms[3] = m3
      /\ ms[4] = m4 /\ ms[5] = m5 /\ ms[6] = m6 /\ ms[7] = m7
  OBVIOUS
<1>2. /\ Len(ks) = 7 /\ ks \in Seq({k1, k2, k3, k4, k5, k6, k7}) /\ ks[1] = k1 /\ ks[2] = k2 /\ ks[3] = k3
      /\ ks[4] = k4 /\ ks[5] = k5 /\ ks[6] = k6 /\ ks[7] = k7
  OBVIOUS
<1>9. Object7(m1, m2, m3, m4, m5, m6, m7) = JsonObject(ms) /\ Object7(k1, k2, k3, k4, k5, k6, k7) = JsonObject(ks)
  BY DEF Object7
<1> HIDE DEF ms, ks
<1>3. \A i \in 1..7 : i = 1 \/ i = 2 \/ i = 3 \/ i = 4 \/ i = 5 \/ i = 6 \/ i = 7
  OBVIOUS
<1>4. \A i \in 1..7 : Told(ms[i], ks[i])
  BY <1>1, <1>2, <1>3
<1>5. \A i \in 1..7 : IsSeq(ms[i]) /\ IsSeq(ks[i])
  BY <1>4 DEF Told
<1>6. Parts(ms) /\ Parts(ks)
  BY <1>1, <1>2, <1>5 DEF Parts, IsSeq
<1>7. Opens(JsonObject(ms), Brace) /\ Told(JsonObject(ms), JsonObject(ks)) /\
        (JsonObject(ms) = JsonObject(ks) => ms = ks)
  BY <1>1, <1>2, <1>4, <1>6, ObjectTells
<1>8. ms = ks => m1 = k1 /\ m2 = k2 /\ m3 = k3 /\ m4 = k4 /\ m5 = k5 /\ m6 = k6 /\ m7 = k7
  BY <1>1, <1>2
<1> QED
  BY <1>7, <1>8, <1>9

\* A text that may be left out.
LEMMA TextOptionJson ==
  ASSUME NEW p \in Optional(Text), NEW q \in Optional(Text)
  PROVE  Told(JsonOption(p, JsonText), JsonOption(q, JsonText)) /\
           (JsonOption(p, JsonText) = JsonOption(q, JsonText) => p = q)
<1>1. PICK w, v : w = JsonText(p[1]) /\ v = JsonText(q[1])
  OBVIOUS
<1>2. Quote # Word("null")
  BY DEF Quote, Word
<1>3. (p # None => p[1] \in Text) /\ (q # None => q[1] \in Text)
  BY OptionalFacts
<1>4. (p # None => Opens(w, Quote)) /\ (q # None => Opens(v, Quote))
  BY <1>1, <1>3, JsonTextTells
<1>5. p # None /\ q # None => Told(w, v) /\ (w = v => p[1] = q[1])
  BY <1>1, <1>3, JsonTextTells
<1>6. PICK a, b : a = (IF p = None THEN <<Word("null")>> ELSE w) /\ b = (IF q = None THEN <<Word("null")>> ELSE v)
  OBVIOUS
<1>7. Told(a, b) /\ (a = b => p = q)
  BY <1>2, <1>4, <1>5, <1>6, JsonOptionTells
<1>8. JsonOption(p, JsonText) = a /\ JsonOption(q, JsonText) = b
  BY <1>1, <1>6 DEF JsonOption
<1> QED
  BY <1>7, <1>8

\* A key of a document as sent.
KeySent(k) == k \in PublicKeys /\ k.alias = FALSE

\* Keys are told apart.
LEMMA KeyTells ==
  ASSUME NEW k, NEW h, KeySent(k), KeySent(h)
  PROVE  /\ Opens(KeyJson(k), Brace)
         /\ Told(KeyJson(k), KeyJson(h)) /\ (KeyJson(k) = KeyJson(h) => k = h)
<1> USE DEF KeySent, PublicKeys
<1> HIDE DEF Text, Optional
<1>1. /\ k.id \in Text /\ k.type \in Text /\ k.controller \in Text /\ k.public_key_base58 \in Optional(Text) /\
           k.public_key_hex \in Optional(Text)
      /\ h.id \in Text /\ h.type \in Text /\ h.controller \in Text /\ h.public_key_base58 \in Optional(Text) /\
           h.public_key_hex \in Optional(Text)
  OBVIOUS
<1>2. PICK x1, y1 : x1 = JsonText(k.id) /\ y1 = JsonText(h.id)
  OBVIOUS
<1>3. Told(x1, y1) /\ (x1 = y1 => k.id = h.id)
  BY <1>1, <1>2, JsonTextTells
<1>4. PICK x2, y2 : x2 = JsonText(k.type) /\ y2 = JsonText(h.type)
  OBVIOUS
<1>5. Told(x2, y2) /\ (x2 = y2 => k.type = h.type)
  BY <1>1, <1>4, JsonTextTells
<1>6. PICK x3, y3 : x3 = JsonText(k.controller) /\ y3 = JsonText(h.controller)
  OBVIOUS
<1>7. Told(x3, y3) /\ (x3 = y3 => k.controller = h.controller)
  BY <1>1, <1>6, JsonTextTells
<1>8. PICK x4, y4 : x4 = JsonOption(k.public_key_base58, JsonText) /\ y4 = JsonOption(h.public_key_base58, JsonText)
  OBVIOUS
<1>9. Told(x4, y4) /\ (x4 = y4 => k.public_key_base58 = h.public_key_base58)
  BY <1>1, <1>8, TextOptionJson
<1>10. PICK x5, y5 : x5 = JsonOption(k.public_key_hex, JsonText) /\ y5 = JsonOption(h.public_key_hex, JsonText)
  OBVIOUS
<1>11. Told(x5, y5) /\ (x5 = y5 => k.public_key_hex = h.public_key_hex)
  BY <1>1, <1>10, TextOptionJson
<1>12. PICK m1, k1 : m1 = JsonMember("id", x1) /\ k1 = JsonMember("id", y1)
  OBVIOUS
<1>13. Told(m1, k1) /\ (m1 = k1 => x1 = y1)
  BY <1>3, <1>12, MemberTells
<1>14. PICK m2, k2 : m2 = JsonMember("type", x2) /\ k2 = JsonMember("type", y2)
  OBVIOUS
<1>15. Told(m2, k2) /\ (m2 = k2 => x2 = y2)
  BY <1>5, <1>14, MemberTells
<1>16. PICK m3, k3 : m3 = JsonMember("controller", x3) /\ k3 = JsonMember("controller", y3)
  OBVIOUS
<1>17. Told(m3, k3) /\ (m3 = k3 => x3 = y3)
  BY <1>7, <1>16, MemberTells
<1>18. PICK m4, k4 : m4 = JsonMember("public_key_base58", x4) /\ k4 = JsonMember("public_key_base58", y4)
  OBVIOUS
<1>19. Told(m4, k4) /\ (m4 = k4 => x4 = y4)
  BY <1>9, <1>18, MemberTells
<1>20. PICK m5, k5 : m5 = JsonMember("public_key_hex", x5) /\ k5 = JsonMember("public_key_hex", y5)
  OBVIOUS
<1>21. Told(m5, k5) /\ (m5 = k5 => x5 = y5)
  BY <1>11, <1>20, MemberTells
<1>22. KeyJson(k) = Object5(m1, m2, m3, m4, m5) /\ KeyJson(h) = Object5(k1, k2, k3, k4, k5)
  BY <1>2, <1>4, <1>6, <1>8, <1>10, <1>12, <1>14, <1>16, <1>18, <1>20 DEF KeyJson, Object5
<1>23. /\ Opens(Object5(m1, m2, m3, m4, m5), Brace)
       /\ Told(Object5(m1, m2, m3, m4, m5), Object5(k1, k2, k3, k4, k5))
       /\ Object5(m1, m2, m3, m4, m5) = Object5(k1, k2, k3, k4, k5) => m1 = k1 /\ m2 = k2 /\ m3 = k3 /\ m4 = k4 /\
            m5 = k5
  BY <1>13, <1>15, <1>17, <1>19, <1>21, Members5
<1>24. m1 = k1 /\ m2 = k2 /\ m3 = k3 /\ m4 = k4 /\ m5 = k5 => k.id = h.id /\ k.type = h.type /\
         k.controller = h.controller /\ k.public_key_base58 = h.public_key_base58 /\
         k.public_key_hex = h.public_key_hex
  BY <1>3, <1>5, <1>7, <1>9, <1>11, <1>13, <1>15, <1>17, <1>19, <1>21
<1>25. k.id = h.id /\ k.type = h.type /\ k.controller = h.controller /\ k.public_key_base58 = h.public_key_base58 /\
         k.public_key_hex = h.public_key_hex => k = h
  OBVIOUS
<1> HIDE DEF KeySent, PublicKeys
<1> QED
  BY <1>22, <1>23, <1>24, <1>25

\* A service of a document as sent.
ServiceSent(s) == s \in Services /\ s.alias = FALSE

\* Services are told apart.
LEMMA ServiceTells ==
  ASSUME NEW s, NEW v, ServiceSent(s), ServiceSent(v)
  PROVE  /\ Opens(ServiceJson(s), Brace)
         /\ Told(ServiceJson(s), ServiceJson(v)) /\ (ServiceJson(s) = ServiceJson(v) => s = v)
<1> USE DEF ServiceSent, Services
<1> HIDE DEF Text, Optional
<1>1. /\ s.id \in Text /\ s.type \in Text /\ s.service_endpoint \in Text
      /\ v.id \in Text /\ v.type \in Text /\ v.service_endpoint \in Text
  OBVIOUS
<1>2. PICK x1, y1 : x1 = JsonText(s.id) /\ y1 = JsonText(v.id)
  OBVIOUS
<1>3. Told(x1, y1) /\ (x1 = y1 => s.id = v.id)
  BY <1>1, <1>2, JsonTextTells
<1>4. PICK x2, y2 : x2 = JsonText(s.type) /\ y2 = JsonText(v.type)
  OBVIOUS
<1>5. Told(x2, y2) /\ (x2 = y2 => s.type = v.type)
  BY <1>1, <1>4, JsonTextTells
<1>6. PICK x3, y3 : x3 = JsonText(s.service_endpoint) /\ y3 = JsonText(v.service_endpoint)
  OBVIOUS
<1>7. Told(x3, y3) /\ (x3 = y3 => s.service_endpoint = v.service_endpoint)
  BY <1>1, <1>6, JsonTextTells
<1>8. PICK m1, k1 : m1 = JsonMember("id", x1) /\ k1 = JsonMember("id", y1)
  OBVIOUS
<1>9. Told(m1, k1) /\ (m1 = k1 => x1 = y1)
  BY <1>3, <1>8, MemberTells
<1>10. PICK m2, k2 : m2 = JsonMember("type", x2) /\ k2 = JsonMember("type", y2)
  OBVIOUS
<1>11. Told(m2, k2) /\ (m2 = k2 => x2 = y2)
  BY <1>5, <1>10, MemberTells
<1>12. PICK m3, k3 : m3 = JsonMember("service_endpoint", x3) /\ k3 = JsonMember("service_endpoint", y3)
  OBVIOUS
<1>13. Told(m3, k3) /\ (m3 = k3 => x3 = y3)
  BY <1>7, <1>12, MemberTells
<1>14. ServiceJson(s) = Object3(m1, m2, m3) /\ ServiceJson(v) = Object3(k1, k2, k3)
  BY <1>2, <1>4, <1>6, <1>8, <1>10, <1>12 DEF ServiceJson, Object3
<1>15. /\ Opens(Object3(m1, m2, m3), Brace)
       /\ Told(Object3(m1, m2, m3), Object3(k1, k2, k3))
       /\ Object3(m1, m2, m3) = Object3(k1, k2, k3) => m1 = k1 /\ m2 = k2 /\ m3 = k3
  BY <1>9, <1>11, <1>13, Members3
<1>16. m1 = k1 /\ m2 = k2 /\ m3 = k3 => s.id = v.id /\ s.type = v.type /\ s.service_endpoint = v.service_endpoint
  BY <1>3, <1>5, <1>7, <1>9, <1>11, <1>13
<1>17. s.id = v.id /\ s.type = v.type /\ s.service_endpoint = v.service_endpoint => s = v
  OBVIOUS
<1> HIDE DEF ServiceSent, Services
<1> QED
  BY <1>14, <1>15, <1>16, <1>17

\* A proof of a document as sent.
ProofSent(p) == p \in DidProofs /\ p.alias = FALSE

\* Proofs are told apart.
LEMMA ProofTells ==
  ASSUME NEW p, NEW q, ProofSent(p), ProofSent(q)
  PROVE  /\ Opens(ProofJson(p), Brace)
         /\ Told(ProofJson(p), ProofJson(q)) /\ (ProofJson(p) = ProofJson(q) => p = q)
<1> USE DEF ProofSent, DidProofs
<1> HIDE DEF Text, Optional
<1>1. /\ p.type \in Text /\ p.created \in Int /\ p.verification_method \in Text /\ p.proof_purpose \in Text /\
           p.jws \in Text
      /\ q.type \in Text /\ q.created \in Int /\ q.verification_method \in Text /\ q.proof_purpose \in Text /\
           q.jws \in Text
  OBVIOUS
<1>2. PICK x1, y1 : x1 = JsonText(p.type) /\ y1 = JsonText(q.type)
  OBVIOUS
<1>3. Told(x1, y1) /\ (x1 = y1 => p.type = q.type)
  BY <1>1, <1>2, JsonTextTells
<1>4. PICK x2, y2 : x2 = <<Number(p.created)>> /\ y2 = <<Number(q.created)>>
  OBVIOUS
<1>5. Told(x2, y2) /\ (x2 = y2 => p.created = q.created)
  BY <1>1, <1>4, NumberTells
<1>6. PICK x3, y3 : x3 = JsonText(p.verification_method) /\ y3 = JsonText(q.verification_method)
  OBVIOUS
<1>7. Told(x3, y3) /\ (x3 = y3 => p.verification_method = q.verification_method)
  BY <1>1, <1>6, JsonTextTells
<1>8. PICK x4, y4 : x4 = JsonText(p.proof_purpose) /\ y4 = JsonText(q.proof_purpose)
  OBVIOUS
<1>9. Told(x4, y4) /\ (x4 = y4 => p.proof_purpose = q.proof_purpose)
  BY <1>1, <1>8, JsonTextTells
<1>10. PICK x5, y5 : x5 = JsonText(p.jws) /\ y5 = JsonText(q.jws)
  OBVIOUS
<1>11. Told(x5, y5) /\ (x5 = y5 => p.jws = q.jws)
  BY <1>1, <1>10, JsonTextTells
<1>12. PICK m1, k1 : m1 = JsonMember("type", x1) /\ k1 = JsonMember("type", y1)
  OBVIOUS
<1>13. Told(m1, k1) /\ (m1 = k1 => x1 = y1)
  BY <1>3, <1>12, MemberTells
<1>14. PICK m2, k2 : m2 = JsonMember("created", x2) /\ k2 = JsonMember("created", y2)
  OBVIOUS
<1>15. Told(m2, k2) /\ (m2 = k2 => x2 = y2)
  BY <1>5, <1>14, MemberTells
<1>16. PICK m3, k3 : m3 = JsonMember("verification_method", x3) /\ k3 = JsonMember("verification_method", y3)
  OBVIOUS
<1>17. Told(m3, k3) /\ (m3 = k3 => x3 = y3)
  BY <1>7, <1>16, MemberTells
<1>18. PICK m4, k4 : m4 = JsonMember("proof_purpose", x4) /\ k4 = JsonMember("proof_purpose", y4)
  OBVIOUS
<1>19. Told(m4, k4) /\ (m4 = k4 => x4 = y4)
  BY <1>9, <1>18, MemberTells
<1>20. PICK m5, k5 : m5 = JsonMember("jws", x5) /\ k5 = JsonMember("jws", y5)
  OBVIOUS
<1>21. Told(m5, k5) /\ (m5 = k5 => x5 = y5)
  BY <1>11, <1>20, MemberTells
<1>22. ProofJson(p) = Object5(m1, m2, m3, m4, m5) /\ ProofJson(q) = Object5(k1, k2, k3, k4, k5)
  BY <1>2, <1>4, <1>6, <1>8, <1>10, <1>12, <1>14, <1>16, <1>18, <1>20 DEF ProofJson, Object5
<1>23. /\ Opens(Object5(m1, m2, m3, m4, m5), Brace)
       /\ Told(Object5(m1, m2, m3, m4, m5), Object5(k1, k2, k3, k4, k5))
       /\ Object5(m1, m2, m3, m4, m5) = Object5(k1, k2, k3, k4, k5) => m1 = k1 /\ m2 = k2 /\ m3 = k3 /\ m4 = k4 /\
            m5 = k5
  BY <1>13, <1>15, <1>17, <1>19, <1>21, Members5
<1>24. m1 = k1 /\ m2 = k2 /\ m3 = k3 /\ m4 = k4 /\ m5 = k5 => p.type = q.type /\ p.created = q.created /\
         p.verification_method = q.verification_method /\ p.proof_purpose = q.proof_purpose /\ p.jws = q.jws
  BY <1>3, <1>5, <1>7, <1>9, <1>11, <1>13, <1>15, <1>17, <1>19, <1>21
<1>25. p.type = q.type /\ p.created = q.created /\ p.verification_method = q.verification_method /\
         p.proof_purpose = q.proof_purpose /\ p.jws = q.jws => p = q
  OBVIOUS
<1> HIDE DEF ProofSent, DidProofs
<1> QED
  BY <1>22, <1>23, <1>24, <1>25

\* A list of things, each written as an item of it.
LEMMA ItemsTell ==
  ASSUME NEW s, NEW r, NEW x, NEW y, NEW e, e # Bracket,
         IsSeq(s), IsSeq(r), IsSeq(x), IsSeq(y), Len(x) = Len(s), Len(y) = Len(r),
         \A i \in 1..Len(s) : Opens(x[i], e), \A i \in 1..Len(r) : Opens(y[i], e),
         \A i \in 1..Len(s), j \in 1..Len(r) : Told(x[i], y[j]) /\ (x[i] = y[j] => s[i] = r[j])
  PROVE  Told(JsonList(x), JsonList(y)) /\ (JsonList(x) = JsonList(y) => s = r)
<1>1. PICK n, m : n = Len(s) /\ m = Len(r)
  OBVIOUS
<1>2. n \in Nat /\ m \in Nat
  BY <1>1, SeqFacts
<1>5. /\ \A i \in 1..Len(x) : Opens(x[i], e)
      /\ \A i \in 1..Len(y) : Opens(y[i], e)
  BY <1>1
<1>a. \A i \in 1..Len(x) : i =< Len(y) => Told(x[i], y[i]) /\ (x[i] = y[i] => s[i] = r[i])
  <2> SUFFICES ASSUME NEW i \in 1..Len(x), i =< Len(y) PROVE Told(x[i], y[i]) /\ (x[i] = y[i] => s[i] = r[i])
    OBVIOUS
  <2>1. i \in 1..Len(s) /\ i \in 1..Len(r)
    BY <1>1, <1>2
  <2> QED
    BY <2>1
<1>6. \A i \in 1..Len(x) : i =< Len(y) => Told(x[i], y[i])
  BY <1>a
<1>7. Told(JsonList(x), JsonList(y)) /\ (JsonList(x) = JsonList(y) => x = y)
  BY <1>5, <1>6, ListTells
<1>8. x = y => s = r
  <2> SUFFICES ASSUME x = y PROVE s = r
    OBVIOUS
  <2>1. Len(s) = Len(r)
    OBVIOUS
  <2>2. \A i \in 1..Len(s) : s[i] = r[i]
    BY <1>a, <2>1
  <2> QED
    BY <2>1, <2>2, SameSeq
<1> QED
  BY <1>7, <1>8

\* A document as sent.
DocumentSent(d) ==
  /\ d \in DidDocuments /\ d.extra = FALSE
  /\ \A i \in 1..Len(d.public_keys) : KeySent(d.public_keys[i])
  /\ d.service # None /\ \A i \in 1..Len(d.service[1]) : ServiceSent(d.service[1][i])
  /\ d.proof # None => ProofSent(d.proof[1])

\* What did_document_body returns is that.
LEMMA DocumentIsSent ==
  ASSUME NEW d \in DidDocuments
  PROVE  DocumentSent(DidDocumentBody(d))
<1> DEFINE keys == [i \in DOMAIN d.public_keys |-> PublicKey(d.public_keys[i])]
           services == [i \in DOMAIN Default(d.service, << >>) |-> Service(d.service[1][i])]
           b == DidDocumentBody(d)
<1> HIDE DEF keys, services
<1> USE DEF DidDocuments
<1> HIDE DEF Text, PublicKeys, Services, DidProofs
<1>1. /\ d.public_keys \in Seq(PublicKeys) /\ d.service \in Optional(Seq(Services)) /\ d.proof \in Optional(DidProofs)
      /\ b = [d EXCEPT !.public_keys = keys, !.service = Some(services), !.proof = Mapped(d.proof, Proof),
           !.extra = FALSE]
  BY DEF DidDocumentBody, keys, services
<1>2. /\ b.public_keys = keys /\ b.service = Some(services) /\ b.proof = Mapped(d.proof, Proof) /\ b.extra = FALSE
  BY <1>1
<1>3. keys \in Seq(PublicKeys) /\ \A i \in 1..Len(keys) : KeySent(keys[i])
  <2>1. ASSUME NEW k \in PublicKeys PROVE KeySent(PublicKey(k)) /\ PublicKey(k) \in PublicKeys
    BY DEF KeySent, PublicKey, PublicKeys
  <2>2. \A i \in 1..Len(d.public_keys) : d.public_keys[i] \in PublicKeys
    BY <1>1
  <2>3. DOMAIN d.public_keys = 1..Len(d.public_keys) /\ Len(d.public_keys) \in Nat
    BY <1>1
  <2>4. keys = [i \in 1..Len(d.public_keys) |-> PublicKey(d.public_keys[i])]
    BY <2>3 DEF keys
  <2>5. keys \in Seq(PublicKeys) /\ Len(keys) = Len(d.public_keys)
    BY <2>1, <2>2, <2>3, <2>4
  <2> QED
    BY <2>1, <2>2, <2>3, <2>4, <2>5
<1>4. services \in Seq(Services) /\ \A i \in 1..Len(services) : ServiceSent(services[i])
  <2>1. ASSUME NEW k \in Services PROVE ServiceSent(Service(k)) /\ Service(k) \in Services
    BY DEF ServiceSent, Service, Services
  <2>2. CASE d.service = None
    <3>1. services = [i \in DOMAIN << >> |-> Service(d.service[1][i])]
      BY <2>2 DEF services, Default
    <3>2. services = << >>
      BY <3>1
    <3> QED
      BY <3>2
  <2>3. CASE d.service # None
    <3>1. PICK s : s = d.service[1]
      OBVIOUS
    <3>2. s \in Seq(Services)
      BY <1>1, <2>3, <3>1, OptionalFacts
    <3>3. services = [i \in 1..Len(s) |-> Service(s[i])] /\ Len(s) \in Nat
      BY <2>3, <3>1, <3>2 DEF services, Default
    <3>4. \A i \in 1..Len(s) : s[i] \in Services
      BY <3>2
    <3>5. services \in Seq(Services) /\ Len(services) = Len(s)
      BY <2>1, <3>3, <3>4
    <3> QED
      BY <2>1, <3>3, <3>4, <3>5
  <2> QED
    BY <2>2, <2>3
<1>5. Mapped(d.proof, Proof) \in Optional(DidProofs) /\
        (Mapped(d.proof, Proof) # None => ProofSent(Mapped(d.proof, Proof)[1]))
  <2>1. CASE d.proof = None
    BY <1>1, <2>1 DEF Mapped
  <2>2. CASE d.proof # None
    <3>1. PICK p : p = d.proof[1]
      OBVIOUS
    <3>2. p \in DidProofs
      BY <1>1, <2>2, <3>1, OptionalFacts
    <3>3. ProofSent(Proof(p)) /\ Proof(p) \in DidProofs
      BY <3>2 DEF ProofSent, Proof, DidProofs
    <3>4. Mapped(d.proof, Proof) = Some(Proof(p))
      BY <2>2, <3>1 DEF Mapped
    <3> QED
      BY <3>3, <3>4, OptionFacts, SomeFacts
  <2> QED
    BY <2>1, <2>2
<1>6. Some(services) \in Optional(Seq(Services)) /\ Some(services) # None /\ Some(services)[1] = services
  BY <1>4, OptionFacts, SomeFacts
<1>7. b \in DidDocuments
  <2>1. /\ DOMAIN b = {"id", "public_keys", "authentication", "service", "created", "updated", "proof", "extra"}
        /\ b = [z \in DOMAIN b |-> b[z]]
        /\ b.id = d.id /\ b.authentication = d.authentication /\ b.created = d.created /\ b.updated = d.updated
    BY <1>1
  <2>2. b.id \in Text /\ b.authentication \in Seq(Text) /\ b.created \in Int /\ b.updated \in Int
    BY <2>1
  <2> HIDE DEF b
  <2> QED
    BY <1>2, <1>3, <1>5, <1>6, <2>1, <2>2
<1> HIDE DEF b, DidDocuments
<1>8. DocumentSent(b)
  BY <1>2, <1>3, <1>4, <1>5, <1>6, <1>7 DEF DocumentSent
<1> QED
  BY <1>8 DEF b

\* An optional proof.
LEMMA ProofOptionTells ==
  ASSUME NEW o \in Optional(DidProofs), NEW r \in Optional(DidProofs), o # None => ProofSent(o[1]), r # None =>
         ProofSent(r[1])
  PROVE  Told(JsonOption(o, ProofJson), JsonOption(r, ProofJson)) /\
           (JsonOption(o, ProofJson) = JsonOption(r, ProofJson) => o = r)
<1>1. PICK w, v : w = ProofJson(o[1]) /\ v = ProofJson(r[1])
  OBVIOUS
<1>2. Brace # Word("null")
  BY DEF Brace, Word
<1>3. (o # None => Opens(w, Brace)) /\ (r # None => Opens(v, Brace))
  BY <1>1, ProofTells
<1>4. o # None /\ r # None => Told(w, v) /\ (w = v => o[1] = r[1])
  BY <1>1, ProofTells
<1>5. PICK a, b : a = (IF o = None THEN <<Word("null")>> ELSE w) /\ b = (IF r = None THEN <<Word("null")>> ELSE v)
  OBVIOUS
<1>6. Told(a, b) /\ (a = b => o = r)
  BY <1>2, <1>3, <1>4, <1>5, JsonOptionTells
<1>7. JsonOption(o, ProofJson) = a /\ JsonOption(r, ProofJson) = b
  BY <1>1, <1>5 DEF JsonOption
<1> QED
  BY <1>6, <1>7

\* The members of a document as sent.
KeysJson(d) == JsonList([i \in DOMAIN d.public_keys |-> KeyJson(d.public_keys[i])])
AuthenticationJson(d) == JsonList([i \in DOMAIN d.authentication |-> JsonText(d.authentication[i])])
ServicesJson(d) == JsonList([i \in DOMAIN d.service[1] |-> ServiceJson(d.service[1][i])])

\* The lists of a document are told apart.
LEMMA DocumentListsTell ==
  ASSUME NEW d, NEW c, DocumentSent(d), DocumentSent(c)
  PROVE  /\ Told(KeysJson(d), KeysJson(c)) /\ (KeysJson(d) = KeysJson(c) => d.public_keys = c.public_keys)
         /\ Told(AuthenticationJson(d), AuthenticationJson(c))
         /\ AuthenticationJson(d) = AuthenticationJson(c) => d.authentication = c.authentication
         /\ Told(ServicesJson(d), ServicesJson(c)) /\ (ServicesJson(d) = ServicesJson(c) => d.service = c.service)
<1>1. Brace # Bracket /\ Quote # Bracket
  BY DEF Brace, Bracket, Quote
<1>2. ASSUME NEW b, DocumentSent(b)
      PROVE  /\ b.public_keys \in Seq(PublicKeys) /\ b.authentication \in Seq(Text)
             /\ b.service \in Optional(Seq(Services)) /\ b.service # None
  BY <1>2 DEF DocumentSent, DidDocuments
<1>3. PICK s, r : s = d.public_keys /\ r = c.public_keys
  OBVIOUS
<1>4. /\ IsSeq(s) /\ IsSeq(r)
      /\ \A i \in 1..Len(s) : KeySent(s[i])
      /\ \A i \in 1..Len(r) : KeySent(r[i])
  BY <1>2, <1>3 DEF DocumentSent, IsSeq
<1>5. PICK x, y : x = [i \in DOMAIN s |-> KeyJson(s[i])] /\ y = [i \in DOMAIN r |-> KeyJson(r[i])]
  OBVIOUS
<1>6. /\ DOMAIN s = 1..Len(s) /\ Len(s) \in Nat
      /\ DOMAIN r = 1..Len(r) /\ Len(r) \in Nat
  BY <1>4, SeqFacts
<1>7. /\ x = [i \in 1..Len(s) |-> x[i]] /\ \A i \in 1..Len(s) : x[i] = KeyJson(s[i])
      /\ y = [i \in 1..Len(r) |-> y[i]] /\ \A i \in 1..Len(r) : y[i] = KeyJson(r[i])
  BY <1>5, <1>6
<1>8. IsSeq(x) /\ Len(x) = Len(s) /\ IsSeq(y) /\ Len(y) = Len(r)
  BY <1>6, <1>7, OfLength
<1>9. (\A i \in 1..Len(s) : Opens(x[i], Brace)) /\ \A i \in 1..Len(r) : Opens(y[i], Brace)
  BY <1>4, <1>7, KeyTells
<1>10. \A i \in 1..Len(s), j \in 1..Len(r) : Told(x[i], y[j]) /\ (x[i] = y[j] => s[i] = r[j])
  <2> SUFFICES ASSUME NEW i \in 1..Len(s), NEW j \in 1..Len(r)
               PROVE  Told(x[i], y[j]) /\ (x[i] = y[j] => s[i] = r[j])
    OBVIOUS
  <2>1. PICK k, h : k = s[i] /\ h = r[j]
    OBVIOUS
  <2>2. KeySent(k) /\ KeySent(h) /\ x[i] = KeyJson(k) /\ y[j] = KeyJson(h)
    BY <1>4, <1>7, <2>1
  <2>3. Told(KeyJson(k), KeyJson(h)) /\ (KeyJson(k) = KeyJson(h) => k = h)
    BY <2>2, KeyTells
  <2> QED
    BY <2>1, <2>2, <2>3
<1>11. Told(JsonList(x), JsonList(y)) /\ (JsonList(x) = JsonList(y) => s = r)
  <2>1. IsSeq(s) /\ IsSeq(r)
    BY <1>4
  <2> QED
    BY <1>1, <1>8, <1>9, <1>10, <2>1, ItemsTell
<1>12. KeysJson(d) = JsonList(x) /\ KeysJson(c) = JsonList(y)
  BY <1>3, <1>5 DEF KeysJson
<1>13. Told(KeysJson(d), KeysJson(c)) /\ (KeysJson(d) = KeysJson(c) => d.public_keys = c.public_keys)
  BY <1>3, <1>11, <1>12
<1>14. PICK p, q : p = d.authentication /\ q = c.authentication
  OBVIOUS
<1>15. /\ IsSeq(p) /\ IsSeq(q)
       /\ \A i \in 1..Len(p) : p[i] \in Text
       /\ \A i \in 1..Len(q) : q[i] \in Text
  BY <1>2, <1>14 DEF IsSeq
<1>16. PICK f, g : f = [i \in DOMAIN p |-> JsonText(p[i])] /\ g = [i \in DOMAIN q |-> JsonText(q[i])]
  OBVIOUS
<1>17. /\ DOMAIN p = 1..Len(p) /\ Len(p) \in Nat
       /\ DOMAIN q = 1..Len(q) /\ Len(q) \in Nat
  BY <1>15, SeqFacts
<1>18. /\ f = [i \in 1..Len(p) |-> f[i]] /\ \A i \in 1..Len(p) : f[i] = JsonText(p[i])
       /\ g = [i \in 1..Len(q) |-> g[i]] /\ \A i \in 1..Len(q) : g[i] = JsonText(q[i])
  BY <1>16, <1>17
<1>19. IsSeq(f) /\ Len(f) = Len(p) /\ IsSeq(g) /\ Len(g) = Len(q)
  BY <1>17, <1>18, OfLength
<1>20. (\A i \in 1..Len(p) : Opens(f[i], Quote)) /\ \A i \in 1..Len(q) : Opens(g[i], Quote)
  BY <1>15, <1>18, JsonTextTells
<1>21. \A i \in 1..Len(p), j \in 1..Len(q) : Told(f[i], g[j]) /\ (f[i] = g[j] => p[i] = q[j])
  <2> SUFFICES ASSUME NEW i \in 1..Len(p), NEW j \in 1..Len(q)
               PROVE  Told(f[i], g[j]) /\ (f[i] = g[j] => p[i] = q[j])
    OBVIOUS
  <2>1. PICK k, h : k = p[i] /\ h = q[j]
    OBVIOUS
  <2>2. k \in Text /\ h \in Text /\ f[i] = JsonText(k) /\ g[j] = JsonText(h)
    BY <1>15, <1>18, <2>1
  <2>3. Told(JsonText(k), JsonText(h)) /\ (JsonText(k) = JsonText(h) => k = h)
    BY <2>2, JsonTextTells
  <2> QED
    BY <2>1, <2>2, <2>3
<1>22. Told(JsonList(f), JsonList(g)) /\ (JsonList(f) = JsonList(g) => p = q)
  <2>1. IsSeq(p) /\ IsSeq(q)
    BY <1>15
  <2> QED
    BY <1>1, <1>19, <1>20, <1>21, <2>1, ItemsTell
<1>23. AuthenticationJson(d) = JsonList(f) /\ AuthenticationJson(c) = JsonList(g)
  BY <1>14, <1>16 DEF AuthenticationJson
<1>24. /\ Told(AuthenticationJson(d), AuthenticationJson(c))
       /\ AuthenticationJson(d) = AuthenticationJson(c) => d.authentication = c.authentication
  BY <1>14, <1>22, <1>23
<1>25. PICK u, v : u = d.service[1] /\ v = c.service[1]
  OBVIOUS
<1>26. d.service = Some(u) /\ c.service = Some(v) /\ u \in Seq(Services) /\ v \in Seq(Services)
  BY <1>2, <1>25, OptionalFacts
<1>27. /\ IsSeq(u) /\ IsSeq(v)
       /\ \A i \in 1..Len(u) : ServiceSent(u[i])
       /\ \A i \in 1..Len(v) : ServiceSent(v[i])
  BY <1>25, <1>26 DEF DocumentSent, IsSeq
<1>28. PICK m, n : m = [i \in DOMAIN u |-> ServiceJson(u[i])] /\ n = [i \in DOMAIN v |-> ServiceJson(v[i])]
  OBVIOUS
<1>29. /\ DOMAIN u = 1..Len(u) /\ Len(u) \in Nat
       /\ DOMAIN v = 1..Len(v) /\ Len(v) \in Nat
  BY <1>27, SeqFacts
<1>30. /\ m = [i \in 1..Len(u) |-> m[i]] /\ \A i \in 1..Len(u) : m[i] = ServiceJson(u[i])
       /\ n = [i \in 1..Len(v) |-> n[i]] /\ \A i \in 1..Len(v) : n[i] = ServiceJson(v[i])
  BY <1>28, <1>29
<1>31. IsSeq(m) /\ Len(m) = Len(u) /\ IsSeq(n) /\ Len(n) = Len(v)
  BY <1>29, <1>30, OfLength
<1>32. (\A i \in 1..Len(u) : Opens(m[i], Brace)) /\ \A i \in 1..Len(v) : Opens(n[i], Brace)
  BY <1>27, <1>30, ServiceTells
<1>33. \A i \in 1..Len(u), j \in 1..Len(v) : Told(m[i], n[j]) /\ (m[i] = n[j] => u[i] = v[j])
  <2> SUFFICES ASSUME NEW i \in 1..Len(u), NEW j \in 1..Len(v)
               PROVE  Told(m[i], n[j]) /\ (m[i] = n[j] => u[i] = v[j])
    OBVIOUS
  <2>1. PICK k, h : k = u[i] /\ h = v[j]
    OBVIOUS
  <2>2. ServiceSent(k) /\ ServiceSent(h) /\ m[i] = ServiceJson(k) /\ n[j] = ServiceJson(h)
    BY <1>27, <1>30, <2>1
  <2>3. Told(ServiceJson(k), ServiceJson(h)) /\ (ServiceJson(k) = ServiceJson(h) => k = h)
    BY <2>2, ServiceTells
  <2> QED
    BY <2>1, <2>2, <2>3
<1>34. Told(JsonList(m), JsonList(n)) /\ (JsonList(m) = JsonList(n) => u = v)
  <2>1. IsSeq(u) /\ IsSeq(v)
    BY <1>27
  <2> QED
    BY <1>1, <1>31, <1>32, <1>33, <2>1, ItemsTell
<1>35. ServicesJson(d) = JsonList(m) /\ ServicesJson(c) = JsonList(n)
  BY <1>25, <1>28 DEF ServicesJson
<1>36. Told(ServicesJson(d), ServicesJson(c)) /\ (ServicesJson(d) = ServicesJson(c) => d.service = c.service)
  BY <1>26, <1>34, <1>35
<1> QED
  BY <1>13, <1>24, <1>36

\* The document as JSON, by its members.
DocumentJson(d) ==
  Object7(JsonMember("id", JsonText(d.id)), JsonMember("public_keys", KeysJson(d)),
          JsonMember("authentication", AuthenticationJson(d)), JsonMember("service", ServicesJson(d)),
          JsonMember("created", <<Number(d.created)>>), JsonMember("updated", <<Number(d.updated)>>),
          JsonMember("proof", JsonOption(d.proof, ProofJson)))

\* Documents are told apart.
LEMMA DocumentTells ==
  ASSUME NEW d, NEW c, DocumentSent(d), DocumentSent(c)
  PROVE  Opens(DocumentJson(d), Brace) /\ (DocumentJson(d) = DocumentJson(c) => d = c)
<1>1. ASSUME NEW b, DocumentSent(b)
      PROVE  /\ b.id \in Text /\ b.created \in Int /\ b.updated \in Int /\ b.extra = FALSE /\
                  b.proof \in Optional(DidProofs)
             /\ b.proof # None => ProofSent(b.proof[1])
             /\ DOMAIN b = {"id", "public_keys", "authentication", "service", "created", "updated", "proof", "extra"}
             /\ b = [z \in DOMAIN b |-> b[z]]
  <2>1. b \in DidDocuments /\ b.extra = FALSE /\ (b.proof # None => ProofSent(b.proof[1]))
    BY <1>1 DEF DocumentSent
  <2> HIDE DEF Text, PublicKeys, Services, DidProofs, Optional
  <2> QED
    BY <2>1 DEF DidDocuments
<1>2. PICK x1, y1 : x1 = JsonText(d.id) /\ y1 = JsonText(c.id)
  OBVIOUS
<1>3. Told(x1, y1) /\ (x1 = y1 => d.id = c.id)
  BY <1>1, <1>2, JsonTextTells
<1>4. PICK x2, y2 : x2 = KeysJson(d) /\ y2 = KeysJson(c)
  OBVIOUS
<1>5. PICK x3, y3 : x3 = AuthenticationJson(d) /\ y3 = AuthenticationJson(c)
  OBVIOUS
<1>6. PICK x4, y4 : x4 = ServicesJson(d) /\ y4 = ServicesJson(c)
  OBVIOUS
<1>7. /\ Told(x2, y2) /\ (x2 = y2 => d.public_keys = c.public_keys)
      /\ Told(x3, y3) /\ (x3 = y3 => d.authentication = c.authentication)
      /\ Told(x4, y4) /\ (x4 = y4 => d.service = c.service)
  BY <1>4, <1>5, <1>6, DocumentListsTell
<1>8. PICK x5, y5 : x5 = <<Number(d.created)>> /\ y5 = <<Number(c.created)>>
  OBVIOUS
<1>9. Told(x5, y5) /\ (x5 = y5 => d.created = c.created)
  BY <1>8, NumberTells
<1>10. PICK x6, y6 : x6 = <<Number(d.updated)>> /\ y6 = <<Number(c.updated)>>
  OBVIOUS
<1>11. Told(x6, y6) /\ (x6 = y6 => d.updated = c.updated)
  BY <1>10, NumberTells
<1>12. PICK x7, y7 : x7 = JsonOption(d.proof, ProofJson) /\ y7 = JsonOption(c.proof, ProofJson)
  OBVIOUS
<1>13. Told(x7, y7) /\ (x7 = y7 => d.proof = c.proof)
  BY <1>1, <1>12, ProofOptionTells
<1>14. PICK m1, k1 : m1 = JsonMember("id", x1) /\ k1 = JsonMember("id", y1)
  OBVIOUS
<1>15. Told(m1, k1) /\ (m1 = k1 => x1 = y1)
  BY <1>3, <1>14, MemberTells
<1>16. PICK m2, k2 : m2 = JsonMember("public_keys", x2) /\ k2 = JsonMember("public_keys", y2)
  OBVIOUS
<1>17. Told(m2, k2) /\ (m2 = k2 => x2 = y2)
  BY <1>7, <1>16, MemberTells
<1>18. PICK m3, k3 : m3 = JsonMember("authentication", x3) /\ k3 = JsonMember("authentication", y3)
  OBVIOUS
<1>19. Told(m3, k3) /\ (m3 = k3 => x3 = y3)
  BY <1>7, <1>18, MemberTells
<1>20. PICK m4, k4 : m4 = JsonMember("service", x4) /\ k4 = JsonMember("service", y4)
  OBVIOUS
<1>21. Told(m4, k4) /\ (m4 = k4 => x4 = y4)
  BY <1>7, <1>20, MemberTells
<1>22. PICK m5, k5 : m5 = JsonMember("created", x5) /\ k5 = JsonMember("created", y5)
  OBVIOUS
<1>23. Told(m5, k5) /\ (m5 = k5 => x5 = y5)
  BY <1>9, <1>22, MemberTells
<1>24. PICK m6, k6 : m6 = JsonMember("updated", x6) /\ k6 = JsonMember("updated", y6)
  OBVIOUS
<1>25. Told(m6, k6) /\ (m6 = k6 => x6 = y6)
  BY <1>11, <1>24, MemberTells
<1>26. PICK m7, k7 : m7 = JsonMember("proof", x7) /\ k7 = JsonMember("proof", y7)
  OBVIOUS
<1>27. Told(m7, k7) /\ (m7 = k7 => x7 = y7)
  BY <1>13, <1>26, MemberTells
<1>28. DocumentJson(d) = Object7(m1, m2, m3, m4, m5, m6, m7) /\ DocumentJson(c) = Object7(k1, k2, k3, k4, k5, k6, k7)
  BY <1>2, <1>4, <1>5, <1>6, <1>8, <1>10, <1>12, <1>14, <1>16, <1>18, <1>20, <1>22, <1>24, <1>26 DEF DocumentJson
<1>29. /\ Opens(Object7(m1, m2, m3, m4, m5, m6, m7), Brace)
       /\ Object7(m1, m2, m3, m4, m5, m6, m7) = Object7(k1, k2, k3, k4, k5, k6, k7) => m1 = k1 /\ m2 = k2 /\
            m3 = k3 /\ m4 = k4 /\ m5 = k5 /\ m6 = k6 /\ m7 = k7
  <2>1. Told(m1, k1) /\ Told(m2, k2) /\ Told(m3, k3) /\ Told(m4, k4) /\ Told(m5, k5) /\ Told(m6, k6) /\ Told(m7, k7)
    BY <1>15, <1>17, <1>19, <1>21, <1>23, <1>25, <1>27
  <2>2. /\ Opens(Object7(m1, m2, m3, m4, m5, m6, m7), Brace)
        /\ Told(Object7(m1, m2, m3, m4, m5, m6, m7), Object7(k1, k2, k3, k4, k5, k6, k7))
        /\ Object7(m1, m2, m3, m4, m5, m6, m7) = Object7(k1, k2, k3, k4, k5, k6, k7) => m1 = k1 /\ m2 = k2 /\
             m3 = k3 /\ m4 = k4 /\ m5 = k5 /\ m6 = k6 /\ m7 = k7
    BY <2>1, Members7
  <2> QED
    BY <2>2
<1>30. m1 = k1 /\ m2 = k2 /\ m3 = k3 /\ m4 = k4 /\ m5 = k5 /\ m6 = k6 /\ m7 = k7 => d.id = c.id /\
         d.public_keys = c.public_keys /\ d.authentication = c.authentication /\ d.service = c.service /\
         d.created = c.created /\ d.updated = c.updated /\ d.proof = c.proof
  BY <1>3, <1>7, <1>9, <1>11, <1>13, <1>15, <1>17, <1>19, <1>21, <1>23, <1>25, <1>27
<1>31. d.id = c.id /\ d.public_keys = c.public_keys /\ d.authentication = c.authentication /\ d.service = c.service /\
         d.created = c.created /\ d.updated = c.updated /\ d.proof = c.proof => d = c
  <2> SUFFICES ASSUME d.id = c.id /\ d.public_keys = c.public_keys /\ d.authentication = c.authentication /\
                        d.service = c.service /\ d.created = c.created /\ d.updated = c.updated /\
                        d.proof = c.proof PROVE d = c
    OBVIOUS
  <2>1. DOMAIN d = DOMAIN c /\ d = [z \in DOMAIN d |-> d[z]] /\ c = [z \in DOMAIN c |-> c[z]]
    BY <1>1
  <2>2. d.extra = c.extra /\
          DOMAIN d = {"id", "public_keys", "authentication", "service", "created", "updated", "proof", "extra"}
    BY <1>1
  <2>3. \A z \in DOMAIN d : d[z] = c[z]
    BY <2>2
  <2> QED
    BY <2>1, <2>3
<1> QED
  BY <1>28, <1>29, <1>30, <1>31

\* The message of a RegisterDid is the document's JSON.
LEMMA RegisterDidBinds ==
  ASSUME NEW tx \in RegisterDidTxs
  PROVE  /\ Opens(RegisterDidMessage(tx), Brace)
         /\ \A other \in RegisterDidTxs : RegisterDidMessage(other) = RegisterDidMessage(tx) =>
              WireBody(other) = WireBody(tx)
<1>1. ASSUME NEW t \in RegisterDidTxs
      PROVE  /\ DocumentSent(DidDocumentBody(t.did_document))
             /\ RegisterDidMessage(t) = DocumentJson(DidDocumentBody(t.did_document))
             /\ WireBody(t) = [kind |-> "RegisterDid", did_document |-> DidDocumentBody(t.did_document)]
  <2> HIDE DEF DidDocuments
  <2>1. t.did_document \in DidDocuments /\ t.kind = "RegisterDid" /\ DOMAIN t = {"kind", "did_document"}
    BY DEF RegisterDidTxs
  <2>2. DocumentSent(DidDocumentBody(t.did_document))
    BY <2>1, DocumentIsSent
  <2>3. PICK b : b = DidDocumentBody(t.did_document)
    OBVIOUS
  <2>4. RegisterDidMessage(t) = DocumentJson(b)
    BY <2>3 DEF RegisterDidMessage, DocumentJson, Object7, KeysJson, AuthenticationJson, ServicesJson
  <2>5. WireBody(t) = [t EXCEPT !.did_document = b]
    BY <2>1, <2>3 DEF WireBody
  <2>6. [t EXCEPT !.did_document = b] = [kind |-> "RegisterDid", did_document |-> b]
    BY <2>1 DEF RegisterDidTxs
  <2> QED
    BY <2>2, <2>3, <2>4, <2>5, <2>6
<1>2. PICK d : d = DidDocumentBody(tx.did_document)
  OBVIOUS
<1>3. DocumentSent(d) /\ RegisterDidMessage(tx) = DocumentJson(d) /\
        WireBody(tx) = [kind |-> "RegisterDid", did_document |-> d]
  BY <1>1, <1>2
<1>4. ASSUME NEW other \in RegisterDidTxs, RegisterDidMessage(other) = RegisterDidMessage(tx)
      PROVE  WireBody(other) = WireBody(tx)
  <2>1. PICK c : c = DidDocumentBody(other.did_document)
    OBVIOUS
  <2>2. DocumentSent(c) /\ RegisterDidMessage(other) = DocumentJson(c) /\
          WireBody(other) = [kind |-> "RegisterDid", did_document |-> c]
    BY <1>1, <2>1
  <2>3. d = c
    BY <1>3, <1>4, <2>2, DocumentTells
  <2> QED
    BY <1>3, <2>2, <2>3
<1>5. Opens(RegisterDidMessage(tx), Brace)
  BY <1>3, DocumentTells
<1> QED
  BY <1>4, <1>5

-----------------------------------------------------------------------------
(* One message, one body.                                                  *)

\* What a message of a kind begins with.
First(kind) == IF kind = "RegisterDid" THEN Brace ELSE Label(kind)

\* Kinds begin differently.
LEMMA FirstTells ==
  ASSUME NEW kind, NEW other, First(kind) = First(other)
  PROVE  kind = other
<1>1. Label(kind)[1] = "label" /\ Label(other)[1] = "label" /\ Brace[1] = "mark"
  BY DEF Label, Brace
<1>2. "label" # "mark"
  OBVIOUS
<1>3. CASE kind = "RegisterDid" \/ other = "RegisterDid"
  BY <1>1, <1>2, <1>3 DEF First
<1>4. CASE kind # "RegisterDid" /\ other # "RegisterDid"
  BY <1>4, TokenFacts DEF First
<1> QED
  BY <1>3, <1>4

\* Every message begins as its kind does.
LEMMA KindHeads ==
  ASSUME NEW tx \in Transactions, Signable(tx), tx.kind \in BoundKinds
  PROVE  SignMessage(tx)[1] = First(tx.kind)
<1>1. CASE tx \in StoreDataTxs /\ tx.kind = "StoreData"
  <2>1. StoreDataRule(tx)
    BY <1>1 DEF Signable
  <2>2. Heads(StoreDataMessage(tx), "StoreData")
    BY <1>1, <2>1, StoreDataBinds
  <2>3. SignMessage(tx) = StoreDataMessage(tx) /\ First("StoreData") = Label("StoreData")
    BY <1>1 DEF SignMessage, First
  <2> QED
    BY <1>1, <2>2, <2>3 DEF Heads
<1>2. CASE tx \in StoreFileManifestTxs /\ tx.kind = "StoreFileManifest"
  <2>1. StoreFileManifestRule(tx)
    BY <1>2 DEF Signable
  <2>2. Heads(StoreFileManifestMessage(tx), "StoreFileManifest")
    BY <1>2, <2>1, StoreFileManifestBinds
  <2>3. SignMessage(tx) = StoreFileManifestMessage(tx) /\ First("StoreFileManifest") = Label("StoreFileManifest")
    BY <1>2 DEF SignMessage, First
  <2> QED
    BY <1>2, <2>2, <2>3 DEF Heads
<1>3. CASE tx \in DeleteFileManifestTxs /\ tx.kind = "DeleteFileManifest"
  <2>1. DeleteFileManifestRule(tx)
    BY <1>3 DEF Signable
  <2>2. Heads(DeleteFileManifestMessage(tx), "DeleteFileManifest")
    BY <1>3, <2>1, DeleteFileManifestBinds
  <2>3. SignMessage(tx) = DeleteFileManifestMessage(tx) /\ First("DeleteFileManifest") = Label("DeleteFileManifest")
    BY <1>3 DEF SignMessage, First
  <2> QED
    BY <1>3, <2>2, <2>3 DEF Heads
<1>4. CASE tx \in GrantTxs /\ tx.kind = "GrantSubgroveKey"
  <2>1. GrantRule(tx)
    BY <1>4 DEF Signable
  <2>2. Heads(GrantMessage(tx), "GrantSubgroveKey")
    BY <1>4, <2>1, GrantBinds
  <2>3. SignMessage(tx) = GrantMessage(tx) /\ First("GrantSubgroveKey") = Label("GrantSubgroveKey")
    BY <1>4 DEF SignMessage, First
  <2> QED
    BY <1>4, <2>2, <2>3 DEF Heads
<1>5. CASE tx \in RotateTxs /\ tx.kind = "RotateSubgroveKey"
  <2>1. RotateRule(tx)
    BY <1>5 DEF Signable
  <2>2. Heads(RotateMessage(tx), "RotateSubgroveKey")
    BY <1>5, <2>1, RotateBinds
  <2>3. SignMessage(tx) = RotateMessage(tx) /\ First("RotateSubgroveKey") = Label("RotateSubgroveKey")
    BY <1>5 DEF SignMessage, First
  <2> QED
    BY <1>5, <2>2, <2>3 DEF Heads
<1>6. CASE tx \in RevokeTxs /\ tx.kind = "RevokeSubgroveKey"
  <2>1. RevokeRule(tx)
    BY <1>6 DEF Signable
  <2>2. Heads(RevokeMessage(tx), "RevokeSubgroveKey")
    BY <1>6, <2>1, RevokeBinds
  <2>3. SignMessage(tx) = RevokeMessage(tx) /\ First("RevokeSubgroveKey") = Label("RevokeSubgroveKey")
    BY <1>6 DEF SignMessage, First
  <2> QED
    BY <1>6, <2>2, <2>3 DEF Heads
<1>7. CASE tx \in UnregisterTxs /\ tx.kind = "UnregisterStorageNode"
  <2>1. UnregisterRule(tx)
    BY <1>7 DEF Signable
  <2>2. Heads(UnregisterMessage(tx), "UnregisterStorageNode")
    BY <1>7, <2>1, UnregisterBinds
  <2>3. SignMessage(tx) = UnregisterMessage(tx) /\ First("UnregisterStorageNode") = Label("UnregisterStorageNode")
    BY <1>7 DEF SignMessage, First
  <2> QED
    BY <1>7, <2>2, <2>3 DEF Heads
<1>8. CASE tx \in RegisterDidTxs /\ tx.kind = "RegisterDid"
  <2>1. Opens(RegisterDidMessage(tx), Brace)
    BY <1>8, RegisterDidBinds
  <2>2. SignMessage(tx) = RegisterDidMessage(tx) /\ First("RegisterDid") = Brace
    BY <1>8 DEF SignMessage, First
  <2> QED
    BY <1>8, <2>1, <2>2 DEF Opens
<1>9. CASE tx \in RegisterSubgroveTxs /\ tx.kind = "RegisterSubgrove"
  <2>1. ModeRule(tx) /\ RegisterSubgroveRule(ToDict(tx))
    BY <1>9 DEF Signable
  <2>2. Heads(RegisterSubgroveMessage(ToDict(tx)), "RegisterSubgrove")
    BY <1>9, <2>1, RegisterSubgroveBinds
  <2>3. SignMessage(tx) = RegisterSubgroveMessage(ToDict(tx)) /\ First("RegisterSubgrove") = Label("RegisterSubgrove")
    BY <1>9 DEF SignMessage, First
  <2> QED
    BY <1>9, <2>2, <2>3 DEF Heads
<1> QED
  BY <1>1, <1>2, <1>3, <1>4, <1>5, <1>6, <1>7, <1>8, <1>9, Kinds DEF BoundKinds

\* The same message is the same body.
LEMMA OneBody ==
  ASSUME NEW tx \in Transactions, NEW other \in Transactions, Signable(tx), Signable(other),
         tx.kind \in BoundKinds, other.kind \in BoundKinds, SignMessage(other) = SignMessage(tx),
         /\ tx.kind = "RegisterSubgrove" /\ other.kind = "RegisterSubgrove" /\ tx.schema.text = other.schema.text
         => tx.schema = other.schema
  PROVE  WireBody(other) = WireBody(tx)
<1>a. First(tx.kind) = First(other.kind)
  BY KindHeads
<1>b. tx.kind = other.kind
  BY <1>a, FirstTells
<1>1. CASE tx \in StoreDataTxs /\ tx.kind = "StoreData"
  <2>1. other \in StoreDataTxs /\ other.kind = "StoreData"
    BY <1>1, <1>b, Kinds
  <2>2. SignMessage(tx) = StoreDataMessage(tx) /\ SignMessage(other) = StoreDataMessage(other)
    BY <1>1, <2>1 DEF SignMessage
  <2>3. StoreDataRule(tx) /\ StoreDataRule(other)
    BY <1>1, <2>1 DEF Signable
  <2>4. other = tx
    BY <1>1, <2>1, <2>2, <2>3, StoreDataBinds
  <2> QED
    BY <2>4
<1>2. CASE tx \in StoreFileManifestTxs /\ tx.kind = "StoreFileManifest"
  <2>1. other \in StoreFileManifestTxs /\ other.kind = "StoreFileManifest"
    BY <1>2, <1>b, Kinds
  <2>2. SignMessage(tx) = StoreFileManifestMessage(tx) /\ SignMessage(other) = StoreFileManifestMessage(other)
    BY <1>2, <2>1 DEF SignMessage
  <2>3. StoreFileManifestRule(tx) /\ StoreFileManifestRule(other)
    BY <1>2, <2>1 DEF Signable
  <2> QED
    BY <1>2, <2>1, <2>2, <2>3, StoreFileManifestBinds
<1>3. CASE tx \in DeleteFileManifestTxs /\ tx.kind = "DeleteFileManifest"
  <2>1. other \in DeleteFileManifestTxs /\ other.kind = "DeleteFileManifest"
    BY <1>3, <1>b, Kinds
  <2>2. SignMessage(tx) = DeleteFileManifestMessage(tx) /\ SignMessage(other) = DeleteFileManifestMessage(other)
    BY <1>3, <2>1 DEF SignMessage
  <2>3. DeleteFileManifestRule(tx) /\ DeleteFileManifestRule(other)
    BY <1>3, <2>1 DEF Signable
  <2>4. other = tx
    BY <1>3, <2>1, <2>2, <2>3, DeleteFileManifestBinds
  <2> QED
    BY <2>4
<1>4. CASE tx \in GrantTxs /\ tx.kind = "GrantSubgroveKey"
  <2>1. other \in GrantTxs /\ other.kind = "GrantSubgroveKey"
    BY <1>4, <1>b, Kinds
  <2>2. SignMessage(tx) = GrantMessage(tx) /\ SignMessage(other) = GrantMessage(other)
    BY <1>4, <2>1 DEF SignMessage
  <2>3. GrantRule(tx) /\ GrantRule(other)
    BY <1>4, <2>1 DEF Signable
  <2> QED
    BY <1>4, <2>1, <2>2, <2>3, GrantBinds
<1>5. CASE tx \in RotateTxs /\ tx.kind = "RotateSubgroveKey"
  <2>1. other \in RotateTxs /\ other.kind = "RotateSubgroveKey"
    BY <1>5, <1>b, Kinds
  <2>2. SignMessage(tx) = RotateMessage(tx) /\ SignMessage(other) = RotateMessage(other)
    BY <1>5, <2>1 DEF SignMessage
  <2>3. RotateRule(tx) /\ RotateRule(other)
    BY <1>5, <2>1 DEF Signable
  <2> QED
    BY <1>5, <2>1, <2>2, <2>3, RotateBinds
<1>6. CASE tx \in RevokeTxs /\ tx.kind = "RevokeSubgroveKey"
  <2>1. other \in RevokeTxs /\ other.kind = "RevokeSubgroveKey"
    BY <1>6, <1>b, Kinds
  <2>2. SignMessage(tx) = RevokeMessage(tx) /\ SignMessage(other) = RevokeMessage(other)
    BY <1>6, <2>1 DEF SignMessage
  <2>3. RevokeRule(tx) /\ RevokeRule(other)
    BY <1>6, <2>1 DEF Signable
  <2>4. other = tx
    BY <1>6, <2>1, <2>2, <2>3, RevokeBinds
  <2> QED
    BY <2>4
<1>7. CASE tx \in UnregisterTxs /\ tx.kind = "UnregisterStorageNode"
  <2>1. other \in UnregisterTxs /\ other.kind = "UnregisterStorageNode"
    BY <1>7, <1>b, Kinds
  <2>2. SignMessage(tx) = UnregisterMessage(tx) /\ SignMessage(other) = UnregisterMessage(other)
    BY <1>7, <2>1 DEF SignMessage
  <2>3. UnregisterRule(tx) /\ UnregisterRule(other)
    BY <1>7, <2>1 DEF Signable
  <2>4. other = tx
    BY <1>7, <2>1, <2>2, <2>3, UnregisterBinds
  <2> QED
    BY <2>4
<1>8. CASE tx \in RegisterDidTxs /\ tx.kind = "RegisterDid"
  <2>1. other \in RegisterDidTxs /\ other.kind = "RegisterDid"
    BY <1>8, <1>b, Kinds
  <2>2. SignMessage(tx) = RegisterDidMessage(tx) /\ SignMessage(other) = RegisterDidMessage(other)
    BY <1>8, <2>1 DEF SignMessage
  <2> QED
    BY <1>8, <2>1, <2>2, RegisterDidBinds
<1>9. CASE tx \in RegisterSubgroveTxs /\ tx.kind = "RegisterSubgrove"
  <2>1. other \in RegisterSubgroveTxs /\ other.kind = "RegisterSubgrove"
    BY <1>9, <1>b, Kinds
  <2>2. SignMessage(tx) = RegisterSubgroveMessage(ToDict(tx)) /\
          SignMessage(other) = RegisterSubgroveMessage(ToDict(other))
    BY <1>9, <2>1 DEF SignMessage
  <2>3. ModeRule(tx) /\ RegisterSubgroveRule(ToDict(tx)) /\ ModeRule(other) /\ RegisterSubgroveRule(ToDict(other))
    BY <1>9, <2>1 DEF Signable
  <2>4. other.schema.text = tx.schema.text => other.schema = tx.schema
    BY <1>9, <2>1
  <2>5. Normalize(ToDict(other)) = Normalize(ToDict(tx))
    BY <1>9, <2>1, <2>2, <2>3, <2>4, RegisterSubgroveBinds
  <2>6. WireBody(other) = Normalize(ToDict(other)) /\ WireBody(tx) = Normalize(ToDict(tx))
    BY <1>9, <2>1 DEF WireBody
  <2> QED
    BY <2>5, <2>6
<1> QED
  BY <1>1, <1>2, <1>3, <1>4, <1>5, <1>6, <1>7, <1>8, <1>9, Kinds DEF BoundKinds

-----------------------------------------------------------------------------
(* Calls.                                                                  *)

\* What a call signs as.
SomeDid == {None} \cup {Some(did) : did \in Text}
Underway == {"next", "taking", "sent"}

SigningOK ==
  /\ DOMAIN call = DOMAIN Idle /\ DOMAIN node = DOMAIN NothingSeen
  /\ call.at \in Underway \cup Over \cup {"idle"} /\ call.client \in {"none", "consensus", "willow"}
  /\ call.txs \in Seq(Transactions) /\ call.next \in Nat \ {0}
  /\ call.did \in SomeDid
  /\ call.results \in Seq([tx : Transactions, did : SomeDid])
  /\ identity \in {None} \cup {Some(did) : did \in Identities}
  /\ changes \in Nat

\* The results are of the transactions before the one the call is at, in order.
StepsInOrder ==
  /\ call.at \in Underway \cup {"failed"} =>
       /\ call.next \in 1..Len(call.txs)
       /\ Len(call.results) = call.next - 1
       /\ node.received \subseteq 1..call.next
  /\ call.at = "done" => Len(call.results) = Len(call.txs)
  /\ call.at \in {"idle", "refused"} => call.results = << >>
  /\ \A i \in 1..Len(call.results) : i \in node.taken /\ call.results[i].tx = call.txs[i]

\* The key a call signs with is its owner's, unless the identity changed.
OwnKey(client, txs, key) ==
  \/ client = "consensus" /\ Len(txs) = 1 /\ key = Some(Signer(txs[1]))
  \/ /\ client = "willow" /\ identity # None /\ key \in {None, identity}
     /\ \A i \in 1..Len(txs) : Signer(txs[i]) = identity[1]

Given(txs) ==
  \A i \in 1..Len(txs) :
    Signable(txs[i]) /\ (txs[i].kind = "RegisterSubgrove" => txs[i] \in Requests \cup OwnRequests)

\* What is sent is what was found signable, under the message over it and,
\* as long as the identity is the one the call started with, its owner's key.
Signed ==
  /\ call.at \in Underway =>
       /\ Given(call.txs)
       /\ call.client # "willow" \/ changes = 0 => OwnKey(call.client, call.txs, call.key)
  /\ call.at = "sent" => call.message = SignMessage(Current) /\ call.key # None
  /\ NodeTakesSigned

CallInv == SigningOK /\ StepsInOrder /\ Signed

-----------------------------------------------------------------------------
(* Who a transaction is signed as.                                         *)

LEMMA SignerFacts ==
  ASSUME NEW tx \in Transactions
  PROVE  Signer(tx) \in Text /\ tx.kind # "none"
<1> USE DEF Signer, StoreDataTxs, StoreFileManifestTxs, DeleteFileManifestTxs, GrantTxs, RotateTxs, RevokeTxs, UnregisterTxs,
        RegisterDidTxs, RegisterSubgroveTxs, TransferTxs, DeregisterTxs, DidDocuments
<1> HIDE DEF Text
<1>1. CASE tx \in StoreDataTxs \cup StoreFileManifestTxs \cup DeleteFileManifestTxs \cup RegisterSubgroveTxs \cup DeregisterTxs
  BY <1>1
<1>2. CASE tx \in GrantTxs \cup RotateTxs \cup RevokeTxs
  BY <1>2
<1>3. CASE tx \in UnregisterTxs \cup RegisterDidTxs \cup TransferTxs
  BY <1>3
<1> QED
  BY <1>1, <1>2, <1>3 DEF Transactions

\* A transaction made the identity's is signed as the identity.
LEMMA AsOwnerFacts ==
  ASSUME NEW tx \in Transactions, NEW did \in Text,
         tx.kind \in {"StoreData", "GrantSubgroveKey", "RotateSubgroveKey", "RevokeSubgroveKey"}
  PROVE  AsOwner(tx, did) \in Transactions /\ Signer(AsOwner(tx, did)) = did /\ AsOwner(tx, did).kind = tx.kind
<1> USE DEF Signer, AsOwner
<1> USE DEF StoreDataTxs, StoreFileManifestTxs, DeleteFileManifestTxs, GrantTxs, RotateTxs, RevokeTxs, UnregisterTxs,
        RegisterDidTxs, RegisterSubgroveTxs, TransferTxs, DeregisterTxs
<1> HIDE DEF Text
<1>1. tx \in StoreDataTxs \cup GrantTxs \cup RotateTxs \cup RevokeTxs
  BY DEF Transactions
<1>2. CASE tx \in StoreDataTxs
  <2>1. [tx EXCEPT !.owner_did = did] \in StoreDataTxs
    BY <1>2
  <2> QED
    BY <1>2, <2>1 DEF Transactions
<1>3. CASE tx \in GrantTxs
  <2>1. [tx EXCEPT !.sender_did = did] \in GrantTxs
    BY <1>3
  <2> QED
    BY <1>3, <2>1 DEF Transactions
<1>4. CASE tx \in RotateTxs
  <2>1. [tx EXCEPT !.sender_did = did] \in RotateTxs
    BY <1>4
  <2> QED
    BY <1>4, <2>1 DEF Transactions
<1>5. CASE tx \in RevokeTxs
  <2>1. [tx EXCEPT !.sender_did = did] \in RevokeTxs
    BY <1>5
  <2> QED
    BY <1>5, <2>1 DEF Transactions
<1> QED
  BY <1>1, <1>2, <1>3, <1>4, <1>5

-----------------------------------------------------------------------------
(* How a call starts.                                                      *)
Begins(client, txs, key) ==
  /\ txs \in Seq(Transactions) /\ client \in {"consensus", "willow"}
  /\ Given(txs) /\ OwnKey(client, txs, key)
  /\ Starts(client, txs, key)

\* A call of one transaction.
LEMMA OneBegins ==
  ASSUME NEW tx \in Transactions, NEW client \in {"consensus", "willow"}, NEW key,
         tx.kind = "RegisterSubgrove" => tx \in Requests \cup OwnRequests,
         OwnKey(client, <<tx>>, key), Asks(client, <<tx>>, key)
  PROVE  call.at = "idle" /\ (Raises \/ \E c, t, k : Begins(c, t, k))
<1>1. call.at = "idle"
  BY DEF Asks
<1>2. CASE Signable(tx)
  <2>1. <<tx>> \in Seq(Transactions) /\ Len(<<tx>>) = 1 /\ <<tx>>[1] = tx /\ DOMAIN <<tx>> = 1..1
    OBVIOUS
  <2>2. \A i \in DOMAIN <<tx>> : Signable(<<tx>>[i])
    BY <1>2, <2>1
  <2>3. Starts(client, <<tx>>, key)
    BY <2>2, Zenon DEF Asks
  <2>4. Given(<<tx>>)
    BY <1>2, <2>1 DEF Given
  <2> QED
    BY <1>1, <2>1, <2>3, <2>4 DEF Begins
<1>3. CASE ~Signable(tx)
  <2>1. 1 \in DOMAIN <<tx>> /\ ~Signable(<<tx>>[1])
    BY <1>3
  <2>2. Raises
    BY <2>1, Zenon DEF Asks
  <2> QED
    BY <1>1, <2>2
<1> QED
  BY <1>2, <1>3

ConsensusWrites ==
  \/ ConsensusStoreData \/ ConsensusStoreManifest \/ ConsensusDeleteManifest
  \/ ConsensusRegisterSubgrove \/ ConsensusRegisterDid \/ ConsensusTransfer \/ ConsensusDeregister
  \/ OwnBuilder
ClientWrites == Store \/ RegisterSubgrove \/ GrantKey \/ RevokeKey \/ RotateKey \/ RegisterDid

LEMMA ConsensusBegins ==
  ASSUME ConsensusWrites
  PROVE  call.at = "idle" /\ (Raises \/ \E c, t, k : Begins(c, t, k))
<1>1. PICK tx \in Requests : Asks("consensus", <<tx>>, Some(Signer(tx)))
  BY DEF ConsensusWrites, ConsensusStoreData, ConsensusStoreManifest, ConsensusDeleteManifest, ConsensusRegisterSubgrove,
         ConsensusRegisterDid, ConsensusTransfer, ConsensusDeregister, OwnBuilder, ConsensusCall
<1>2. tx \in Transactions
  BY SigningAssumption
<1>3. OwnKey("consensus", <<tx>>, Some(Signer(tx)))
  BY DEF OwnKey
<1> QED
  BY <1>1, <1>2, <1>3, OneBegins

\* An identity set.
LEMMA IdentityFacts ==
  ASSUME SigningOK, identity # None
  PROVE  identity = Some(identity[1]) /\ identity[1] \in Identities /\ identity[1] \in Text
<1>1. PICK did \in Identities : identity = Some(did)
  BY DEF SigningOK
<1>2. identity[1] = did
  BY <1>1 DEF Some
<1> QED
  BY <1>1, <1>2, SigningAssumption

LEMMA StoreBegins ==
  ASSUME SigningOK, Store
  PROVE  call.at = "idle" /\ (Raises \/ \E c, t, k : Begins(c, t, k))
<1>1. identity # None /\ identity[1] \in Text
  BY IdentityFacts DEF Store
<1>2. PICK batch \in Batches : Asks("willow", [i \in DOMAIN batch |-> AsOwner(batch[i], identity[1])], None)
  BY DEF Store
<1> DEFINE txs == [i \in DOMAIN batch |-> AsOwner(batch[i], identity[1])]
<1>3. batch \in Seq(StoreDataTxs)
  BY SigningAssumption
<1>4. ASSUME NEW i \in DOMAIN batch
      PROVE  txs[i] \in Transactions /\ Signer(txs[i]) = identity[1] /\ txs[i].kind = "StoreData"
  <2>1. batch[i] \in StoreDataTxs
    BY <1>3
  <2>2. batch[i] \in Transactions /\ batch[i].kind = "StoreData"
    BY <2>1 DEF Transactions, StoreDataTxs
  <2>3. AsOwner(batch[i], identity[1]) \in Transactions /\ Signer(AsOwner(batch[i], identity[1])) = identity[1]
        /\ AsOwner(batch[i], identity[1]).kind = "StoreData"
    BY <1>1, <2>2, AsOwnerFacts
  <2> QED
    BY <2>3
<1>5. DOMAIN batch = 1..Len(batch) /\ Len(batch) \in Nat
  BY <1>3
<1>6. txs \in Seq(Transactions) /\ Len(txs) = Len(batch) /\ DOMAIN txs = DOMAIN batch
  BY <1>4, <1>5
<1> HIDE DEF txs
<1>7. Asks("willow", txs, None)
  BY <1>2 DEF txs
<1>8. OwnKey("willow", txs, None)
  BY <1>1, <1>4, <1>5, <1>6 DEF OwnKey
<1>9. CASE \A i \in DOMAIN txs : Signable(txs[i])
  <2>1. Starts("willow", txs, None)
    BY <1>7, <1>9, Zenon DEF Asks
  <2>2. Given(txs)
    BY <1>4, <1>5, <1>6, <1>9 DEF Given
  <2> QED
    BY <1>6, <1>7, <1>8, <2>1, <2>2 DEF Begins, Asks
<1>10. CASE ~\A i \in DOMAIN txs : Signable(txs[i])
  BY <1>7, <1>10, Zenon DEF Asks
<1> QED
  BY <1>9, <1>10, <1>7 DEF Asks

LEMMA ClientBegins ==
  ASSUME SigningOK, ClientWrites
  PROVE  call.at = "idle" /\ (Raises \/ \E c, t, k : Begins(c, t, k))
<1>1. CASE Store
  BY <1>1, StoreBegins
<1>2. CASE RegisterSubgrove \/ RegisterDid
  <2>1. PICK tx \in OwnRequests :
          /\ identity # None
          /\ \/ tx.kind = "RegisterSubgrove" /\ tx.owner_did = identity[1] /\ Asks("willow", <<tx>>, None)
             \/ tx.kind = "RegisterDid" /\ tx.did_document.id = identity[1] /\ Asks("willow", <<tx>>, identity)
             \/ call.at = "idle" /\ Raises
    BY <1>2 DEF RegisterSubgrove, RegisterDid
  <2>2. tx \in Transactions
    BY SigningAssumption
  <2>3. identity # None
    BY <2>1
  <2>4. CASE tx.kind = "RegisterSubgrove" /\ tx.owner_did = identity[1] /\ Asks("willow", <<tx>>, None)
    <3>1. Signer(tx) = identity[1]
      BY <2>4 DEF Signer
    <3>2. OwnKey("willow", <<tx>>, None)
      BY <2>3, <3>1 DEF OwnKey
    <3> QED
      BY <2>2, <2>4, <3>2, OneBegins
  <2>5. CASE tx.kind = "RegisterDid" /\ tx.did_document.id = identity[1] /\ Asks("willow", <<tx>>, identity)
    <3>1. Signer(tx) = identity[1]
      BY <2>5 DEF Signer
    <3>2. OwnKey("willow", <<tx>>, identity)
      BY <2>3, <3>1 DEF OwnKey
    <3> QED
      BY <2>2, <2>5, <3>2, OneBegins
  <2> QED
    BY <2>1, <2>4, <2>5
<1>3. CASE GrantKey \/ RevokeKey \/ RotateKey
  <2>1. PICK tx \in OwnRequests :
          /\ identity # None
          /\ tx.kind \in {"GrantSubgroveKey", "RotateSubgroveKey", "RevokeSubgroveKey"}
          /\ Asks("willow", <<AsOwner(tx, identity[1])>>, None)
    BY <1>3 DEF GrantKey, RevokeKey, RotateKey
  <2>2. tx \in Transactions /\ identity[1] \in Text
    BY <2>1, SigningAssumption, IdentityFacts
  <2> DEFINE own == AsOwner(tx, identity[1])
  <2>3. own \in Transactions /\ Signer(own) = identity[1] /\ own.kind # "RegisterSubgrove"
    BY <2>1, <2>2, AsOwnerFacts
  <2> HIDE DEF own
  <2>4. OwnKey("willow", <<own>>, None)
    BY <2>1, <2>3 DEF OwnKey
  <2>5. Asks("willow", <<own>>, None)
    BY <2>1 DEF own
  <2> QED
    BY <2>3, <2>4, <2>5, OneBegins
<1> QED
  BY <1>1, <1>2, <1>3 DEF ClientWrites

-----------------------------------------------------------------------------
(* What each step keeps.                                                   *)
LEMMA BeginsKeeps ==
  ASSUME SigningOK, NEW client, NEW txs, NEW key, Begins(client, txs, key)
  PROVE  CallInv'
<1> USE DEF Begins, Starts, Idle
<1>1. /\ call' = [at |-> IF txs = << >> THEN "done" ELSE "next", client |-> client, txs |-> txs, next |-> 1, did |-> None,
                  key |-> key, message |-> << >>, results |-> << >>]
      /\ node' = NothingSeen /\ changes' = 0 /\ identity' = identity
  OBVIOUS
<1>2. txs \in Seq(Transactions) /\ client \in {"consensus", "willow"} /\ Given(txs) /\ OwnKey(client, txs, key)
  OBVIOUS
<1> HIDE DEF Begins, Starts
<1>3. Len(txs) \in Nat /\ (txs = << >> <=> Len(txs) = 0)
  BY <1>2
<1>4. call'.results = << >> /\ Len(call'.results) = 0
  BY <1>1
<1>5. SigningOK'
  <2>1. << >> \in Seq([tx : Transactions, did : SomeDid])
    OBVIOUS
  <2> QED
    BY <1>1, <1>2, <2>1 DEF SigningOK, Underway, Over, SomeDid, NothingSeen
<1>6. StepsInOrder'
  BY <1>1, <1>2, <1>3, <1>4 DEF StepsInOrder, Underway, NothingSeen
<1>7. OwnKey(client, txs, key)'
  BY <1>1, <1>2 DEF OwnKey
<1>8. Given(txs)'
  BY <1>2 DEF Given
<1>9. NodeTakesSigned'
  BY <1>1 DEF NodeTakesSigned, NothingSeen
<1>10. Signed'
  <2>1. call'.txs = txs /\ call'.client = client /\ call'.key = key /\ call'.at # "sent"
    BY <1>1
  <2>2. OwnKey(call.client, call.txs, call.key)'
    BY <1>7, <2>1 DEF OwnKey
  <2>3. Given(call.txs)'
    BY <1>8, <2>1 DEF Given
  <2> QED
    BY <1>9, <2>1, <2>2, <2>3 DEF Signed
<1> QED
  BY <1>5, <1>6, <1>10 DEF CallInv

\* Back to no call, or a refused one.
LEMMA NothingKeeps ==
  ASSUME SigningOK, Raises \/ Ends
  PROVE  CallInv'
<1>1. \E at \in {"idle", "refused"} :
        call' = [at |-> at, client |-> "none", txs |-> << >>, next |-> 1, did |-> None, key |-> None,
                 message |-> << >>, results |-> << >>]
  BY DEF Raises, Ends, Idle
<1>2. node' = NothingSeen /\ changes' = 0 /\ identity' = identity
  BY DEF Raises, Ends
<1>3. << >> \in Seq([tx : Transactions, did : SomeDid]) /\ << >> \in Seq(Transactions) /\ Len(<< >>) = 0
  OBVIOUS
<1>4. SigningOK'
  BY <1>1, <1>2, <1>3 DEF SigningOK, Underway, Over, SomeDid, NothingSeen, Idle
<1>5. StepsInOrder'
  BY <1>1, <1>2, <1>3 DEF StepsInOrder, Underway, NothingSeen
<1>6. Signed'
  BY <1>1, <1>2 DEF Signed, Underway, NodeTakesSigned, NothingSeen
<1> QED
  BY <1>4, <1>5, <1>6 DEF CallInv

\* The call as it is under way.
LEMMA CurrentFacts ==
  ASSUME CallInv, call.at \in Underway
  PROVE  /\ Current \in Transactions /\ Signable(Current)
         /\ Current.kind = "RegisterSubgrove" => Current \in Requests \cup OwnRequests
         /\ call.next \in 1..Len(call.txs) /\ Len(call.txs) \in Nat
<1>1. call.txs \in Seq(Transactions) /\ call.next \in 1..Len(call.txs) /\ Given(call.txs)
  BY DEF CallInv, SigningOK, StepsInOrder, Signed
<1> QED
  BY <1>1 DEF Current, Given

LEMMA TakeNonceKeeps ==
  ASSUME CallInv, TakeNonce
  PROVE  CallInv'
<1>1. call.at = "next" /\ call' = [call EXCEPT !.at = "taking", !.did = Account] /\ UNCHANGED <<identity, node, changes>>
  BY DEF TakeNonce
<1>2. Current \in Transactions /\ Signer(Current) \in Text
  BY <1>1, CurrentFacts, SignerFacts DEF Underway
<1>3. Account \in SomeDid
  <2>1. identity \in SomeDid
    BY SigningAssumption DEF CallInv, SigningOK, SomeDid
  <2>2. Some(Signer(Current)) \in SomeDid
    BY <1>2 DEF SomeDid
  <2> QED
    BY <2>1, <2>2 DEF Account
<1> HIDE DEF Account
<1>4. DOMAIN call = DOMAIN Idle
  BY DEF CallInv, SigningOK
<1>5. /\ DOMAIN call' = DOMAIN Idle /\ call'.at = "taking" /\ call'.did = Account
      /\ call'.client = call.client /\ call'.txs = call.txs /\ call'.next = call.next /\ call'.key = call.key
      /\ call'.results = call.results
  BY <1>1, <1>4 DEF Idle
<1>6. SigningOK'
  BY <1>1, <1>3, <1>5 DEF CallInv, SigningOK, Underway
<1>7. StepsInOrder'
  BY <1>1, <1>5 DEF CallInv, StepsInOrder, Underway
<1>8. Signed'
  BY <1>1, <1>5 DEF CallInv, Signed, Underway, NodeTakesSigned, OwnKey, Given
<1> QED
  BY <1>6, <1>7, <1>8 DEF CallInv

\* The call ends with an error.
LEMMA FailsKeeps ==
  ASSUME CallInv, call.at \in Underway, Fails, UNCHANGED <<identity, changes>>,
         DOMAIN node' = DOMAIN node, node'.received = node.received, node.taken \subseteq node'.taken,
         NodeTakesSigned'
  PROVE  CallInv'
<1>1. DOMAIN call = DOMAIN Idle
  BY DEF CallInv, SigningOK
<1>2. /\ DOMAIN call' = DOMAIN Idle /\ call'.at = "failed" /\ call'.did = call.did
      /\ call'.client = call.client /\ call'.txs = call.txs /\ call'.next = call.next /\ call'.key = call.key
      /\ call'.results = call.results
  BY <1>1 DEF Idle, Fails
<1>3. SigningOK'
  BY <1>2 DEF CallInv, SigningOK, Underway, Over
<1>4. StepsInOrder'
  BY <1>2 DEF CallInv, StepsInOrder, Underway
<1>5. Signed'
  BY <1>2 DEF CallInv, Signed, Underway
<1> QED
  BY <1>3, <1>4, <1>5 DEF CallInv

LEMMA SignKeeps ==
  ASSUME CallInv, Sign
  PROVE  CallInv'
<1>1. call.at = "taking" /\ UNCHANGED <<identity, changes>>
  BY DEF Sign
<1>2. CASE SigningKey # None /\ WireRule(Current)
  <2>1. /\ call' = [call EXCEPT !.at = "sent", !.key = SigningKey, !.message = SignMessage(Current)]
        /\ node' = [node EXCEPT !.received = @ \cup {call.next}]
    BY <1>2 DEF Sign
  <2> HIDE DEF SigningKey
  <2>2. DOMAIN call = DOMAIN Idle /\ DOMAIN node = DOMAIN NothingSeen
    BY DEF CallInv, SigningOK
  <2>3. /\ DOMAIN call' = DOMAIN Idle /\ call'.at = "sent" /\ call'.did = call.did
        /\ call'.client = call.client /\ call'.txs = call.txs /\ call'.next = call.next
        /\ call'.key = SigningKey /\ call'.message = SignMessage(Current) /\ call'.results = call.results
    BY <2>1, <2>2 DEF Idle
  <2>4. /\ DOMAIN node' = DOMAIN NothingSeen /\ node'.received = node.received \cup {call.next}
        /\ node'.taken = node.taken /\ node'.refused = node.refused
    BY <2>1, <2>2 DEF NothingSeen
  <2>5. SigningOK'
    BY <1>1, <2>3, <2>4 DEF CallInv, SigningOK, Underway
  <2>6. StepsInOrder'
    BY <1>1, <2>3, <2>4 DEF CallInv, StepsInOrder, Underway
  <2>7. OwnKey(call.client, call.txs, call.key) => OwnKey(call'.client, call'.txs, SigningKey)
    <3>1. ASSUME call.client = "consensus", call.key = Some(Signer(call.txs[1])) PROVE SigningKey = call.key
      <4>1. call.key # None
        BY <3>1, OptionFacts
      <4> QED
        BY <4>1 DEF SigningKey
    <3>2. ASSUME call.key \in {None, identity} PROVE SigningKey \in {None, identity}
      BY <3>2 DEF SigningKey
    <3> QED
      BY <2>3, <3>1, <3>2 DEF OwnKey
  <2>8. Current' = Current
    BY <2>3 DEF Current
  <2>9. call'.message = SignMessage(Current') /\ call'.key # None
    BY <1>2, <2>3, <2>8
  <2>10. (SignMessage(Current))' = SignMessage(Current')
    OBVIOUS
  <2>11. Signed'
    <3>1. Given(call.txs)'
      BY <1>1, <2>3 DEF CallInv, Signed, Given, Underway
    <3>2. (call.client # "willow" \/ changes = 0 => OwnKey(call.client, call.txs, call.key))'
      BY <1>1, <2>3, <2>7 DEF CallInv, Signed, OwnKey, Underway
    <3>3. NodeTakesSigned'
      BY <1>1, <2>3, <2>4 DEF CallInv, Signed, NodeTakesSigned
    <3> QED
      BY <2>9, <3>1, <3>2, <3>3 DEF Signed
  <2> QED
    BY <2>5, <2>6, <2>11 DEF CallInv
<1>3. CASE ~(SigningKey # None /\ WireRule(Current))
  <2>1. Fails /\ node' = node
    BY <1>3 DEF Sign
  <2>2. NodeTakesSigned'
    BY <1>1, <2>1 DEF Fails, CallInv, SigningOK, Signed, NodeTakesSigned, Idle
  <2> QED
    BY <1>1, <2>1, <2>2, FailsKeeps DEF Underway
<1> QED
  BY <1>2, <1>3

LEMMA CancelKeeps ==
  ASSUME CallInv, Cancel
  PROVE  CallInv'
<1>1. call.at \in Underway /\ Fails /\ UNCHANGED <<identity, node, changes>>
  BY DEF Cancel, Underway
<1>2. NodeTakesSigned'
  BY <1>1 DEF Fails, CallInv, SigningOK, Signed, NodeTakesSigned, Idle
<1> QED
  BY <1>1, <1>2, FailsKeeps

LEMMA IdentityKeeps ==
  ASSUME CallInv, SetIdentity \/ ClearIdentity
  PROVE  CallInv'
<1>1. /\ call.at \notin Over /\ UNCHANGED <<call, node>>
      /\ changes' \in Nat /\ changes' >= changes /\ (call.at # "idle" => changes' > 0)
  <2>1. changes \in Nat
    BY DEF CallInv, SigningOK
  <2> QED
    BY <2>1 DEF SetIdentity, ClearIdentity, Changes
<1>2. identity' \in {None} \cup {Some(did) : did \in Identities}
  BY DEF SetIdentity, ClearIdentity
<1>3. SigningOK'
  BY <1>1, <1>2 DEF CallInv, SigningOK
<1>4. StepsInOrder'
  BY <1>1 DEF CallInv, StepsInOrder
<1>5. Signed'
  <2>1. changes \in Nat /\ changes' \in Nat
    BY <1>1 DEF CallInv, SigningOK
  <2>2. NodeTakesSigned'
    BY <1>1, <2>1 DEF CallInv, Signed, NodeTakesSigned
  <2>3. call.at \in Underway => Given(call.txs)'
    BY <1>1 DEF CallInv, Signed, Given
  <2>4. call.at \in Underway => (call.client # "willow" \/ changes = 0 => OwnKey(call.client, call.txs, call.key))'
    <3>1. call.at \in Underway => call.at # "idle"
      BY DEF Underway
    <3>2. call.at \in Underway => changes' # 0
      BY <1>1, <2>1, <3>1
    <3>3. call.at \in Underway /\ call.client # "willow" => OwnKey(call.client, call.txs, call.key)'
      BY <1>1 DEF CallInv, Signed, OwnKey
    <3> QED
      BY <1>1, <3>2, <3>3
  <2>5. call.at = "sent" => (call.message = SignMessage(Current) /\ call.key # None)'
    BY <1>1 DEF CallInv, Signed, Current
  <2> QED
    BY <1>1, <2>2, <2>3, <2>4, <2>5 DEF Signed
<1> QED
  BY <1>3, <1>4, <1>5 DEF CallInv

\* A transaction taken: the call goes on to the next, or is done.
LEMMA AcceptedKeeps ==
  ASSUME CallInv, call.at = "sent", Returns("accepted"), UNCHANGED <<identity, changes>>,
         DOMAIN node' = DOMAIN node, node'.received = node.received, node'.refused = node.refused,
         node'.taken = node.taken \cup {call.next}
  PROVE  CallInv'
<1> DEFINE result == [tx |-> Current, did |-> call.did]
           end == call.next = Len(call.txs)
<1>1. call' = [call EXCEPT !.results = Append(call.results, result), !.message = << >>, !.key = KeyAfter,
                           !.at = IF end THEN "done" ELSE "next", !.next = IF end THEN call.next ELSE call.next + 1]
  BY Zenon DEF Returns, Goes
<1>2. /\ DOMAIN call = DOMAIN Idle /\ call.txs \in Seq(Transactions) /\ call.next \in 1..Len(call.txs)
      /\ Len(call.results) = call.next - 1 /\ call.results \in Seq([tx : Transactions, did : SomeDid])
      /\ node.received \subseteq 1..call.next /\ Len(call.txs) \in Nat
      /\ \A i \in 1..Len(call.results) : i \in node.taken /\ call.results[i].tx = call.txs[i]
  BY DEF CallInv, SigningOK, StepsInOrder, Underway
<1>3. result \in [tx : Transactions, did : SomeDid] /\ result.tx = call.txs[call.next]
  <2>1. Current \in Transactions /\ Current = call.txs[call.next]
    BY CurrentFacts DEF Underway, Current
  <2> QED
    BY <2>1 DEF CallInv, SigningOK
<1> HIDE DEF result, end
<1>4. /\ DOMAIN call' = DOMAIN Idle /\ call'.did = call.did /\ call'.client = call.client /\ call'.txs = call.txs
      /\ call'.results = Append(call.results, result) /\ call'.key = KeyAfter
      /\ call'.at = (IF end THEN "done" ELSE "next") /\ call'.next = (IF end THEN call.next ELSE call.next + 1)
  BY <1>1, <1>2 DEF Idle
<1>5. /\ Len(call'.results) = call.next /\ call'.results[call.next] = result
      /\ \A i \in 1..Len(call.results) : call'.results[i] = call.results[i]
      /\ call'.results \in Seq([tx : Transactions, did : SomeDid])
  BY <1>2, <1>3, <1>4
<1>6. SigningOK'
  <2>1. call'.at \in {"done", "next"} /\ call'.next \in Nat \ {0}
    BY <1>2, <1>4
  <2> QED
    BY <1>4, <1>5, <2>1 DEF CallInv, SigningOK, Underway, Over
<1>7. StepsInOrder'
  <2>1. \A i \in 1..Len(call'.results) : i \in node'.taken /\ call'.results[i].tx = call'.txs[i]
    BY <1>2, <1>3, <1>4, <1>5
  <2>2. CASE end
    <3>1. call'.at = "done" /\ call.next = Len(call.txs)
      BY <1>4, <2>2 DEF end
    <3> QED
      BY <1>4, <1>5, <2>1, <3>1 DEF StepsInOrder, Underway
  <2>3. CASE ~end
    <3>1. call'.at = "next" /\ call'.next = call.next + 1 /\ call'.next \in 1..Len(call'.txs)
      BY <1>2, <1>4, <2>3 DEF end
    <3>2. Len(call'.results) = call'.next - 1 /\ node'.received \subseteq 1..call'.next
      BY <1>2, <1>5, <3>1
    <3> QED
      BY <2>1, <3>1, <3>2 DEF StepsInOrder, Underway
  <2> QED
    BY <2>2, <2>3
<1>8. Signed'
  <2>1. Given(call.txs)'
    BY <1>4 DEF CallInv, Signed, Given, Underway
  <2>2. (call.client # "willow" \/ changes = 0 => OwnKey(call.client, call.txs, call.key))'
    <3>1. OwnKey(call.client, call.txs, call.key) => OwnKey(call.client, call.txs, KeyAfter)
      BY DEF OwnKey, KeyAfter
    <3>2. OwnKey(call.client, call.txs, KeyAfter) => OwnKey(call.client, call.txs, call.key)'
      BY <1>4 DEF OwnKey
    <3>3. call.client # "willow" \/ changes = 0 => OwnKey(call.client, call.txs, call.key)
      BY DEF CallInv, Signed, Underway
    <3> QED
      BY <1>4, <3>1, <3>2, <3>3
  <2>3. NodeTakesSigned'
    BY <1>4 DEF CallInv, Signed, NodeTakesSigned
  <2>4. call'.at # "sent"
    BY <1>4
  <2> QED
    BY <2>1, <2>2, <2>3, <2>4 DEF Signed
<1> QED
  BY <1>6, <1>7, <1>8 DEF CallInv

LEMMA AcceptKeeps ==
  ASSUME CallInv, Accept
  PROVE  CallInv'
<1>1. /\ call.at = "sent" /\ UNCHANGED <<identity, changes>> /\ node' = [node EXCEPT !.taken = @ \cup {call.next}]
      /\ Returns("accepted") \/ Returns("lost")
  BY DEF Accept
<1>2. DOMAIN node = DOMAIN NothingSeen
  BY DEF CallInv, SigningOK
<1>3. /\ DOMAIN node' = DOMAIN node /\ node'.received = node.received /\ node'.refused = node.refused
      /\ node'.taken = node.taken \cup {call.next}
  BY <1>1, <1>2 DEF NothingSeen
<1>4. CASE Returns("accepted")
  BY <1>1, <1>3, <1>4, AcceptedKeeps
<1>5. CASE Returns("lost")
  <2>1. Fails
    BY <1>5, Zenon DEF Returns, Goes
  <2>2. call'.client = call.client
    BY <2>1 DEF Fails, CallInv, SigningOK, Idle
  <2>3. NodeTakesSigned'
    BY <1>1, <1>3, <2>2 DEF CallInv, Signed, NodeTakesSigned
  <2> QED
    BY <1>1, <1>3, <2>1, <2>3, FailsKeeps DEF Underway
<1> QED
  BY <1>1, <1>4, <1>5

LEMMA RejectKeeps ==
  ASSUME CallInv, Reject
  PROVE  CallInv'
<1>1. /\ call.at = "sent" /\ UNCHANGED <<identity, changes>>
      /\ node' = [node EXCEPT !.refused = IF Verifies THEN @ ELSE @ \cup {call.next}]
      /\ Returns("refused")
  BY DEF Reject
<1>2. Fails
  BY <1>1, Zenon DEF Returns, Goes
<1>3. DOMAIN node = DOMAIN NothingSeen
  BY DEF CallInv, SigningOK
<1>4. /\ DOMAIN node' = DOMAIN node /\ node'.received = node.received /\ node'.taken = node.taken
      /\ node'.refused = IF Verifies THEN node.refused ELSE node.refused \cup {call.next}
  BY <1>1, <1>3 DEF NothingSeen
<1>5. call'.client = call.client
  BY <1>2 DEF Fails, CallInv, SigningOK, Idle
<1>6. ASSUME ~Verifies PROVE call.client = "willow" /\ changes > 0
  <2>1. NodeReads(WireBody(Current)) /\ SignMessage(WireBody(Current)) = call.message
    BY <1>1, CurrentFacts, SameMessage DEF Underway, CallInv, Signed
  <2>2. call.key # Some(Signer(Current))
    BY <1>6, <2>1 DEF Verifies
  <2>3. ~OwnKey(call.client, call.txs, call.key)
    <3>1. call.next \in 1..Len(call.txs) /\ Len(call.txs) \in Nat /\ call.key # None
      BY <1>1, CurrentFacts DEF Underway, CallInv, Signed
    <3>2. identity # None => identity = Some(identity[1])
      BY IdentityFacts DEF CallInv
    <3>3. CASE call.client = "consensus" /\ Len(call.txs) = 1 /\ call.key = Some(Signer(call.txs[1]))
      BY <2>2, <3>1, <3>3 DEF Current
    <3>4. CASE /\ call.client = "willow" /\ identity # None /\ call.key \in {None, identity}
               /\ \A i \in 1..Len(call.txs) : Signer(call.txs[i]) = identity[1]
      BY <2>2, <3>1, <3>2, <3>4 DEF Current
    <3> QED
      BY <3>3, <3>4 DEF OwnKey
  <2>4. changes \in Nat
    BY DEF CallInv, SigningOK
  <2> QED
    BY <1>1, <2>3, <2>4 DEF CallInv, Signed, Underway
<1>7. NodeTakesSigned'
  BY <1>1, <1>4, <1>5, <1>6 DEF CallInv, Signed, NodeTakesSigned
<1> QED
  BY <1>1, <1>2, <1>4, <1>7, FailsKeeps DEF Underway

-----------------------------------------------------------------------------
(* The invariant.                                                          *)

\* Every call is in order: what it reports is what the node took, and what it
\* sends is what was found signable, under its owner's key as long as the
\* identity is the one it started with.
THEOREM CallInvariant == SigningSpec => []CallInv
<1>1. SigningInit => CallInv
  <2> SUFFICES ASSUME SigningInit PROVE CallInv
    OBVIOUS
  <2>1. /\ call = [at |-> "idle", client |-> "none", txs |-> << >>, next |-> 1, did |-> None, key |-> None,
                   message |-> << >>, results |-> << >>]
        /\ node = NothingSeen /\ identity = None /\ changes = 0
    BY DEF SigningInit, Idle
  <2>2. << >> \in Seq([tx : Transactions, did : SomeDid]) /\ << >> \in Seq(Transactions) /\ Len(<< >>) = 0
    OBVIOUS
  <2>3. SigningOK
    BY <2>1, <2>2 DEF SigningOK, SomeDid, Idle
  <2>4. StepsInOrder
    BY <2>1, <2>2 DEF StepsInOrder, Underway
  <2>5. Signed
    BY <2>1 DEF Signed, Underway, NodeTakesSigned, NothingSeen
  <2> QED
    BY <2>3, <2>4, <2>5 DEF CallInv
<1>2. CallInv /\ [SigningNext]_signingVars => CallInv'
  <2> SUFFICES ASSUME CallInv, [SigningNext]_signingVars PROVE CallInv'
    OBVIOUS
  <2>1. SigningOK
    BY DEF CallInv
  <2>2. CASE ConsensusWrites
    BY <2>1, <2>2, ConsensusBegins, NothingKeeps, BeginsKeeps
  <2>3. CASE ClientWrites
    BY <2>1, <2>3, ClientBegins, NothingKeeps, BeginsKeeps
  <2>4. CASE TakeNonce \/ Sign
    BY <2>4, TakeNonceKeeps, SignKeeps
  <2>5. CASE Accept \/ Reject
    BY <2>5, AcceptKeeps, RejectKeeps
  <2>6. CASE Cancel \/ SetIdentity \/ ClearIdentity
    BY <2>6, CancelKeeps, IdentityKeeps
  <2>7. CASE Ends
    BY <2>1, <2>7, NothingKeeps
  <2>8. CASE UNCHANGED signingVars
    BY <2>8 DEF signingVars, CallInv, SigningOK, StepsInOrder, Signed, OwnKey, Given, Current, NodeTakesSigned
  <2> QED
    BY <2>2, <2>3, <2>4, <2>5, <2>6, <2>7, <2>8 DEF SigningNext, ConsensusWrites, ClientWrites
<1> QED
  BY <1>1, <1>2, PTL DEF SigningSpec

\* A batch's account of itself is true however it ends.
THEOREM BatchAccountIsTrue == SigningSpec => []BatchSaysWhatHappened
<1>1. CallInv => BatchSaysWhatHappened
  <2> SUFFICES ASSUME CallInv PROVE BatchSaysWhatHappened
    OBVIOUS
  <2>1. DOMAIN call.results = 1..Len(call.results)
    BY DEF CallInv, SigningOK
  <2> QED
    BY <2>1 DEF CallInv, StepsInOrder, BatchSaysWhatHappened, Underway
<1> QED
  BY <1>1, CallInvariant, PTL

\* The node refuses a transaction for its signature only when the identity was
\* changed while a WillowClient call waited.
THEOREM NodeTakesWhatWasSigned == SigningSpec => []NodeTakesSigned
<1>1. CallInv => NodeTakesSigned
  BY DEF CallInv, Signed
<1> QED
  BY <1>1, CallInvariant, PTL

\* The grants of a signed transaction are ones a revoke takes.
THEOREM GrantsAreRevocable == SigningSpec => []GrantsCanBeRevoked
<1>1. CallInv => GrantsCanBeRevoked
  <2> SUFFICES ASSUME CallInv, call.at = "sent", NEW g \in Granted(Current)
               PROVE  KeySubgroveRule(Current.subgrove_id) /\ DidRule(g.grantee_did)
    BY DEF GrantsCanBeRevoked
  <2>1. Current \in Transactions /\ Signable(Current)
    BY CurrentFacts DEF Underway
  <2> QED
    BY <2>1, GrantedFacts
<1> QED
  BY <1>1, CallInvariant, PTL

\* A signature is good for one body only: no other transaction the SDK would
\* sign reads as the same message, whatever labels, colons, quotes or brackets
\* its texts hold (signed_messages.py: "the lines must read back one way only").
THEOREM SignatureBinds == SigningSpec => []SignatureBindsFields
<1>1. CallInv => SignatureBindsFields
  <2> SUFFICES ASSUME CallInv, call.at = "sent", Current.kind \in BoundKinds,
                      NEW other \in SignedBodies, other.message = call.message
               PROVE  other.body = WireBody(Current)
    BY DEF SignatureBindsFields
  <2>1. PICK tx \in Requests : /\ tx.kind \in BoundKinds /\ Signable(tx)
                               /\ other = [message |-> SignMessage(tx), body |-> WireBody(tx)]
    BY DEF SignedBodies
  <2>2. /\ Current \in Transactions /\ Signable(Current)
        /\ Current.kind = "RegisterSubgrove" => Current \in Requests \cup OwnRequests
    BY CurrentFacts DEF Underway
  <2>3. call.message = SignMessage(Current)
    BY DEF CallInv, Signed
  <2>4. tx \in Transactions
    BY SigningAssumption
  <2>5. /\ Current.kind = "RegisterSubgrove" /\ tx.kind = "RegisterSubgrove" /\ Current.schema.text = tx.schema.text
        => Current.schema = tx.schema
    BY <2>2, SigningAssumption
  <2>6. SignMessage(tx) = SignMessage(Current)
    BY <2>1, <2>3
  <2>7. WireBody(tx) = WireBody(Current)
    BY <2>1, <2>2, <2>4, <2>5, <2>6, OneBody
  <2> QED
    BY <2>1, <2>7
<1> QED
  BY <1>1, CallInvariant, PTL
=============================================================================
