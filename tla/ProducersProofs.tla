--------------------------- MODULE ProducersProofs ---------------------------
(***************************************************************************)
(* The producer process, for any number of coins, inputs, retries and      *)
(* faults and every value of the backoff's base and cap.                   *)
(***************************************************************************)
EXTENDS Producers, SetInduction

-----------------------------------------------------------------------------
(***************************************************************************)
(* The invariants                                                          *)
(***************************************************************************)

\* The process and its counters, the clients' counts without their bound.
Typed == /\ main \in {"waiting", "gathering", "flushing", "exited"}
         /\ stop \in BOOLEAN /\ wanted \in BOOLEAN /\ brokerUp \in BOOLEAN
         /\ disturbed \in BOOLEAN
         /\ task \in [Tasks -> Waiting \cup Ended]
         /\ accepted \in [Tasks -> [Topics -> Nat]]
         /\ buffered \in [Tasks -> [Topics -> Nat]]
         /\ delivered \in [Tasks -> [Topics -> Nat]]
         /\ inputs \in 0 .. MaxInputs
         /\ faults \in 0 .. MaxFaults

\* Per input a task sends a record for every coin and one to the DLQ at most;
\* what it sent is in one place at most, and in exactly one while nothing has
\* disturbed the process or the broker.
CountInv ==
    \A t \in Tasks, d \in Topics :
        /\ accepted[t][d] <= (Ids + 1) * inputs
        /\ buffered[t][d] + delivered[t][d] <= accepted[t][d]
        /\ ~disturbed => accepted[t][d] = buffered[t][d] + delivered[t][d]

\* An outage is remembered, and a process that is gone has no memory.
MemoryInv == /\ ~brokerUp => disturbed
             /\ main = "exited" => buffered = None

ClientInv == Typed /\ CountInv /\ MemoryInv

\* The variables of the stream tasks.
StreamInv ==
    /\ backoff \in [Streams -> Nat]
    /\ retries \in [Streams -> 0 .. MaxRetries]
    /\ malformed \in [Streams -> Nat]
    /\ inputs \in 0 .. MaxInputs
    /\ \A t \in Streams : malformed[t] <= inputs
    /\ BackoffFollowsRetries

-----------------------------------------------------------------------------
(***************************************************************************)
(* Operators                                                               *)
(***************************************************************************)

LEMMA MinIsLeast ==
    ASSUME NEW S \in SUBSET Nat, S # {}
    PROVE  Min(S) \in S /\ \A x \in S : Min(S) <= x
<1>1. \E m \in S : \A x \in S : m <= x
  BY LeastNatural
<1> QED BY <1>1 DEF Min

\* The recursion that defines Doubled has a solution, and Doubled is it.
LEMMA DoubledDefined ==
    Doubled = [n \in 0 .. MaxRetries |-> IF n = 0 THEN Base ELSE 2 * Doubled[n - 1]]
<1> DEFINE Solves(f, k) == f = [n \in 0 .. k |-> IF n = 0 THEN Base ELSE 2 * f[n - 1]]
           T == {k \in Nat : \E f : Solves(f, k)}
<1>1. 0 \in T
  <2> DEFINE f == [n \in 0 .. 0 |-> Base]
  <2>1. Solves(f, 0)
    OBVIOUS
  <2> QED BY <2>1
<1>2. ASSUME NEW k \in Nat, k \in T
      PROVE  k + 1 \in T
  <2>1. PICK f : Solves(f, k)
    BY <1>2
  <2> DEFINE g == [n \in 0 .. k + 1 |-> IF n = 0 THEN Base ELSE 2 * f[n - 1]]
  <2>2. \A n \in 0 .. k : g[n] = f[n]
    BY <2>1
  <2>3. \A n \in 0 .. k + 1 : n # 0 => n - 1 \in 0 .. k
    OBVIOUS
  <2>4. \A n \in 0 .. k + 1 : g[n] = IF n = 0 THEN Base ELSE 2 * g[n - 1]
    BY <2>2, <2>3
  <2>5. Solves(g, k + 1)
    BY <2>4
  <2> HIDE DEF g, Solves
  <2>6. \E h : Solves(h, k + 1)
    BY <2>5
  <2> QED BY <2>6
<1> HIDE DEF T
<1>3. MaxRetries \in T
  BY <1>1, <1>2, NatSetInduction, RetriesAssumption
<1>4. \E f : Solves(f, MaxRetries)
  BY <1>3 DEF T
<1> QED BY <1>4, Zenon DEF Doubled

LEMMA DoubledFacts ==
    /\ Doubled[0] = Base
    /\ \A n \in 0 .. MaxRetries : Doubled[n] \in Nat
    /\ \A n \in 0 .. MaxRetries : n < MaxRetries => Doubled[n + 1] = 2 * Doubled[n]
<1>1. MaxRetries \in Nat /\ Base \in Nat
  BY RetriesAssumption, BackoffAssumption
<1>2. \A n \in 0 .. MaxRetries : Doubled[n] = IF n = 0 THEN Base ELSE 2 * Doubled[n - 1]
  BY DoubledDefined
<1> DEFINE T == {n \in Nat : n <= MaxRetries => Doubled[n] \in Nat}
<1>3. 0 \in T
  BY <1>1, <1>2
<1>4. ASSUME NEW n \in Nat, n \in T
      PROVE  n + 1 \in T
  <2> SUFFICES ASSUME n + 1 <= MaxRetries PROVE Doubled[n + 1] \in Nat
    OBVIOUS
  <2>1. n <= MaxRetries /\ n + 1 \in 0 .. MaxRetries /\ n + 1 # 0 /\ (n + 1) - 1 = n
    BY <1>1
  <2>2. Doubled[n + 1] = 2 * Doubled[n]
    BY <1>2, <2>1
  <2>3. Doubled[n] \in Nat
    BY <1>4, <2>1
  <2> QED BY <2>2, <2>3
<1> HIDE DEF T
<1>5. Nat \subseteq T
  BY <1>3, <1>4, NatSetInduction
<1>6. \A n \in 0 .. MaxRetries : Doubled[n] \in Nat
  BY <1>5 DEF T
<1>7. ASSUME NEW n \in 0 .. MaxRetries, n < MaxRetries
      PROVE  Doubled[n + 1] = 2 * Doubled[n]
  <2>1. n + 1 \in 0 .. MaxRetries /\ n + 1 # 0 /\ (n + 1) - 1 = n
    BY <1>1, <1>7
  <2> QED BY <1>2, <2>1
<1> QED BY <1>1, <1>2, <1>6, <1>7

\* A poll publishes some of its coins.
LEMMA PublishedType == \A r \in Responses : Published(r) \in 0 .. Ids
<1> TAKE r \in Responses
<1>1. CASE r.body # "object"
  BY <1>1, IdsAssumption DEF Published
<1>2. CASE r.body = "object"
  <2> DEFINE S == {Ids} \cup {i - 1 : i \in {i \in 1 .. Ids : r.usd[i] # "number"}}
  <2>1. S \in SUBSET (0 .. Ids) /\ S # {}
    BY IdsAssumption
  <2> HIDE DEF S
  <2>2. Min(S) \in S
    <3>1. S \in SUBSET Nat
      BY <2>1, IdsAssumption
    <3> QED BY <2>1, <3>1, MinIsLeast
  <2>3. Published(r) = Min(S)
    BY <1>2 DEF Published, S
  <2> QED BY <2>1, <2>2, <2>3
<1> QED BY <1>1, <1>2

-----------------------------------------------------------------------------
(***************************************************************************)
(* What is sent                                                            *)
(***************************************************************************)

\* send() adds the same number of records to what was accepted and to what is
\* in the client's memory.
LEMMA SendStep ==
    ASSUME Typed, NEW t \in Tasks, NEW n \in 0 .. Ids, NEW m \in 0 .. 1, Send(t, n, m)
    PROVE  /\ accepted' \in [Tasks -> [Topics -> Nat]]
           /\ buffered' \in [Tasks -> [Topics -> Nat]]
           /\ delivered' = delivered
           /\ \A u \in Tasks, d \in Topics : \E k \in 0 .. Ids + 1 :
                 /\ accepted'[u][d] = accepted[u][d] + k
                 /\ buffered'[u][d] = buffered[u][d] + k
<1>1. /\ accepted \in [Tasks -> [Topics -> Nat]]
      /\ buffered \in [Tasks -> [Topics -> Nat]]
      /\ n \in Nat /\ m \in Nat /\ Ids \in Nat
  BY IdsAssumption DEF Typed
<1>2. ASSUME NEW c \in [Tasks -> [Topics -> Nat]], NEW e,
             e = [c EXCEPT ![t]["raw"] = @ + n, ![t]["dlq"] = @ + m]
      PROVE  /\ e \in [Tasks -> [Topics -> Nat]]
             /\ e[t]["raw"] = c[t]["raw"] + n
             /\ e[t]["dlq"] = c[t]["dlq"] + m
             /\ \A u \in Tasks : u # t => e[u] = c[u]
  <2>1. c[t] \in [Topics -> Nat]
    OBVIOUS
  <2> DEFINE row == [c[t] EXCEPT !["raw"] = @ + n]
             row2 == [row EXCEPT !["dlq"] = @ + m]
  <2>2. row \in [Topics -> Nat] /\ row["raw"] = c[t]["raw"] + n /\ row["dlq"] = c[t]["dlq"]
    BY <2>1, <1>1 DEF Topics
  <2> HIDE DEF row
  <2>3. row2 \in [Topics -> Nat] /\ row2["raw"] = row["raw"] /\ row2["dlq"] = row["dlq"] + m
    BY <2>2, <1>1 DEF Topics
  <2>4. e = [c EXCEPT ![t] = row2]
    BY <1>2, <2>1 DEF row
  <2> HIDE DEF row2
  <2> QED BY <2>2, <2>3, <2>4
<1>3. /\ accepted' = [accepted EXCEPT ![t]["raw"] = @ + n, ![t]["dlq"] = @ + m]
      /\ buffered' = [buffered EXCEPT ![t]["raw"] = @ + n, ![t]["dlq"] = @ + m]
      /\ delivered' = delivered
  BY DEF Send
<1>4. /\ accepted' \in [Tasks -> [Topics -> Nat]]
      /\ accepted'[t]["raw"] = accepted[t]["raw"] + n
      /\ accepted'[t]["dlq"] = accepted[t]["dlq"] + m
      /\ \A u \in Tasks : u # t => accepted'[u] = accepted[u]
  BY <1>1, <1>2, <1>3
<1>5. /\ buffered' \in [Tasks -> [Topics -> Nat]]
      /\ buffered'[t]["raw"] = buffered[t]["raw"] + n
      /\ buffered'[t]["dlq"] = buffered[t]["dlq"] + m
      /\ \A u \in Tasks : u # t => buffered'[u] = buffered[u]
  BY <1>1, <1>2, <1>3
<1>6. ASSUME NEW u \in Tasks, NEW d \in Topics
      PROVE  \E k \in 0 .. Ids + 1 : /\ accepted'[u][d] = accepted[u][d] + k
                                     /\ buffered'[u][d] = buffered[u][d] + k
  <2>1. accepted[u][d] \in Nat /\ buffered[u][d] \in Nat
    BY <1>1
  <2>2. CASE u # t
    <3>1. 0 \in 0 .. Ids + 1
      BY <1>1
    <3> QED BY <2>1, <2>2, <3>1, <1>4, <1>5
  <2>3. CASE u = t /\ d = "raw"
    BY <2>3, <1>1, <1>4, <1>5
  <2>4. CASE u = t /\ d = "dlq"
    BY <2>4, <1>1, <1>4, <1>5
  <2> QED BY <2>2, <2>3, <2>4 DEF Topics
<1> QED BY <1>3, <1>4, <1>5, <1>6

LEMMA Becoming ==
    ASSUME Typed, NEW t \in Tasks, NEW await \in Waiting \cup Ended, Becomes(t, await)
    PROVE  task' \in [Tasks -> Waiting \cup Ended]
BY DEF Typed, Becomes

\* A message or a poll is handled, with what it sends.
LEMMA Handled ==
    ASSUME ClientInv, NEW t \in Tasks, NEW n \in 0 .. Ids, NEW m \in 0 .. 1, Send(t, n, m),
           inputs < MaxInputs, inputs' = inputs + 1, main = "waiting",
           task' \in [Tasks -> Waiting \cup Ended],
           UNCHANGED <<main, stop, wanted, brokerUp, disturbed, faults>>
    PROVE  ClientInv'
<1>1. /\ accepted' \in [Tasks -> [Topics -> Nat]]
      /\ buffered' \in [Tasks -> [Topics -> Nat]]
      /\ delivered' = delivered
      /\ \A u \in Tasks, d \in Topics : \E k \in 0 .. Ids + 1 :
            /\ accepted'[u][d] = accepted[u][d] + k
            /\ buffered'[u][d] = buffered[u][d] + k
  BY SendStep DEF ClientInv
<1>2. inputs \in Nat /\ inputs' \in 0 .. MaxInputs /\ Ids \in Nat
  BY BoundsAssumption, IdsAssumption DEF ClientInv, Typed
<1>3. Typed'
  BY <1>1, <1>2 DEF ClientInv, Typed
<1>4. CountInv'
  <2> SUFFICES ASSUME NEW u \in Tasks, NEW d \in Topics
               PROVE  /\ accepted'[u][d] <= (Ids + 1) * inputs'
                      /\ buffered'[u][d] + delivered'[u][d] <= accepted'[u][d]
                      /\ ~disturbed' => accepted'[u][d] = buffered'[u][d] + delivered'[u][d]
    BY DEF CountInv
  <2>1. PICK k \in 0 .. Ids + 1 : /\ accepted'[u][d] = accepted[u][d] + k
                                  /\ buffered'[u][d] = buffered[u][d] + k
    BY <1>1
  <2>2. /\ accepted[u][d] \in Nat /\ buffered[u][d] \in Nat /\ delivered[u][d] \in Nat
        /\ delivered'[u][d] = delivered[u][d] /\ disturbed' = disturbed
    BY <1>1 DEF ClientInv, Typed
  <2>3. /\ accepted[u][d] <= (Ids + 1) * inputs
        /\ buffered[u][d] + delivered[u][d] <= accepted[u][d]
        /\ ~disturbed => accepted[u][d] = buffered[u][d] + delivered[u][d]
    BY DEF ClientInv, CountInv
  <2>4. (Ids + 1) * inputs' = (Ids + 1) * inputs + (Ids + 1) /\ (Ids + 1) * inputs \in Nat
    BY <1>2
  <2>5. k \in Nat /\ k <= Ids + 1
    BY <1>2
  <2>6. accepted'[u][d] <= (Ids + 1) * inputs'
    <3> DEFINE bound == (Ids + 1) * inputs
    <3>1. accepted[u][d] <= bound /\ bound \in Nat /\ (Ids + 1) * inputs' = bound + (Ids + 1)
      BY <2>3, <2>4
    <3> HIDE DEF bound
    <3> QED BY <3>1, <2>1, <2>2, <2>5, <1>2
  <2>7. buffered'[u][d] + delivered'[u][d] <= accepted'[u][d]
    BY <2>1, <2>2, <2>3, <2>5
  <2>8. ASSUME ~disturbed' PROVE accepted'[u][d] = buffered'[u][d] + delivered'[u][d]
    BY <2>1, <2>2, <2>3, <2>5, <2>8
  <2> QED BY <2>6, <2>7, <2>8
<1>5. MemoryInv'
  BY DEF ClientInv, MemoryInv
<1> QED BY <1>3, <1>4, <1>5 DEF ClientInv

\* Nothing is sent, delivered or dropped.
LEMMA Idle ==
    ASSUME ClientInv, UNCHANGED clientVars, inputs' \in {inputs, inputs + 1},
           disturbed => disturbed', Typed', MemoryInv'
    PROVE  ClientInv'
<1>1. accepted' = accepted /\ buffered' = buffered /\ delivered' = delivered
  BY DEF clientVars
<1>2. CountInv'
  <2> SUFFICES ASSUME NEW u \in Tasks, NEW d \in Topics
               PROVE  /\ accepted'[u][d] <= (Ids + 1) * inputs'
                      /\ buffered'[u][d] + delivered'[u][d] <= accepted'[u][d]
                      /\ ~disturbed' => accepted'[u][d] = buffered'[u][d] + delivered'[u][d]
    BY DEF CountInv
  <2>1. /\ accepted[u][d] <= (Ids + 1) * inputs
        /\ buffered[u][d] + delivered[u][d] <= accepted[u][d]
        /\ ~disturbed => accepted[u][d] = buffered[u][d] + delivered[u][d]
    BY DEF ClientInv, CountInv
  <2>2. inputs \in Nat /\ Ids \in Nat /\ accepted[u][d] \in Nat
    BY BoundsAssumption, IdsAssumption DEF ClientInv, Typed
  <2>3. (Ids + 1) * (inputs + 1) = (Ids + 1) * inputs + (Ids + 1) /\ (Ids + 1) * inputs \in Nat
    BY <2>2
  <2>4. accepted[u][d] <= (Ids + 1) * inputs'
    BY <2>1, <2>2, <2>3
  <2> QED BY <2>1, <2>4, <1>1
<1> QED BY <1>2 DEF ClientInv

-----------------------------------------------------------------------------
(***************************************************************************)
(* No loss                                                                 *)
(***************************************************************************)

LEMMA ClientInit == Init => ClientInv
<1> SUFFICES ASSUME Init PROVE ClientInv
  OBVIOUS
<1>1. None \in [Tasks -> [Topics -> Nat]] /\ \A t \in Tasks, d \in Topics : None[t][d] = 0
  BY DEF None
<1>2. FirstAwait \in [Tasks -> Waiting \cup Ended]
  BY DEF FirstAwait, Waiting
<1>3. Typed
  <2>1. /\ main \in {"waiting", "gathering", "flushing", "exited"}
        /\ stop \in BOOLEAN /\ wanted \in BOOLEAN /\ brokerUp \in BOOLEAN
        /\ disturbed \in BOOLEAN
    BY DEF Init
  <2>2. inputs \in 0 .. MaxInputs /\ faults \in 0 .. MaxFaults
    BY BoundsAssumption DEF Init
  <2> QED BY <1>1, <1>2, <2>1, <2>2 DEF Init, Typed
<1>4. CountInv
  <2>1. accepted = None /\ buffered = None /\ delivered = None /\ inputs = 0
    BY DEF Init
  <2>2. (Ids + 1) * 0 = 0
    BY IdsAssumption
  <2> QED BY <1>1, <2>1, <2>2 DEF CountInv
<1>5. MemoryInv
  BY DEF Init, MemoryInv
<1> QED BY <1>3, <1>4, <1>5 DEF ClientInv

\* The tasks' own steps.
LEMMA StreamsKeepClient ==
    ASSUME ClientInv, NEW t \in Streams,
           Connect(t) \/ Disconnect(t) \/ CleanClose(t) \/ Reconnect(t)
    PROVE  ClientInv'
<1>1. /\ UNCHANGED clientVars
      /\ inputs' = inputs /\ main' = main /\ main = "waiting"
      /\ UNCHANGED <<stop, wanted, brokerUp, disturbed, faults>>
  BY DEF Connect, Disconnect, CleanClose, Reconnect, Runs
<1>2. \E await \in Waiting \cup Ended : Becomes(t, await)
  BY DEF Connect, Disconnect, CleanClose, Reconnect, Waiting
<1>3. task' \in [Tasks -> Waiting \cup Ended]
  BY <1>2, Becoming DEF ClientInv, Tasks
<1>4. Typed' /\ MemoryInv'
  BY <1>1, <1>3 DEF ClientInv, Typed, MemoryInv, clientVars
<1> QED BY <1>1, <1>4, Idle

LEMMA SubscribeKeepsClient == ClientInv /\ Subscribe => ClientInv'
<1> SUFFICES ASSUME ClientInv, Subscribe PROVE ClientInv'
  OBVIOUS
<1>1. /\ UNCHANGED clientVars
      /\ inputs' = inputs /\ main' = main /\ main = "waiting"
      /\ UNCHANGED <<stop, wanted, brokerUp, disturbed, faults>>
  BY DEF Subscribe, Runs
<1>2. Kraken \in Tasks /\ Becomes(Kraken, "streaming")
  BY DEF Subscribe, Tasks, Streams
<1>3. task' \in [Tasks -> Waiting \cup Ended]
  BY <1>2, Becoming DEF ClientInv, Waiting
<1>4. Typed' /\ MemoryInv'
  BY <1>1, <1>3 DEF ClientInv, Typed, MemoryInv, clientVars
<1> QED BY <1>1, <1>4, Idle

LEMMA MessageKeepsClient ==
    ASSUME ClientInv, NEW t \in Streams, Message(t)
    PROVE  ClientInv'
<1>1. /\ main = "waiting" /\ inputs < MaxInputs /\ inputs' = inputs + 1
      /\ UNCHANGED <<main, stop, wanted, brokerUp, disturbed, faults>>
  BY DEF Message, Runs
<1>2. t \in Tasks
  BY DEF Tasks
<1>3. task' \in [Tasks -> Waiting \cup Ended]
  <2>1. task' = task \/ Becomes(t, "sleeping")
    BY DEF Message
  <2>2. CASE task' = task
    BY <2>2 DEF ClientInv, Typed
  <2>3. CASE Becomes(t, "sleeping")
    BY <2>3, <1>2, Becoming DEF ClientInv, Waiting
  <2> QED BY <2>1, <2>2, <2>3
<1>4. \/ UNCHANGED clientVars
      \/ Send(t, 1, 0)
      \/ Send(t, 0, 1)
  BY DEF Message, SendRaises
<1>5. CASE UNCHANGED clientVars
  <2>1. inputs' \in 0 .. MaxInputs
    BY <1>1, BoundsAssumption DEF ClientInv, Typed
  <2>2. Typed' /\ MemoryInv'
    BY <1>1, <1>3, <1>5, <2>1 DEF ClientInv, Typed, MemoryInv, clientVars
  <2> QED BY <1>1, <1>5, <2>2, Idle
<1>6. CASE Send(t, 1, 0)
  <2>1. 1 \in 0 .. Ids /\ 0 \in 0 .. 1
    BY IdsAssumption
  <2> QED BY <1>1, <1>2, <1>3, <1>6, <2>1, Handled
<1>7. CASE Send(t, 0, 1)
  <2>1. 0 \in 0 .. Ids /\ 1 \in 0 .. 1
    BY IdsAssumption
  <2> QED BY <1>1, <1>2, <1>3, <1>7, <2>1, Handled
<1> QED BY <1>4, <1>5, <1>6, <1>7

LEMMA PollKeepsClient ==
    ASSUME ClientInv, NEW t \in Pollers, Poll(t)
    PROVE  ClientInv'
<1>1. /\ main = "waiting" /\ inputs < MaxInputs /\ inputs' = inputs + 1
      /\ UNCHANGED <<main, stop, wanted, brokerUp, disturbed, faults>>
  BY DEF Poll, Runs
<1>2. t \in Tasks
  BY DEF Tasks
<1>3. Becomes(t, "sleeping") \/ Becomes(t, "failed")
  BY DEF Poll
<1>4. task' \in [Tasks -> Waiting \cup Ended]
  BY <1>2, <1>3, Becoming DEF ClientInv, Waiting, Ended
<1>5. PICK p \in Responses :
         \/ Send(t, Published(p), 0)
         \/ Send(t, Published(p), 1)
         \/ \E sent \in 0 .. Published(p) : Send(t, sent, 0)
  <2>1. PICK r \in {<<Published(p), PollOutcome(t, p)>> : p \in Responses} :
           \/ Send(t, r[1], 0)
           \/ Send(t, r[1], 1)
           \/ \E sent \in 0 .. r[1] : Send(t, sent, 0)
    BY DEF Poll
  <2>2. PICK p \in Responses : r = <<Published(p), PollOutcome(t, p)>>
    OBVIOUS
  <2>3. r[1] = Published(p)
    BY <2>2
  <2> QED BY <2>1, <2>3
<1>6. PICK n \in 0 .. Ids, m \in 0 .. 1 : Send(t, n, m)
  <2>1. Published(p) \in 0 .. Ids /\ Ids \in Nat
    BY PublishedType, IdsAssumption
  <2>2. \A sent \in 0 .. Published(p) : sent \in 0 .. Ids
    BY <2>1
  <2>3. 0 \in 0 .. 1 /\ 1 \in 0 .. 1
    OBVIOUS
  <2> QED BY <1>5, <2>1, <2>2, <2>3
<1> QED BY <1>1, <1>2, <1>4, <1>6, Handled

LEMMA PollAgainKeepsClient ==
    ASSUME ClientInv, NEW t \in Pollers, PollAgain(t)
    PROVE  ClientInv'
<1>1. /\ UNCHANGED clientVars
      /\ inputs' = inputs /\ main' = main /\ main = "waiting"
      /\ UNCHANGED <<stop, wanted, brokerUp, disturbed, faults>>
  BY DEF PollAgain, Runs
<1>2. t \in Tasks /\ Becomes(t, "polling")
  BY DEF PollAgain, Tasks
<1>3. task' \in [Tasks -> Waiting \cup Ended]
  BY <1>2, Becoming DEF ClientInv, Waiting
<1>4. Typed' /\ MemoryInv'
  BY <1>1, <1>3 DEF ClientInv, Typed, MemoryInv, clientVars
<1> QED BY <1>1, <1>4, Idle

\* The sender thread: what leaves the memory is in the broker, or it is lost
\* to an outage, which is remembered.
LEMMA SenderKeepsClient ==
    ASSUME ClientInv, NEW t \in Tasks, NEW d \in Topics, Deliver(t, d) \/ Expire(t, d)
    PROVE  ClientInv'
<1>1. /\ main' = main /\ main # "exited" /\ inputs' = inputs /\ accepted' = accepted
      /\ UNCHANGED <<stop, wanted, task, brokerUp, disturbed, faults>>
      /\ buffered[t][d] > 0
      /\ buffered' = [buffered EXCEPT ![t][d] = @ - 1]
      /\ \/ delivered' = [delivered EXCEPT ![t][d] = @ + 1]
         \/ delivered' = delivered /\ ~brokerUp
  BY DEF Deliver, Expire
<1>2. /\ accepted \in [Tasks -> [Topics -> Nat]]
      /\ buffered \in [Tasks -> [Topics -> Nat]]
      /\ delivered \in [Tasks -> [Topics -> Nat]]
  BY DEF ClientInv, Typed
<1>3. buffered[t][d] \in Nat /\ buffered[t][d] - 1 \in Nat /\ delivered[t][d] + 1 \in Nat
  BY <1>1, <1>2
<1>4. /\ buffered' \in [Tasks -> [Topics -> Nat]]
      /\ buffered'[t][d] = buffered[t][d] - 1
      /\ \A u \in Tasks, e \in Topics :
            <<u, e>> # <<t, d>> => buffered'[u][e] = buffered[u][e]
  BY <1>1, <1>2, <1>3
<1>5. /\ delivered' \in [Tasks -> [Topics -> Nat]]
      /\ \A u \in Tasks, e \in Topics :
            <<u, e>> # <<t, d>> => delivered'[u][e] = delivered[u][e]
      /\ \/ delivered'[t][d] = delivered[t][d] + 1
         \/ delivered'[t][d] = delivered[t][d] /\ disturbed
  <2>1. CASE delivered' = [delivered EXCEPT ![t][d] = @ + 1]
    BY <2>1, <1>2, <1>3
  <2>2. CASE delivered' = delivered /\ ~brokerUp
    BY <2>2, <1>2 DEF ClientInv, MemoryInv
  <2> QED BY <1>1, <2>1, <2>2
<1>6. Typed'
  BY <1>1, <1>4, <1>5 DEF ClientInv, Typed
<1>7. MemoryInv'
  BY <1>1 DEF ClientInv, MemoryInv
<1>8. CountInv'
  <2> SUFFICES ASSUME NEW u \in Tasks, NEW e \in Topics
               PROVE  /\ accepted[u][e] <= (Ids + 1) * inputs
                      /\ buffered'[u][e] + delivered'[u][e] <= accepted[u][e]
                      /\ ~disturbed => accepted[u][e] = buffered'[u][e] + delivered'[u][e]
    BY <1>1 DEF CountInv
  <2>1. /\ accepted[u][e] <= (Ids + 1) * inputs
        /\ buffered[u][e] + delivered[u][e] <= accepted[u][e]
        /\ ~disturbed => accepted[u][e] = buffered[u][e] + delivered[u][e]
    BY DEF ClientInv, CountInv
  <2>2. accepted[u][e] \in Nat /\ buffered[u][e] \in Nat /\ delivered[u][e] \in Nat
    BY <1>2
  <2>3. CASE <<u, e>> # <<t, d>>
    BY <2>1, <2>3, <1>4, <1>5
  <2>4. CASE u = t /\ e = d
    <3>1. buffered'[u][e] + delivered'[u][e] <= accepted[u][e]
      BY <2>1, <2>2, <2>4, <1>4, <1>5
    <3>2. ASSUME ~disturbed PROVE accepted[u][e] = buffered'[u][e] + delivered'[u][e]
      <4>1. accepted[u][e] = buffered[u][e] + delivered[u][e]
        BY <3>2, <2>1
      <4>2. delivered'[u][e] = delivered[u][e] + 1 /\ buffered'[u][e] = buffered[u][e] - 1
        BY <3>2, <2>4, <1>4, <1>5
      <4> QED BY <4>1, <4>2, <2>2
    <3> QED BY <2>1, <3>1, <3>2
  <2> QED BY <2>3, <2>4
<1> QED BY <1>6, <1>7, <1>8 DEF ClientInv

\* run(), Docker and the operator.
LEMMA SupervisorKeepsClient ==
    ASSUME ClientInv,
           \/ Wake \/ Gathered \/ Close \/ Start \/ OperatorStop \/ OperatorStart
           \/ BrokerLost \/ BrokerBack \/ \E t \in Tasks : Cancelled(t)
    PROVE  ClientInv'
<1>1. UNCHANGED clientVars /\ inputs' = inputs /\ (disturbed => disturbed')
  <2>1. CASE Wake \/ Gathered \/ Close \/ Start
    BY <2>1 DEF Wake, Gathered, Close, Start
  <2>2. CASE OperatorStop \/ OperatorStart \/ BrokerLost \/ BrokerBack
    BY <2>2 DEF OperatorStop, OperatorStart, BrokerLost, BrokerBack
  <2>3. CASE \E t \in Tasks : Cancelled(t)
    BY <2>3 DEF Cancelled
  <2> QED BY <2>1, <2>2, <2>3
<1>2. task' \in [Tasks -> Waiting \cup Ended]
  <2>1. CASE \E t \in Tasks : Cancelled(t)
    BY <2>1, Becoming DEF Cancelled, Ended, ClientInv
  <2>2. CASE Start
    BY <2>2 DEF Start, FirstAwait, Waiting
  <2>3. CASE \/ Wake \/ Gathered \/ Close \/ OperatorStop \/ OperatorStart
             \/ BrokerLost \/ BrokerBack
    BY <2>3 DEF Wake, Gathered, Close, OperatorStop, OperatorStart, BrokerLost,
                BrokerBack, ClientInv, Typed
  <2> QED BY <2>1, <2>2, <2>3
<1>3. /\ main' \in {"waiting", "gathering", "flushing", "exited"}
      /\ stop' \in BOOLEAN /\ wanted' \in BOOLEAN /\ brokerUp' \in BOOLEAN
      /\ disturbed' \in BOOLEAN
  <2>1. CASE Wake \/ Gathered \/ Close \/ Start
    BY <2>1 DEF Wake, Gathered, Close, Start, ClientInv, Typed
  <2>2. CASE OperatorStop \/ OperatorStart \/ BrokerLost \/ BrokerBack
    BY <2>2 DEF OperatorStop, OperatorStart, BrokerLost, BrokerBack, ClientInv, Typed
  <2>3. CASE \E t \in Tasks : Cancelled(t)
    BY <2>3 DEF Cancelled, ClientInv, Typed
  <2> QED BY <2>1, <2>2, <2>3
<1>4. faults' \in 0 .. MaxFaults
  <2>1. faults' = faults \/ Fault
    BY DEF Wake, Gathered, Close, Start, OperatorStop, OperatorStart, BrokerLost,
           BrokerBack, Cancelled
  <2> QED BY <2>1, BoundsAssumption DEF Fault, ClientInv, Typed
<1>5. Typed'
  BY <1>1, <1>2, <1>3, <1>4 DEF ClientInv, Typed, clientVars
<1>6. MemoryInv'
  <2>1. ~brokerUp' => disturbed'
    <3>1. CASE BrokerLost
      BY <3>1 DEF BrokerLost
    <3>2. CASE BrokerBack
      BY <3>2 DEF BrokerBack
    <3>3. CASE brokerUp' = brokerUp
      BY <3>3, <1>1 DEF ClientInv, MemoryInv
    <3> QED BY <3>1, <3>2, <3>3 DEF Wake, Gathered, Close, Start, OperatorStop,
                                    OperatorStart, Cancelled
  <2>2. main' = "exited" => buffered' = None
    <3>1. buffered' = buffered
      BY <1>1 DEF clientVars
    <3>2. main' = "exited" => main = "exited" \/ buffered = None
      BY DEF Wake, Gathered, Close, Start, OperatorStop, OperatorStart, BrokerLost,
             BrokerBack, Cancelled
    <3> QED BY <3>1, <3>2 DEF ClientInv, MemoryInv
  <2> QED BY <2>1, <2>2 DEF MemoryInv
<1> QED BY <1>1, <1>5, <1>6, Idle

LEMMA KillKeepsClient == ClientInv /\ Kill => ClientInv'
<1> SUFFICES ASSUME ClientInv, Kill PROVE ClientInv'
  OBVIOUS
<1>1. None \in [Tasks -> [Topics -> Nat]] /\ \A t \in Tasks, d \in Topics : None[t][d] = 0
  BY DEF None
<1>2. /\ main' = "exited" /\ disturbed' = TRUE /\ buffered' = None
      /\ task' = [t \in Tasks |-> "cancelled"]
      /\ accepted' = accepted /\ delivered' = delivered /\ inputs' = inputs
      /\ stop' = stop /\ wanted' = wanted /\ brokerUp' = brokerUp
      /\ faults' \in 0 .. MaxFaults
  BY BoundsAssumption DEF Kill, Fault, ClientInv, Typed
<1>3. Typed'
  BY <1>1, <1>2 DEF ClientInv, Typed, Ended
<1>4. MemoryInv'
  BY <1>2 DEF MemoryInv, None
<1>5. CountInv'
  <2> SUFFICES ASSUME NEW u \in Tasks, NEW d \in Topics
               PROVE  /\ accepted[u][d] <= (Ids + 1) * inputs
                      /\ buffered'[u][d] + delivered[u][d] <= accepted[u][d]
    BY <1>2 DEF CountInv
  <2>1. /\ accepted[u][d] <= (Ids + 1) * inputs
        /\ buffered[u][d] + delivered[u][d] <= accepted[u][d]
        /\ accepted[u][d] \in Nat /\ buffered[u][d] \in Nat /\ delivered[u][d] \in Nat
    BY DEF ClientInv, CountInv, Typed
  <2> QED BY <2>1, <1>1, <1>2
<1> QED BY <1>3, <1>4, <1>5 DEF ClientInv

-----------------------------------------------------------------------------
(***************************************************************************)
(* The backoff                                                             *)
(***************************************************************************)

LEMMA MinOfTwo ==
    ASSUME NEW a \in Nat, NEW b \in Nat
    PROVE  Min({a, b}) = IF a <= b THEN a ELSE b
<1>1. {a, b} \in SUBSET Nat /\ {a, b} # {}
  OBVIOUS
<1>2. Min({a, b}) \in {a, b} /\ \A x \in {a, b} : Min({a, b}) <= x
  BY <1>1, MinIsLeast
<1> QED BY <1>2

\* The wait after n retries.
LEMMA WaitAfter ==
    \A n \in 0 .. MaxRetries :
        Min({Cap, Doubled[n]}) = IF Cap <= Doubled[n] THEN Cap ELSE Doubled[n]
BY MinOfTwo, DoubledFacts, BackoffAssumption

LEMMA FirstWait == Min({Cap, Doubled[0]}) = Base
BY WaitAfter, DoubledFacts, BackoffAssumption, RetriesAssumption

LEMMA StreamInit == Init => StreamInv
<1> SUFFICES ASSUME Init PROVE StreamInv
  OBVIOUS
<1>1. /\ backoff = [t \in Streams |-> Base]
      /\ retries = [t \in Streams |-> 0]
      /\ malformed = [t \in Streams |-> 0]
      /\ inputs = 0
  BY DEF Init
<1>2. BackoffFollowsRetries
  BY <1>1, FirstWait DEF BackoffFollowsRetries
<1> QED BY <1>1, <1>2, BackoffAssumption, RetriesAssumption, BoundsAssumption DEF StreamInv

\* Nothing about the streams' attempts changes.
LEMMA StreamsRest ==
    ASSUME StreamInv, backoff' = backoff, retries' = retries, malformed' = malformed,
           inputs' \in {inputs, inputs + 1}, inputs' \in 0 .. MaxInputs
    PROVE  StreamInv'
<1>1. BackoffFollowsRetries'
  BY DEF StreamInv, BackoffFollowsRetries
<1>2. \A t \in Streams : malformed'[t] <= inputs'
  <2>1. inputs \in Nat /\ \A t \in Streams : malformed[t] \in Nat /\ malformed[t] <= inputs
    BY BoundsAssumption DEF StreamInv
  <2> QED BY <2>1
<1> QED BY <1>1, <1>2 DEF StreamInv

LEMMA ConnectKeepsStreams ==
    ASSUME StreamInv, NEW t \in Streams, Connect(t)
    PROVE  StreamInv'
<1>1. /\ backoff' = [backoff EXCEPT ![t] = Base]
      /\ retries' = [retries EXCEPT ![t] = 0]
      /\ malformed' = malformed /\ inputs' = inputs
  BY DEF Connect
<1>2. BackoffFollowsRetries'
  BY <1>1, FirstWait DEF StreamInv, BackoffFollowsRetries
<1> QED BY <1>1, <1>2, BackoffAssumption, RetriesAssumption DEF StreamInv

\* Doubling and the cap commute: what has reached the cap stays there.
LEMMA ReconnectKeepsStreams ==
    ASSUME StreamInv, NEW t \in Streams, Reconnect(t)
    PROVE  StreamInv'
<1> DEFINE b == backoff[t]
           n == retries[t]
           b2 == IF 2 * b <= Cap THEN 2 * b ELSE Cap
           n2 == IF n < MaxRetries THEN n + 1 ELSE n
<1>1. /\ backoff' = [backoff EXCEPT ![t] = b2]
      /\ retries' = [retries EXCEPT ![t] = n2]
      /\ malformed' = malformed /\ inputs' = inputs
  BY DEF Reconnect
<1>2. b \in Nat /\ n \in 0 .. MaxRetries /\ MaxRetries \in Nat /\ Cap \in Nat
  BY BackoffAssumption, RetriesAssumption DEF StreamInv
<1>3. b2 \in Nat /\ n2 \in 0 .. MaxRetries
  BY <1>2
<1>4. b = IF Cap <= Doubled[n] THEN Cap ELSE Doubled[n]
  BY <1>2, WaitAfter DEF StreamInv, BackoffFollowsRetries
<1>5. b2 = Min({Cap, Doubled[n2]})
  <2>1. Doubled[n] \in Nat /\ Doubled[n2] \in Nat
    BY <1>2, <1>3, DoubledFacts
  <2>2. CASE n < MaxRetries
    <3>1. Doubled[n2] = 2 * Doubled[n]
      BY <1>2, <2>2, DoubledFacts
    <3>2. Min({Cap, Doubled[n2]}) = IF Cap <= Doubled[n2] THEN Cap ELSE Doubled[n2]
      BY <1>3, WaitAfter
    <3> HIDE DEF n, b
    <3> QED BY <3>1, <3>2, <2>1, <1>2, <1>4
  <2>3. CASE ~(n < MaxRetries)
    <3>1. n = MaxRetries /\ n2 = n
      BY <1>2, <2>3
    <3>2. Cap <= Doubled[n] /\ b = Cap
      BY <3>1, <1>2, <1>4, <2>1, RetriesAssumption
    <3>3. b2 = Cap
      BY <3>2, <1>2
    <3> QED BY <3>1, <3>2, <3>3, <1>2, WaitAfter
  <2> QED BY <2>2, <2>3
<1> HIDE DEF b2, n2
<1>6. BackoffFollowsRetries'
  BY <1>1, <1>5 DEF StreamInv, BackoffFollowsRetries
<1> QED BY <1>1, <1>3, <1>6 DEF StreamInv

LEMMA MessageKeepsStreams ==
    ASSUME StreamInv, NEW t \in Streams, Message(t)
    PROVE  StreamInv'
<1>1. /\ backoff' = backoff /\ retries' = retries
      /\ inputs < MaxInputs /\ inputs' = inputs + 1
      /\ malformed' \in {malformed, [malformed EXCEPT ![t] = @ + 1]}
  <2>1. PICK outcome : malformed' = [malformed EXCEPT ![t] =
                IF outcome \in {"malformed", "escapes"} THEN @ + 1 ELSE @]
    BY DEF Message
  <2>2. malformed \in [Streams -> Nat]
    BY DEF StreamInv
  <2>3. CASE outcome \in {"malformed", "escapes"}
    <3>1. malformed' = [malformed EXCEPT ![t] = @ + 1]
      BY <2>1, <2>3
    <3> QED BY <3>1 DEF Message
  <2>4. CASE outcome \notin {"malformed", "escapes"}
    <3>1. malformed' = malformed
      BY <2>1, <2>2, <2>4
    <3> QED BY <3>1 DEF Message
  <2> QED BY <2>3, <2>4
<1>2. /\ malformed \in [Streams -> Nat] /\ inputs \in Nat
      /\ inputs' \in 0 .. MaxInputs
      /\ \A u \in Streams : malformed[u] <= inputs
  BY <1>1, BoundsAssumption DEF StreamInv
<1>3. malformed' \in [Streams -> Nat] /\ \A u \in Streams : malformed'[u] <= inputs'
  BY <1>1, <1>2
<1>4. BackoffFollowsRetries'
  BY <1>1 DEF StreamInv, BackoffFollowsRetries
<1> QED BY <1>1, <1>2, <1>3, <1>4 DEF StreamInv

LEMMA StartKeepsStreams == StreamInv /\ Start => StreamInv'
<1> SUFFICES ASSUME StreamInv, Start PROVE StreamInv'
  OBVIOUS
<1>1. /\ backoff' = [t \in Streams |-> Base]
      /\ retries' = [t \in Streams |-> 0]
      /\ malformed' = malformed /\ inputs' = inputs
  BY DEF Start
<1>2. BackoffFollowsRetries'
  BY <1>1, FirstWait DEF BackoffFollowsRetries
<1> QED BY <1>1, <1>2, BackoffAssumption, RetriesAssumption DEF StreamInv

-----------------------------------------------------------------------------
(***************************************************************************)
(* Theorems                                                                *)
(***************************************************************************)

\* Every step keeps what is said of the records, the process and the backoff.
LEMMA ProducerStep == ClientInv /\ StreamInv /\ [Next]_vars => ClientInv' /\ StreamInv'
<1> SUFFICES ASSUME ClientInv, StreamInv, [Next]_vars PROVE ClientInv' /\ StreamInv'
  OBVIOUS
<1>0. inputs \in 0 .. MaxInputs
  BY DEF StreamInv
<1>1. ASSUME NEW t \in Streams, Connect(t)
      PROVE  ClientInv' /\ StreamInv'
  BY <1>1, StreamsKeepClient, ConnectKeepsStreams
<1>2. ASSUME NEW t \in Streams, Disconnect(t) \/ CleanClose(t)
      PROVE  ClientInv' /\ StreamInv'
  <2>1. /\ backoff' = backoff /\ retries' = retries /\ malformed' = malformed
        /\ inputs' = inputs
    BY <1>2 DEF Disconnect, CleanClose
  <2> QED BY <2>1, <1>0, <1>2, StreamsKeepClient, StreamsRest
<1>3. ASSUME NEW t \in Streams, Reconnect(t)
      PROVE  ClientInv' /\ StreamInv'
  BY <1>3, StreamsKeepClient, ReconnectKeepsStreams
<1>4. ASSUME NEW t \in Streams, Message(t)
      PROVE  ClientInv' /\ StreamInv'
  BY <1>4, MessageKeepsClient, MessageKeepsStreams
<1>5. CASE Subscribe
  <2>1. /\ backoff' = backoff /\ retries' = retries /\ malformed' = malformed
        /\ inputs' = inputs
    BY <1>5 DEF Subscribe
  <2> QED BY <2>1, <1>0, <1>5, SubscribeKeepsClient, StreamsRest
<1>6. ASSUME NEW t \in Pollers, Poll(t)
      PROVE  ClientInv' /\ StreamInv'
  <2>1. /\ backoff' = backoff /\ retries' = retries /\ malformed' = malformed
        /\ inputs' = inputs + 1 /\ inputs < MaxInputs
    BY <1>6 DEF Poll
  <2>2. inputs' \in 0 .. MaxInputs
    BY <2>1, <1>0, BoundsAssumption
  <2> QED BY <2>1, <2>2, <1>6, PollKeepsClient, StreamsRest
<1>7. ASSUME NEW t \in Pollers, PollAgain(t)
      PROVE  ClientInv' /\ StreamInv'
  <2>1. /\ backoff' = backoff /\ retries' = retries /\ malformed' = malformed
        /\ inputs' = inputs
    BY <1>7 DEF PollAgain
  <2> QED BY <2>1, <1>0, <1>7, PollAgainKeepsClient, StreamsRest
<1>8. ASSUME NEW t \in Tasks, NEW d \in Topics, Deliver(t, d) \/ Expire(t, d)
      PROVE  ClientInv' /\ StreamInv'
  <2>1. /\ backoff' = backoff /\ retries' = retries /\ malformed' = malformed
        /\ inputs' = inputs
    BY <1>8 DEF Deliver, Expire
  <2> QED BY <2>1, <1>0, <1>8, SenderKeepsClient, StreamsRest
<1>9. CASE \/ Wake \/ Gathered \/ Close \/ OperatorStop \/ OperatorStart
           \/ BrokerLost \/ BrokerBack \/ \E t \in Tasks : Cancelled(t)
  <2>1. /\ backoff' = backoff /\ retries' = retries /\ malformed' = malformed
        /\ inputs' = inputs
    BY <1>9 DEF Wake, Gathered, Close, OperatorStop, OperatorStart, BrokerLost,
                BrokerBack, Cancelled
  <2> QED BY <2>1, <1>0, <1>9, SupervisorKeepsClient, StreamsRest
<1>10. CASE Start
  BY <1>10, SupervisorKeepsClient, StartKeepsStreams
<1>11. CASE Kill
  <2>1. /\ backoff' = backoff /\ retries' = retries /\ malformed' = malformed
        /\ inputs' = inputs
    BY <1>11 DEF Kill
  <2> QED BY <2>1, <1>0, <1>11, KillKeepsClient, StreamsRest
<1>12. CASE UNCHANGED vars
  <2>1. /\ UNCHANGED clientVars
        /\ main' = main /\ stop' = stop /\ wanted' = wanted /\ task' = task
        /\ brokerUp' = brokerUp /\ disturbed' = disturbed /\ faults' = faults
        /\ backoff' = backoff /\ retries' = retries /\ malformed' = malformed
        /\ inputs' = inputs
    BY <1>12 DEF vars
  <2>2. Typed' /\ MemoryInv'
    BY <2>1 DEF ClientInv, Typed, MemoryInv, clientVars
  <2>3. ClientInv'
    BY <2>1, <2>2, Idle
  <2> QED BY <2>1, <2>3, <1>0, StreamsRest
<1> QED BY <1>1, <1>2, <1>3, <1>4, <1>5, <1>6, <1>7, <1>8, <1>9, <1>10, <1>11, <1>12
        DEF Next

(***************************************************************************)
(* The inductive invariant of the process.  An outage is remembered until  *)
(* the end, the memory of a process that has ended is empty, and no record *)
(* is in two places (main.py:31-45, redpanda.py:18-26).                    *)
(***************************************************************************)
THEOREM ProducerInvariant == Spec => [](ClientInv /\ StreamInv)
BY ClientInit, StreamInit, ProducerStep, PTL DEF Spec

(***************************************************************************)
(* Types, and how many records the tasks can have sent: one for each coin  *)
(* of a poll and one to the DLQ per input.                                 *)
(***************************************************************************)
THEOREM TypeCorrect == Spec => []TypeOK
<1>1. ClientInv /\ StreamInv => TypeOK
  <2> SUFFICES ASSUME ClientInv, StreamInv PROVE TypeOK
    OBVIOUS
  <2>1. inputs \in Nat /\ inputs <= MaxInputs /\ MaxInputs \in Nat /\ Ids \in Nat
    BY BoundsAssumption, IdsAssumption DEF StreamInv
  <2> DEFINE most == (Ids + 1) * MaxInputs
  <2>2. most \in Nat /\ (Ids + 1) * inputs \in Nat /\ (Ids + 1) * inputs <= most
    <3>1. PICK k \in Nat : MaxInputs = inputs + k
      <4>1. MaxInputs - inputs \in Nat /\ MaxInputs = inputs + (MaxInputs - inputs)
        BY <2>1
      <4> QED BY <4>1
    <3>2. most = (Ids + 1) * inputs + (Ids + 1) * k
      BY <2>1, <3>1
    <3>3. (Ids + 1) * k \in Nat /\ (Ids + 1) * inputs \in Nat
      BY <2>1, <3>1
    <3> QED BY <3>2, <3>3
  <2>3. ASSUME NEW t \in Tasks, NEW d \in Topics
        PROVE  /\ accepted[t][d] \in 0 .. most
               /\ buffered[t][d] \in 0 .. most
               /\ delivered[t][d] \in 0 .. most
    <3>1. /\ accepted[t][d] \in Nat /\ buffered[t][d] \in Nat /\ delivered[t][d] \in Nat
          /\ accepted[t][d] <= (Ids + 1) * inputs
          /\ buffered[t][d] + delivered[t][d] <= accepted[t][d]
      BY DEF ClientInv, Typed, CountInv
    <3> DEFINE bound == (Ids + 1) * inputs
    <3>2. bound \in Nat /\ bound <= most /\ accepted[t][d] <= bound
      BY <2>2, <3>1
    <3> HIDE DEF bound, most
    <3> QED BY <2>2, <3>1, <3>2
  <2>4. accepted \in Counts /\ buffered \in Counts /\ delivered \in Counts
    <3> HIDE DEF most
    <3>1. \A c \in [Tasks -> [Topics -> Nat]] :
             (\A t \in Tasks, d \in Topics : c[t][d] \in 0 .. most)
                => c \in [Tasks -> [Topics -> 0 .. most]]
      OBVIOUS
    <3>2. /\ accepted \in [Tasks -> [Topics -> 0 .. most]]
          /\ buffered \in [Tasks -> [Topics -> 0 .. most]]
          /\ delivered \in [Tasks -> [Topics -> 0 .. most]]
      BY <2>3, <3>1 DEF ClientInv, Typed
    <3> QED BY <3>2 DEF Counts, most
  <2>5. malformed \in [Streams -> 0 .. MaxInputs]
    BY <2>1 DEF StreamInv
  <2> QED BY <2>4, <2>5 DEF TypeOK, ClientInv, Typed, StreamInv
<1> QED BY <1>1, ProducerInvariant, PTL

(***************************************************************************)
(* Without an outage or a kill nothing that send() took is lost, although  *)
(* no send is awaited: however tasks fail, are cancelled, stopped and      *)
(* started again (main.py:31-45).                                          *)
(***************************************************************************)
THEOREM NothingIsLost == Spec => []NoLossUndisturbed
<1>1. ClientInv => NoLossUndisturbed
  BY DEF ClientInv, CountInv, NoLossUndisturbed
<1> QED BY <1>1, ProducerInvariant, PTL

(***************************************************************************)
(* A stream's wait is the base doubled for every retry, up to the cap, in  *)
(* every order of drops, retries, connections and restarts                 *)
(* (binance_trades.py:43-49, 77-80).                                       *)
(***************************************************************************)
THEOREM BackoffIsExponential == Spec => []BackoffFollowsRetries
<1>1. StreamInv => BackoffFollowsRetries
  BY DEF StreamInv
<1> QED BY <1>1, ProducerInvariant, PTL

=============================================================================
