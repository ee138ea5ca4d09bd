----------------------------- MODULE Producers -----------------------------
(***************************************************************************)
(* The producer process of src/producers: one asyncio loop that runs two   *)
(* websocket tasks and up to two REST pollers over a shared RedpandaSink,  *)
(* supervised by main.run() and, outside the process, by Docker's          *)
(* `restart: unless-stopped`.                                              *)
(*                                                                         *)
(* A task's code between two awaits is one action: nothing else runs on    *)
(* the loop meanwhile.  The Kafka client's sender thread does run          *)
(* meanwhile; sends are never awaited or checked, so records sit in the    *)
(* client's buffer until that thread delivers or drops them.               *)
(***************************************************************************)
EXTENDS Naturals, FiniteSets, FiniteSetsExt

CONSTANTS
    Binance, Kraken,   \* the two websocket tasks
    CoinGecko, CryptoCompare,  \* the two REST tasks
    Pollers,           \* the REST tasks that are enabled
    Ids,               \* number of coins (symbols) one poll asks for
    Base, Cap,         \* RECONNECT_BASE_SECONDS, RECONNECT_MAX_SECONDS
    MaxInputs,         \* bound on websocket messages and polls together
    MaxRetries,        \* bound on the retries counted
    MaxFaults          \* bound on outages, kills, stops and starts together

ASSUME PollersAssumption == Pollers \subseteq {CoinGecko, CryptoCompare}
ASSUME IdsAssumption == Ids \in Nat \ {0}
ASSUME BackoffAssumption == Base \in Nat \ {0} /\ Cap \in Nat /\ Base <= Cap
ASSUME BoundsAssumption == MaxInputs \in Nat /\ MaxFaults \in Nat

\* The base, doubled once for every retry.
Doubled[n \in 0 .. MaxRetries] == IF n = 0 THEN Base ELSE 2 * Doubled[n - 1]

\* Enough retries are counted to reach the cap.
ASSUME RetriesAssumption == MaxRetries \in Nat /\ Doubled[MaxRetries] >= Cap

Streams == {Binance, Kraken}
Tasks == Streams \cup Pollers
Topics == {"raw", "dlq"}

Waiting == {"connecting", "subscribing", "streaming", "polling", "sleeping"}
Ended == {"failed", "cancelled"}

VARIABLES
    main,       \* run(): "waiting", "gathering", "flushing"; or "exited"
    stop,       \* the asyncio.Event SIGTERM sets
    wanted,     \* has the operator left the container running?
    task,       \* [Tasks -> Waiting \cup Ended]: the await a task is at
    backoff,    \* [Streams -> Nat]: the local variable of each stream task
    retries,    \* [Streams -> Nat]: failures since the last connection
    brokerUp,   \* is Redpanda reachable?
    accepted,   \* [Tasks -> [Topics -> Nat]]: records send() took
    buffered,   \* [Tasks -> [Topics -> Nat]]: of these, in the client's memory
    delivered,  \* [Tasks -> [Topics -> Nat]]: of these, in the broker
    malformed,  \* [Streams -> Nat]: messages no event could be built from
    inputs,     \* messages and polls handled so far
    disturbed,  \* has there been an outage or a kill?
    faults      \* outages, kills, stops and starts so far

clientVars == <<accepted, buffered, delivered>>
vars == <<main, stop, wanted, task, backoff, retries, brokerUp, clientVars,
          malformed, inputs, disturbed, faults>>

None == [t \in Tasks |-> [d \in Topics |-> 0]]
FirstAwait == [t \in Tasks |-> IF t \in Streams THEN "connecting" ELSE "polling"]

Init == /\ main = "waiting"
        /\ stop = FALSE
        /\ wanted = TRUE
        /\ task = FirstAwait
        /\ backoff = [t \in Streams |-> Base]
        /\ retries = [t \in Streams |-> 0]
        /\ brokerUp = TRUE
        /\ accepted = None
        /\ buffered = None
        /\ delivered = None
        /\ malformed = [t \in Streams |-> 0]
        /\ inputs = 0
        /\ disturbed = FALSE
        /\ faults = 0

-----------------------------------------------------------------------------
(***************************************************************************)
(* What becomes of an input.  "valid" builds an event; "malformed" raises  *)
(* an exception the handler's except clause names; "escapes" raises one it *)
(* does not name: decimal.InvalidOperation (an ArithmeticError, no         *)
(* ValueError), AttributeError, and for Kraken KeyError.                   *)
(***************************************************************************)

\* A number field as the exchange may send it.  NaN passes Decimal() and is
\* then refused by pydantic; a word makes Decimal() raise InvalidOperation.
Numbers == {"number", "nan", "word", "null"}

NumberOutcome(v) == CASE v = "number" -> "valid"
                      [] v \in {"nan", "null"} -> "malformed"
                      [] v = "word" -> "escapes"

\* head stands for t and E, tail for m: the fields parsed before and after
\* the price.  A NaN is noticed only when every field has been parsed.
TradeMessages == [json : {"text", "array", "object"}, head : BOOLEAN,
                  price : Numbers, tail : BOOLEAN]

TradeOutcome(m) == CASE m.json = "text" -> "malformed"
                     [] m.json = "array" -> "escapes"
                     [] ~m.head -> "malformed"
                     [] m.price = "word" -> "escapes"
                     [] ~m.tail -> "malformed"
                     [] OTHER -> NumberOutcome(m.price)

\* level: what the first bad price level of a book update looks like, if any.
BookMessages == [json : {"text", "object", "short", "array"},
                 level : {"none", "mapping", "short"} \cup Numbers]

BookOutcome(m) == CASE m.json = "text" -> "malformed"
                    [] m.json \in {"object", "short"} -> "ignored"
                    [] m.level = "none" -> "valid"
                    [] m.level = "mapping" -> "escapes"
                    [] m.level = "short" -> "malformed"
                    [] OTHER -> NumberOutcome(m.level)

Messages(t) == IF t = Binance THEN TradeMessages ELSE BookMessages
Outcome(t, m) == IF t = Binance THEN TradeOutcome(m) ELSE BookOutcome(m)

\* A poll's response: a transport or HTTP error, a list, or an object with a
\* price for each id ("null" also stands for a missing one).
Responses == {[body |-> b, usd |-> <<>>] : b \in {"error", "array"}}
             \cup [body : {"object"}, usd : [1 .. Ids -> Numbers]]

\* The ids before the first bad one have been published when it is reached.
Published(r) ==
    IF r.body # "object" THEN 0
    ELSE Min({Ids} \cup {i - 1 : i \in {i \in 1 .. Ids : r.usd[i] # "number"}})

\* CryptoCompare with one symbol calls raw.get() on whatever it was sent.
PollOutcome(t, r) ==
    CASE r.body = "error" -> "malformed"
      [] r.body = "array" -> IF t = CryptoCompare /\ Ids = 1 THEN "escapes"
                                                             ELSE "malformed"
      [] Published(r) = Ids -> "valid"
      [] OTHER -> NumberOutcome(r.usd[Published(r) + 1])

-----------------------------------------------------------------------------
\* A task runs only until run() has cancelled it.
Runs(t, await) == main = "waiting" /\ task[t] = await

Becomes(t, await) == task' = [task EXCEPT ![t] = await]

\* sink.send(): the client takes n records for topic d and m for the DLQ.
Send(t, n, m) ==
    /\ accepted' = [accepted EXCEPT ![t]["raw"] = @ + n, ![t]["dlq"] = @ + m]
    /\ buffered' = [buffered EXCEPT ![t]["raw"] = @ + n, ![t]["dlq"] = @ + m]
    /\ UNCHANGED delivered

\* sink.send() blocks the loop and then raises KafkaTimeoutError only when
\* the broker is gone (no metadata, or the client's memory is full); while it
\* is gone, send() may still find room in the client's memory.
SendRaises == ~brokerUp /\ UNCHANGED clientVars

\* Mutation: a connection does not reset the backoff.
ConnectKeepsBackoff(t) ==
    /\ Runs(t, "connecting")
    /\ retries' = [retries EXCEPT ![t] = 0]
    /\ Becomes(t, IF t = Kraken THEN "subscribing" ELSE "streaming")
    /\ UNCHANGED <<main, stop, wanted, backoff, brokerUp, clientVars,
                   malformed, inputs, disturbed, faults>>

\* websockets.connect() succeeds; Kraken still has to send its subscription.
Connect(t) ==
    /\ Runs(t, "connecting")
    /\ backoff' = [backoff EXCEPT ![t] = Base]
    /\ retries' = [retries EXCEPT ![t] = 0]
    /\ Becomes(t, IF t = Kraken THEN "subscribing" ELSE "streaming")
    /\ UNCHANGED <<main, stop, wanted, brokerUp, clientVars, malformed, inputs,
                   disturbed, faults>>

Subscribe ==
    /\ Runs(Kraken, "subscribing")
    /\ Becomes(Kraken, "streaming")
    /\ UNCHANGED <<main, stop, wanted, backoff, retries, brokerUp, clientVars,
                   malformed, inputs, disturbed, faults>>

\* The connection cannot be made, or it breaks: the outer except sleeps.
Disconnect(t) ==
    /\ \/ Runs(t, "connecting") \/ Runs(t, "subscribing") \/ Runs(t, "streaming")
    /\ Becomes(t, "sleeping")
    /\ UNCHANGED <<main, stop, wanted, backoff, retries, brokerUp, clientVars,
                   malformed, inputs, disturbed, faults>>

\* The server closes with code 1000 or 1001: `async for` just ends, and the
\* while loop connects again at once.
CleanClose(t) ==
    /\ Runs(t, "streaming")
    /\ Becomes(t, "connecting")
    /\ UNCHANGED <<main, stop, wanted, backoff, retries, brokerUp, clientVars,
                   malformed, inputs, disturbed, faults>>

\* The sleep ends; only now is the backoff doubled.
Reconnect(t) ==
    /\ t \in Streams
    /\ Runs(t, "sleeping")
    /\ Becomes(t, "connecting")
    /\ backoff' = [backoff EXCEPT ![t] = IF 2 * @ <= Cap THEN 2 * @ ELSE Cap]
    /\ retries' = [retries EXCEPT ![t] = IF @ < MaxRetries THEN @ + 1 ELSE @]
    /\ UNCHANGED <<main, stop, wanted, brokerUp, clientVars, malformed, inputs,
                   disturbed, faults>>

\* One message of a stream.  An exception that is not named, or one raised by
\* send() itself, ends the connection; the message is then gone.
Message(t) ==
    /\ Runs(t, "streaming")
    /\ inputs < MaxInputs
    /\ inputs' = inputs + 1
    /\ \E outcome \in {Outcome(t, m) : m \in Messages(t)} :
          /\ malformed' = [malformed EXCEPT ![t] =
                             IF outcome \in {"malformed", "escapes"} THEN @ + 1 ELSE @]
          /\ \/ outcome = "ignored" /\ UNCHANGED <<task, clientVars>>
             \/ outcome = "valid" /\ Send(t, 1, 0) /\ UNCHANGED task
             \/ outcome = "malformed" /\ Send(t, 0, 1) /\ UNCHANGED task
             \/ /\ outcome = "escapes"
                /\ Becomes(t, "sleeping")
                /\ UNCHANGED clientVars
             \/ /\ outcome \in {"valid", "malformed"}
                /\ SendRaises
                /\ Becomes(t, "sleeping")
    /\ UNCHANGED <<main, stop, wanted, backoff, retries, brokerUp, disturbed,
                   faults>>

\* One poll.  The quotes before a bad id are already sent when the poll is
\* reported to the DLQ; an exception that is not named ends the task.
Poll(t) ==
    /\ Runs(t, "polling")
    /\ inputs < MaxInputs
    /\ inputs' = inputs + 1
    /\ \E r \in {<<Published(p), PollOutcome(t, p)>> : p \in Responses} :
          \/ r[2] = "valid" /\ Send(t, r[1], 0) /\ Becomes(t, "sleeping")
          \/ r[2] = "malformed" /\ Send(t, r[1], 1) /\ Becomes(t, "sleeping")
          \/ r[2] = "escapes" /\ Send(t, r[1], 0) /\ Becomes(t, "failed")
          \/ /\ ~brokerUp
             /\ \E sent \in 0 .. r[1] : Send(t, sent, 0)
             /\ Becomes(t, "failed")
    /\ UNCHANGED <<main, stop, wanted, backoff, retries, brokerUp, malformed,
                   disturbed, faults>>

PollAgain(t) ==
    /\ t \in Pollers
    /\ Runs(t, "sleeping")
    /\ Becomes(t, "polling")
    /\ UNCHANGED <<main, stop, wanted, backoff, retries, brokerUp, clientVars,
                   malformed, inputs, disturbed, faults>>

-----------------------------------------------------------------------------
\* Mutation: a record is delivered again after its acknowledgement.
DeliverAgain(t, d) ==
    /\ main # "exited" /\ brokerUp
    /\ buffered[t][d] > 0 \/ delivered[t][d] > 0
    /\ buffered' = [buffered EXCEPT ![t][d] = @ - 1]
    /\ delivered' = [delivered EXCEPT ![t][d] = @ + 1]
    /\ UNCHANGED <<main, stop, wanted, task, backoff, retries, brokerUp,
                   accepted, malformed, inputs, disturbed, faults>>

\* The client's sender thread: one record reaches the broker...
Deliver(t, d) ==
    /\ main # "exited" /\ brokerUp
    /\ buffered[t][d] > 0
    /\ buffered' = [buffered EXCEPT ![t][d] = @ - 1]
    /\ delivered' = [delivered EXCEPT ![t][d] = @ + 1]
    /\ UNCHANGED <<main, stop, wanted, task, backoff, retries, brokerUp,
                   accepted, malformed, inputs, disturbed, faults>>

\* ... or its batch expires: the client does not retry, and nobody looks at
\* the future that send() returned.
Expire(t, d) ==
    /\ main # "exited" /\ ~brokerUp
    /\ buffered[t][d] > 0
    /\ buffered' = [buffered EXCEPT ![t][d] = @ - 1]
    /\ UNCHANGED <<main, stop, wanted, task, backoff, retries, brokerUp,
                   accepted, delivered, malformed, inputs, disturbed, faults>>

\* Mutation: asyncio.wait(ALL_COMPLETED).
WakeWhenAllEnd ==
    /\ main = "waiting"
    /\ stop \/ \A t \in Tasks : task[t] \in Ended
    /\ main' = "gathering"
    /\ stop' = TRUE
    /\ UNCHANGED <<wanted, task, backoff, retries, brokerUp, clientVars,
                   malformed, inputs, disturbed, faults>>

\* run() returns from asyncio.wait(FIRST_COMPLETED) and cancels every task.
Wake ==
    /\ main = "waiting"
    /\ stop \/ \E t \in Tasks : task[t] \in Ended
    /\ main' = "gathering"
    /\ stop' = TRUE
    /\ UNCHANGED <<wanted, task, backoff, retries, brokerUp, clientVars,
                   malformed, inputs, disturbed, faults>>

\* Mutation: a handler that catches BaseException goes on to its sleep.
CancelSwallowed(t) ==
    /\ main = "gathering"
    /\ task[t] \in Waiting
    /\ Becomes(t, "sleeping")
    /\ UNCHANGED <<main, stop, wanted, backoff, retries, brokerUp, clientVars,
                   malformed, inputs, disturbed, faults>>

\* CancelledError is no Exception: no handler of a task swallows it.
Cancelled(t) ==
    /\ main = "gathering"
    /\ task[t] \in Waiting
    /\ Becomes(t, "cancelled")
    /\ UNCHANGED <<main, stop, wanted, backoff, retries, brokerUp, clientVars,
                   malformed, inputs, disturbed, faults>>

Gathered ==
    /\ main = "gathering"
    /\ \A t \in Tasks : task[t] \in Ended
    /\ main' = "flushing"
    /\ UNCHANGED <<stop, wanted, task, backoff, retries, brokerUp, clientVars,
                   malformed, inputs, disturbed, faults>>

\* Mutation: run() returns without flushing the sink.
CloseWithoutFlush ==
    /\ main = "flushing"
    /\ main' = "exited"
    /\ buffered' = None
    /\ UNCHANGED <<stop, wanted, task, backoff, retries, brokerUp, accepted,
                   delivered, malformed, inputs, disturbed, faults>>

\* sink.flush() and sink.close() return when the client's memory is empty.
Close ==
    /\ main = "flushing"
    /\ buffered = None
    /\ main' = "exited"
    /\ UNCHANGED <<stop, wanted, task, backoff, retries, brokerUp, clientVars,
                   malformed, inputs, disturbed, faults>>

\* Docker starts the container again, whatever its exit code, unless it was
\* stopped on purpose; KafkaProducer() needs a broker to come up.
Start ==
    /\ main = "exited" /\ wanted /\ brokerUp
    /\ main' = "waiting"
    /\ stop' = FALSE
    /\ task' = FirstAwait
    /\ backoff' = [t \in Streams |-> Base]
    /\ retries' = [t \in Streams |-> 0]
    /\ UNCHANGED <<wanted, brokerUp, clientVars, malformed, inputs, disturbed,
                   faults>>

-----------------------------------------------------------------------------
Fault == faults < MaxFaults /\ faults' = faults + 1

\* docker compose stop: SIGTERM, and no restart.
OperatorStop ==
    /\ Fault
    /\ wanted /\ main # "exited"
    /\ wanted' = FALSE
    /\ stop' = TRUE
    /\ UNCHANGED <<main, task, backoff, retries, brokerUp, clientVars,
                   malformed, inputs, disturbed>>

\* docker compose start.
OperatorStart ==
    /\ Fault
    /\ ~wanted /\ main = "exited"
    /\ wanted' = TRUE
    /\ UNCHANGED <<main, stop, task, backoff, retries, brokerUp, clientVars,
                   malformed, inputs, disturbed>>

\* SIGKILL (the stop grace period ends, the kernel runs out of memory): the
\* client's memory is gone.
Kill ==
    /\ Fault
    /\ main # "exited"
    /\ main' = "exited"
    /\ disturbed' = TRUE
    /\ task' = [t \in Tasks |-> "cancelled"]
    /\ buffered' = None
    /\ UNCHANGED <<stop, wanted, backoff, retries, brokerUp, accepted,
                   delivered, malformed, inputs>>

BrokerLost ==
    /\ Fault
    /\ brokerUp
    /\ brokerUp' = FALSE
    /\ disturbed' = TRUE
    /\ UNCHANGED <<main, stop, wanted, task, backoff, retries, clientVars,
                   malformed, inputs>>

BrokerBack ==
    /\ ~brokerUp
    /\ brokerUp' = TRUE
    /\ UNCHANGED <<main, stop, wanted, task, backoff, retries, clientVars,
                   malformed, inputs, disturbed, faults>>

Next == \/ \E t \in Streams : \/ Connect(t) \/ Disconnect(t) \/ CleanClose(t)
                              \/ Reconnect(t) \/ Message(t)
        \/ Subscribe
        \/ \E t \in Pollers : Poll(t) \/ PollAgain(t)
        \/ \E t \in Tasks, d \in Topics : Deliver(t, d) \/ Expire(t, d)
        \/ Wake \/ (\E t \in Tasks : Cancelled(t)) \/ Gathered \/ Close \/ Start
        \/ OperatorStop \/ OperatorStart \/ Kill \/ BrokerLost \/ BrokerBack

Spec == Init /\ [][Next]_vars

\* The event loop and the sender thread keep running, Docker restarts the
\* container, and an outage ends.  No task need receive or fail anything.
FairSpec ==
    /\ Spec
    /\ WF_vars(Wake) /\ WF_vars(Gathered) /\ WF_vars(Close) /\ WF_vars(Start)
    /\ WF_vars(BrokerBack)
    /\ \A t \in Tasks : WF_vars(Cancelled(t))
    /\ \A t \in Tasks, d \in Topics : WF_vars(Deliver(t, d) \/ Expire(t, d))

-----------------------------------------------------------------------------
Counts == [Tasks -> [Topics -> 0 .. (Ids + 1) * MaxInputs]]

TypeOK ==
    /\ main \in {"waiting", "gathering", "flushing", "exited"}
    /\ stop \in BOOLEAN /\ wanted \in BOOLEAN /\ brokerUp \in BOOLEAN
    /\ task \in [Tasks -> Waiting \cup Ended]
    /\ backoff \in [Streams -> Nat]
    /\ retries \in [Streams -> 0 .. MaxRetries]
    /\ accepted \in Counts /\ buffered \in Counts /\ delivered \in Counts
    /\ malformed \in [Streams -> 0 .. MaxInputs]
    /\ inputs \in 0 .. MaxInputs
    /\ disturbed \in BOOLEAN /\ faults \in 0 .. MaxFaults

(***************************************************************************)
(* Without an outage or a kill, every record a task handed to send() is in *)
(* the broker or still in the client's memory: across a failing task, the  *)
(* cancellation of its siblings, a stop and any number of restarts nothing *)
(* is lost, although no send is ever awaited (main.py:31-45).              *)
(***************************************************************************)
NoLossUndisturbed ==
    ~disturbed => \A t \in Tasks, d \in Topics :
                      accepted[t][d] = buffered[t][d] + delivered[t][d]

(***************************************************************************)
(* The wait before the next attempt is the base, doubled once for every    *)
(* failure since the last connection, up to the cap, however connects,     *)
(* drops, sleeps and restarts interleave (binance_trades.py:43-49, 77-80). *)
(***************************************************************************)
BackoffFollowsRetries ==
    \A t \in Streams :
        backoff[t] = Min({Cap, Doubled[retries[t]]})

(***************************************************************************)
(* A task that has died is running again in the end, unless the operator   *)
(* stops the container: run() wakes, cancels and gathers the other tasks,  *)
(* flushes and returns, and Docker starts a new process.  The same restart *)
(* is the only thing that brings a poller back (main.py:31-45,             *)
(* docker-compose.yml:189).                                                *)
(***************************************************************************)
FailedTaskComesBack ==
    \A t \in Tasks : task[t] = "failed" ~> (task[t] \in Waiting \/ ~wanted)

\* docker compose stop ends the process, buffered records and outages or not.
StopTerminates == stop ~> main = "exited"

(***************************************************************************)
(* README.md:140: "malformed payloads routed to dlq.trades".               *)
(***************************************************************************)
MalformedReachesDlq ==
    ~disturbed => \A t \in Streams : accepted[t]["dlq"] = malformed[t]

(***************************************************************************)
(* README.md:140: "reconnect with exponential backoff on WebSocket drops": *)
(* a stream that had a connection sleeps before it asks for another.       *)
(***************************************************************************)
DropsAreFollowedByBackoff ==
    [][\A t \in Streams : task[t] = "streaming" => task'[t] # "connecting"]_vars

=============================================================================
