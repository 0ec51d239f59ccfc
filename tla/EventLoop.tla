------------------------------- MODULE EventLoop -------------------------------
(***************************************************************************)
(* The Kafka side of the Work process: the consumer task with its offsets  *)
(* and its reconnect loop, the one cached producer that the task and REST  *)
(* requests share, and the process's stops and starts.                     *)
(*                                                                         *)
(* One partition of one topic; its messages are numbered in their order.   *)
(* The client library commits the position of what it has handed out, in   *)
(* the background while a handler runs and once more when it is closed.    *)
(***************************************************************************)
EXTENDS Naturals

CONSTANTS
  Last,      \* how many messages are ever written
  Alerting,  \* the messages whose handling publishes an alert
  Stops      \* bound: how often the process stops

Message == 1..Last
Caller == {"loop", "request"}

VARIABLES
  broker,     \* whether Kafka can be reached
  written,    \* how many messages are on the topic
  loop,       \* where the consumer task is
  position,   \* the last message handed to a handler by this consumer
  committed,  \* the group's committed offset
  producer,   \* the cached handle; "broken": kept, but its start() has failed
  publishing, \* how far each caller's publication is
  stops,      \* how often the process has stopped
  ended,      \* history: the messages whose handler came to its end
  cut         \* history: the messages a stop cut off in their handler

vars == <<broker, written, loop, position, committed, producer, publishing, stops, ended, cut>>

(* Any number of messages, any of them alerting.                           *)
ASSUME LoopAssumption == Last \in Nat /\ Alerting \subseteq Message /\ Stops \in Nat

(* Offsets, the loop and the publications have the shape the code gives    *)
(* them.                                                                   *)
TypeOK ==
  /\ broker \in {"up", "down"}
  /\ loop \in {"connect", "poll", "handle", "close", "leave", "sleep", "down"}
  /\ written \in 0..Last /\ position \in 0..written /\ committed \in 0..written
  /\ producer \in {"none", "starting", "started", "broken"}
  /\ publishing \in [Caller -> {"idle", "get", "start", "send", "done"}]
  /\ stops \in 0..Stops
  /\ ended \subseteq Message /\ cut \subseteq Message

Init ==
  /\ broker = "up" /\ written = 0
  /\ loop = "connect" /\ position = 0 /\ committed = 0
  /\ producer = "none" /\ publishing = [c \in Caller |-> "idle"]
  /\ stops = 0 /\ ended = {} /\ cut = {}

--------------------------------------------------------------------------------
(* Kafka and the other services.                                           *)

Flip ==
  /\ broker' = IF broker = "up" THEN "down" ELSE "up"
  /\ UNCHANGED <<written, loop, position, committed, producer, publishing, stops, ended, cut>>

Produce ==
  /\ broker = "up" /\ written < Last
  /\ written' = written + 1
  /\ UNCHANGED <<broker, loop, position, committed, producer, publishing, stops, ended, cut>>

--------------------------------------------------------------------------------
(* start_consumer.                                                         *)

(* A new consumer starts where its group left off (earliest: at 0), or its *)
(* start() raises.                                                         *)
Connect ==
  /\ loop = "connect"
  /\ IF broker = "up" THEN loop' = "poll" /\ position' = committed
                      ELSE loop' = "sleep" /\ UNCHANGED position
  /\ UNCHANGED <<broker, written, committed, producer, publishing, stops, ended, cut>>

(* Faulty variant: the loop ends with the first failure to connect.        *)
SleepForGood ==
  /\ loop = "sleep"
  /\ UNCHANGED vars

(* Ten seconds later.                                                      *)
Sleep ==
  /\ loop = "sleep"
  /\ loop' = "connect"
  /\ UNCHANGED <<broker, written, position, committed, producer, publishing, stops, ended, cut>>

(* Faulty variant: the end of the topic is not looked for.                 *)
PollAhead ==
  /\ loop = "poll" /\ broker = "up" /\ position < Last
  /\ position' = position + 1
  /\ loop' = "handle"
  /\ UNCHANGED <<broker, written, committed, producer, publishing, stops, ended, cut>>

(* The next message goes to its handler.                                   *)
Poll ==
  /\ loop = "poll" /\ broker = "up" /\ position < written
  /\ position' = position + 1
  /\ loop' = "handle"
  /\ UNCHANGED <<broker, written, committed, producer, publishing, stops, ended, cut>>

(* The iteration itself raises: the consumer is closed, then made anew. A  *)
(* client that raises with the broker in reach is an outage of one moment: *)
(* the broker goes and comes back around this step.                        *)
PollFails ==
  /\ loop = "poll" /\ broker = "down"
  /\ loop' = "close"
  /\ UNCHANGED <<broker, written, position, committed, producer, publishing, stops, ended, cut>>

(* Faulty variant: the commit runs one ahead.                              *)
AutoCommitNext ==
  /\ loop \in {"poll", "handle"} /\ broker = "up" /\ position < written
  /\ committed' = position + 1
  /\ UNCHANGED <<broker, written, loop, position, producer, publishing, stops, ended, cut>>

(* The library's commit every five seconds, whatever the handler is at.    *)
AutoCommit ==
  /\ loop \in {"poll", "handle"} /\ broker = "up"
  /\ committed' = position
  /\ UNCHANGED <<broker, written, loop, position, producer, publishing, stops, ended, cut>>

(* The handler returns or raises: either way the loop goes on.             *)
EndHandler ==
  /\ loop = "handle" /\ publishing["loop"] \in {"idle", "done"}
  /\ loop' = "poll"
  /\ publishing' = [publishing EXCEPT !["loop"] = "idle"]
  /\ ended' = ended \union {position}
  /\ UNCHANGED <<broker, written, position, committed, producer, stops, cut>>

(* consumer.stop(), which commits what was handed out if it can.           *)
Close ==
  /\ loop \in {"close", "leave"}
  /\ committed' = IF broker = "up" THEN position ELSE committed
  /\ IF loop = "close"
       THEN loop' = "sleep" /\ UNCHANGED <<producer, publishing>>
       ELSE /\ loop' = "down" /\ producer' = "none"           \* stop_producer
            /\ publishing' = [c \in Caller |-> "idle"]
  /\ UNCHANGED <<broker, written, position, stops, ended, cut>>

--------------------------------------------------------------------------------
(* get_producer and the publishers.                                        *)

MayPublish(c) ==
  IF c = "loop" THEN loop = "handle" /\ position \in Alerting
                ELSE loop \notin {"down", "leave"}

Over(c) == IF c = "loop" THEN "done" ELSE "idle"

Publish(c) ==
  /\ publishing[c] = "idle" /\ MayPublish(c)
  /\ publishing' = [publishing EXCEPT ![c] = "get"]
  /\ UNCHANGED <<broker, written, loop, position, committed, producer, stops, ended, cut>>

(* Faulty variant: the handle is cached only once it has started.          *)
GetProducerLate(c) ==
  /\ publishing[c] = "get"
  /\ publishing' = [publishing EXCEPT ![c] =
                      IF producer \in {"none", "starting"} THEN "start" ELSE "send"]
  /\ producer' = IF producer = "none" THEN "starting" ELSE producer
  /\ UNCHANGED <<broker, written, loop, position, committed, stops, ended, cut>>

(* get_producer caches the handle before it awaits its start(); whoever    *)
(* comes next goes on with it as it is.                                    *)
GetProducer(c) ==
  /\ publishing[c] = "get"
  /\ publishing' = [publishing EXCEPT ![c] = IF producer = "none" THEN "start" ELSE "send"]
  /\ producer' = IF producer = "none" THEN "starting" ELSE producer
  /\ UNCHANGED <<broker, written, loop, position, committed, stops, ended, cut>>

(* start() returns, or raises and leaves the handle behind.                *)
StartProducer(c) ==
  /\ publishing[c] = "start"
  /\ IF broker = "up"
       THEN producer' = "started" /\ publishing' = [publishing EXCEPT ![c] = "send"]
       ELSE producer' = "broken" /\ publishing' = [publishing EXCEPT ![c] = Over(c)]
  /\ UNCHANGED <<broker, written, loop, position, committed, stops, ended, cut>>

(* Faulty variant: an outage is waited out, however long.                  *)
SendUnbounded(c) ==
  /\ publishing[c] = "send" /\ producer = "started" /\ broker = "up"
  /\ publishing' = [publishing EXCEPT ![c] = Over(c)]
  /\ UNCHANGED <<broker, written, loop, position, committed, producer, stops, ended, cut>>

(* send_and_wait on a started handle returns or times out.                 *)
Send(c) ==
  /\ publishing[c] = "send" /\ producer = "started"
  /\ publishing' = [publishing EXCEPT ![c] = Over(c)]
  /\ UNCHANGED <<broker, written, loop, position, committed, producer, stops, ended, cut>>

(* On one that never started it cannot succeed; it may raise.              *)
SendFails(c) ==
  /\ publishing[c] = "send" /\ producer \in {"starting", "broken"}
  /\ publishing' = [publishing EXCEPT ![c] = Over(c)]
  /\ UNCHANGED <<broker, written, loop, position, committed, producer, stops, ended, cut>>

--------------------------------------------------------------------------------
(* The process.                                                            *)

InProgress == IF loop = "handle" THEN {position} ELSE {}

(* lifespan ends: the task is cancelled where it waits, be it in a start() *)
(* of the producer or in the middle of a handler.                          *)
Shutdown ==
  /\ loop \notin {"down", "leave"} /\ stops < Stops
  /\ stops' = stops + 1
  /\ cut' = cut \union InProgress
  /\ IF loop \in {"poll", "handle"}
       THEN /\ loop' = "leave"
            /\ producer' = IF publishing["loop"] = "start" THEN "broken" ELSE producer
            /\ publishing' = [publishing EXCEPT !["loop"] = "idle"]
       ELSE /\ loop' = "down" /\ producer' = "none"
            /\ publishing' = [c \in Caller |-> "idle"]
  /\ UNCHANGED <<broker, written, position, committed, ended>>

Crash ==
  /\ loop # "down" /\ stops < Stops
  /\ stops' = stops + 1
  /\ cut' = cut \union InProgress
  /\ loop' = "down" /\ producer' = "none"
  /\ publishing' = [c \in Caller |-> "idle"]
  /\ UNCHANGED <<broker, written, position, committed, ended>>

(* The container is started again.                                         *)
Restart ==
  /\ loop = "down"
  /\ loop' = "connect"
  /\ UNCHANGED <<broker, written, position, committed, producer, publishing, stops, ended, cut>>

--------------------------------------------------------------------------------

Consume == Connect \/ Sleep \/ Poll \/ EndHandler \/ Close

(* A publication goes on by itself, except that nothing in the code bounds *)
(* the wait on a handle that never started.                                *)
Proceed(c) == GetProducer(c) \/ StartProducer(c) \/ Send(c)

Next ==
  \/ Flip \/ Produce
  \/ Consume \/ PollFails \/ AutoCommit
  \/ \E c \in Caller : Publish(c) \/ Proceed(c) \/ SendFails(c)
  \/ Shutdown \/ Crash \/ Restart

(* The event loop runs every task that is ready; handlers and calls of the *)
(* client library end (MySQL and Kafka calls time out); Docker restarts    *)
(* the container. The broker, the publishers and the stops are not fair.   *)
Fairness ==
  /\ WF_vars(Consume) /\ WF_vars(Restart)
  /\ \A c \in Caller : WF_vars(Proceed(c))

Spec == Init /\ [][Next]_vars /\ Fairness

--------------------------------------------------------------------------------
(* Properties.                                                             *)

(* How far the topic has been passed: what this consumer handed out and    *)
(* what the next one will not see again.                                   *)
Passed(m) == m <= committed \/ (loop \in {"poll", "handle"} /\ m <= position)

(* No message is passed over, except one whose handler a stop cut off: the *)
(* broker's outages, reconnects and redeliveries lose nothing.             *)
OnlyCutAreLost ==
  \A m \in Message : Passed(m) => m \in ended \union cut \union InProgress

(* However many publications begin at once, one of them starts the         *)
(* producer: no second one is ever left open behind the cached handle      *)
(* (producer.py 20-26).                                                    *)
OneStart ==
  \A c, d \in Caller : publishing[c] = "start" /\ publishing[d] = "start" => c = d

Waiting == publishing["loop"] = "send" /\ producer = "broken"

(* Once Kafka can be reached for good, every message written comes to its  *)
(* handler's end (or was cut off by a stop), unless the task waits for     *)
(* ever on a broken handle (README 13: retried every ten seconds).         *)
EveryMessageEnds ==
  (<>[](broker = "up") /\ []<>(~ Waiting)) =>
    \A m \in Message : (m <= written) ~> (m \in ended \union cut)

(* A publication ends, whoever started the producer and whether Kafka can  *)
(* be reached or not, unless the handle it waits on is broken.             *)
PublicationEnds ==
  \A c \in Caller : (publishing[c] = "get") ~>
    (publishing[c] \in {"idle", "done"} \/ producer = "broken")
================================================================================
