---------------------------- MODULE EventLoopProofs ----------------------------
(***************************************************************************)
(* Machine-checked proofs about EventLoop, for any number of messages and  *)
(* of stops.                                                               *)
(***************************************************************************)
EXTENDS EventLoop, TLAPS

--------------------------------------------------------------------------------
(* The inductive invariant.                                                *)

(* A handler runs on a message that was handed out.                        *)
HandedOut == loop = "handle" => position >= 1

(* A consumer that is being closed has nothing left in a handler.          *)
Settled ==
  loop \in {"close", "leave"} =>
    \A m \in Message : m <= position => m \in ended \union cut

(* Whoever starts the producer starts the cached handle.                   *)
StartsTheCached == \A c \in Caller : publishing[c] = "start" => producer = "starting"

OffsetInv == TypeOK /\ HandedOut /\ Settled /\ OnlyCutAreLost
StartInv == OneStart /\ StartsTheCached

--------------------------------------------------------------------------------

LEMMA TypeStep == TypeOK /\ HandedOut /\ [Next]_vars => TypeOK' /\ HandedOut'
<1> SUFFICES ASSUME TypeOK, HandedOut, [Next]_vars PROVE TypeOK' /\ HandedOut'
  OBVIOUS
<1> USE LoopAssumption DEF TypeOK, HandedOut, Message, Caller
<1>1. CASE Flip \/ Produce
  <2>1. CASE Flip
    BY <2>1 DEF Flip
  <2>2. CASE Produce
    <3>1. written' \in 0..Last /\ written <= written'
      BY <2>2 DEF Produce
    <3>2. QED
      BY <2>2, <3>1 DEF Produce
  <2>3. QED
    BY <1>1, <2>1, <2>2
<1>2. CASE Consume
  <2>1. CASE Connect
    BY <2>1 DEF Connect
  <2>2. CASE Sleep
    BY <2>2 DEF Sleep
  <2>3. CASE Poll
    BY <2>3 DEF Poll
  <2>4. CASE EndHandler
    <3>1. position \in 1..Last
      BY <2>4 DEF EndHandler
    <3>2. QED
      BY <2>4, <3>1 DEF EndHandler
  <2>5. CASE Close
    BY <2>5 DEF Close
  <2>6. QED
    BY <1>2, <2>1, <2>2, <2>3, <2>4, <2>5 DEF Consume
<1>3. CASE PollFails \/ AutoCommit
  BY <1>3 DEF PollFails, AutoCommit
<1>4. ASSUME NEW c \in Caller, Publish(c) \/ Proceed(c) \/ SendFails(c)
      PROVE  TypeOK' /\ HandedOut'
  <2>1. CASE Publish(c)
    BY <2>1 DEF Publish
  <2>2. CASE GetProducer(c)
    BY <2>2 DEF GetProducer
  <2>3. CASE StartProducer(c)
    BY <2>3 DEF StartProducer, Over
  <2>4. CASE Send(c) \/ SendFails(c)
    BY <2>4 DEF Send, SendFails, Over
  <2>5. QED
    BY <1>4, <2>1, <2>2, <2>3, <2>4 DEF Proceed
<1>5. CASE Shutdown \/ Crash
  <2>1. InProgress \subseteq Message
    <3>1. loop = "handle" => position \in 1..Last
      OBVIOUS
    <3>2. QED
      BY <3>1 DEF InProgress
  <2>2. stops' \in 0..Stops /\ cut' \subseteq Message
    <3>1. stops' = stops + 1 /\ stops < Stops /\ cut' = cut \union InProgress
      BY <1>5 DEF Shutdown, Crash
    <3>2. QED
      BY <2>1, <3>1
  <2>3. /\ loop' \in {"leave", "down"} /\ producer' \in {"none", "broken", producer}
        /\ publishing' \in [Caller -> {"idle", "get", "start", "send", "done"}]
        /\ UNCHANGED <<broker, written, position, committed, ended>>
    BY <1>5 DEF Shutdown, Crash
  <2>4. QED
    BY <2>2, <2>3
<1>6. CASE Restart
  BY <1>6 DEF Restart
<1>7. CASE UNCHANGED vars
  BY <1>7 DEF vars
<1>8. QED
  BY <1>1, <1>2, <1>3, <1>4, <1>5, <1>6, <1>7 DEF Next

LEMMA OffsetStep == OffsetInv /\ [Next]_vars => OffsetInv'
<1> SUFFICES ASSUME OffsetInv, [Next]_vars PROVE OffsetInv'
  OBVIOUS
<1>0. TypeOK' /\ HandedOut'
  BY TypeStep DEF OffsetInv
<1> SUFFICES Settled' /\ OnlyCutAreLost'
  BY <1>0 DEF OffsetInv
<1> USE LoopAssumption DEF OffsetInv, TypeOK, HandedOut, Settled, OnlyCutAreLost, Passed,
    InProgress, Message
<1>1. CASE Flip \/ Produce
  BY <1>1 DEF Flip, Produce
<1>2. CASE Consume
  <2>1. CASE Connect
    BY <2>1 DEF Connect
  <2>2. CASE Sleep
    BY <2>2 DEF Sleep
  <2>3. CASE Poll
    BY <2>3 DEF Poll
  <2>4. CASE EndHandler
    BY <2>4 DEF EndHandler
  <2>5. CASE Close
    BY <2>5 DEF Close
  <2>6. QED
    BY <1>2, <2>1, <2>2, <2>3, <2>4, <2>5 DEF Consume
<1>3. CASE PollFails \/ AutoCommit
  BY <1>3 DEF PollFails, AutoCommit
<1>4. ASSUME NEW c \in Caller, Publish(c) \/ Proceed(c) \/ SendFails(c)
      PROVE  Settled' /\ OnlyCutAreLost'
  BY <1>4 DEF Proceed, Publish, GetProducer, StartProducer, Send, SendFails
<1>5. CASE Shutdown
  BY <1>5 DEF Shutdown
<1>6. CASE Crash
  BY <1>6 DEF Crash
<1>7. CASE Restart
  BY <1>7 DEF Restart
<1>8. CASE UNCHANGED vars
  BY <1>8 DEF vars
<1>9. QED
  BY <1>1, <1>2, <1>3, <1>4, <1>5, <1>6, <1>7, <1>8 DEF Next

LEMMA StartStep == TypeOK /\ StartInv /\ [Next]_vars => StartInv'
<1> SUFFICES ASSUME TypeOK, StartInv, [Next]_vars PROVE StartInv'
  OBVIOUS
<1> USE DEF TypeOK, StartInv, OneStart, StartsTheCached, Caller
<1>1. CASE Flip \/ Produce \/ PollFails \/ AutoCommit \/ Restart \/ UNCHANGED vars
  BY <1>1 DEF Flip, Produce, PollFails, AutoCommit, Restart, vars
<1>2. CASE Consume
  BY <1>2 DEF Consume, Connect, Sleep, Poll, EndHandler, Close
<1>3. ASSUME NEW c \in Caller, Publish(c) \/ Proceed(c) \/ SendFails(c) PROVE StartInv'
  <2>1. CASE Publish(c)
    BY <2>1 DEF Publish
  <2>2. CASE GetProducer(c)
    BY <2>2 DEF GetProducer
  <2>3. CASE StartProducer(c)
    BY <2>3 DEF StartProducer, Over
  <2>4. CASE Send(c) \/ SendFails(c)
    BY <2>4 DEF Send, SendFails, Over
  <2>5. QED
    BY <1>3, <2>1, <2>2, <2>3, <2>4 DEF Proceed
<1>4. CASE Shutdown
  BY <1>4 DEF Shutdown
<1>5. CASE Crash
  BY <1>5 DEF Crash
<1>6. QED
  BY <1>1, <1>2, <1>3, <1>4, <1>5 DEF Next

LEMMA InitInv == Init => OffsetInv /\ StartInv
  BY LoopAssumption
  DEF Init, OffsetInv, StartInv, TypeOK, HandedOut, Settled, OnlyCutAreLost, Passed,
      OneStart, StartsTheCached, Message, Caller

LEMMA Invariant == Spec => [](OffsetInv /\ StartInv)
<1>1. OffsetInv /\ StartInv /\ [Next]_vars => (OffsetInv /\ StartInv)'
  BY OffsetStep, StartStep DEF OffsetInv
<1>2. QED
  BY InitInv, <1>1, PTL DEF Spec

--------------------------------------------------------------------------------

(* Offsets never run ahead of the topic, and the rest keeps its shape.     *)
THEOREM TypeCorrect == Spec => []TypeOK
  BY Invariant, PTL DEF OffsetInv

(* Outages, reconnects, commits in the middle of a handler, crashes and    *)
(* restarts lose no message but those whose handler a stop cut off.        *)
THEOREM OnlyCutAreLostHolds == Spec => []OnlyCutAreLost
  BY Invariant, PTL DEF OffsetInv

(* At most one caller is ever starting a producer.                         *)
THEOREM OneStartHolds == Spec => []OneStart
  BY Invariant, PTL DEF StartInv
================================================================================
