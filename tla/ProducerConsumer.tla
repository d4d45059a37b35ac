-------------------------- MODULE ProducerConsumer --------------------------
(***************************************************************************)
(* A consumer bot keeps a copy of what a producer bot has analysed.  The   *)
(* producer broadcasts the last candle of every analysis and its whitelist *)
(* when that changes; the consumer asks for whole frames when it connects  *)
(* and when it finds that candles are missing.  Broadcasts and answers are *)
(* sent by two tasks of the producer's API thread over one connection,     *)
(* while its main thread goes on; the connection may be lost any time, and *)
(* both bots keep what they have.  A producer that starts answers before   *)
(* it has a whitelist, and may have or get an empty one.                   *)
(*                                                                         *)
(* One pair, one producer.  A candle is its number, a data frame the set   *)
(* of its candles.  A whitelist is a number; 0 is the empty list, and the  *)
(* pair is in all others.                                                  *)
(***************************************************************************)
EXTENDS Integers, Sequences, FiniteSets, FiniteSetsExt, SequencesExt

CONSTANTS
  MaxCandle,   \* bound: the last candle
  History,     \* candles the producer's first analysis has
  Full,        \* FULL_DATAFRAME_THRESHOLD
  MaxList,     \* bound: whitelists other than the empty one
  Configured,  \* pair_whitelist of the producer's configuration
  Changes,     \* bound: changes of the whitelist while the producer runs
  Losses,      \* bound: lost connections and restarts of the producer
  Backlog      \* bound: messages waiting for the broadcaster

ASSUME ProducerConsumerAssumption ==
  /\ {MaxCandle, Full, Backlog} \subseteq Nat \ {0}
  /\ History \in 1 .. MaxCandle /\ {MaxList, Changes, Losses} \subseteq Nat
  /\ Configured \in 0 .. MaxList

VARIABLES
  plast,       \* the last candle the producer has
  analyzed,    \* the producer's frame is in its data provider
  active,      \* active_pair_whitelist
  announced,   \* pairlists.whitelist: the list refreshed last, Unset at first
  changes,
  stream,      \* messages published since the broadcaster read last
  subscribed,  \* the producer's channel is subscribed
  up, down,    \* messages on their way to the producer, to the consumer
  connected,
  spc,         \* initial requests the consumer has sent; 4: reads its stream
  requests,    \* requests published to the consumer's channel stream
  frame,       \* the consumer's copy of the frame
  pairs,       \* the consumer's copy of the whitelist
  losses,
  stale,       \* history: a list was asked for between refresh and assignment
  lost         \* history: a request was published before the stream was read, or
               \* met an empty whitelist, and nothing was analysed since

producer == <<plast, analyzed, active, announced, changes, stream, subscribed>>
consumer == <<spc, requests, frame, pairs, lost>>
vars == <<producer, consumer, up, down, connected, losses, stale>>

All   == MaxCandle \* the 1500 of a request for everything
Unset == -1
Lists == 0 .. MaxList

\* The frame the producer's data provider has.
Analysed == IF analyzed THEN 1 .. plast ELSE {}

List(v)   == [type |-> "whitelist", list |-> v]
Frame(df) == [type |-> "analyzed_df", df |-> df]
Ask(n)    == [type |-> "analyzed_df", limit |-> n]

\* The last names no pair: it asks for all of the whitelist.
Initial == <<[type |-> "subscribe"], [type |-> "whitelist"], [type |-> "analyzed_dfs"]>>

Init ==
  /\ plast = 0 /\ analyzed = FALSE /\ active = 0 /\ announced = Unset /\ changes = 0
  /\ stream = <<>> /\ subscribed = FALSE /\ up = <<>> /\ down = <<>>
  /\ connected = FALSE /\ spc = 0 /\ requests = <<>>
  /\ frame = {} /\ pairs = 0 /\ losses = 0 /\ stale = FALSE /\ lost = FALSE

(***************************************************************************)
(* The producer.                                                           *)
(***************************************************************************)

\* MessageStream.publish: only who iterates will see the message.
Publish(msg) == stream' = IF connected THEN Append(stream, msg) ELSE stream

\* _analyze_ticker_internal: the frame is cached, its last candle emitted.  A
\* candle may be missed when the bot is slow.
Analyze ==
  /\ Len(stream) < Backlog
  /\ announced = active /\ active # 0
  /\ \E c \in IF plast = 0 THEN {History} ELSE {plast + 1, plast + 2} \cup (IF analyzed THEN {} ELSE {plast}) :
       /\ c <= MaxCandle /\ plast' = c
       /\ Publish(Frame({c}))
  /\ analyzed' = TRUE /\ lost' = FALSE
  /\ UNCHANGED <<active, announced, changes, subscribed, spc, requests, frame, pairs, up, down, connected, losses, stale>>

\* _refresh_active_whitelist of a starting bot compares with the configuration,
\* which nobody was told.
FirstList ==
  /\ announced = Unset
  /\ \E list \in Lists :
       /\ announced' = list
       /\ \/ list = Configured /\ UNCHANGED <<stream, stale>>
          \/ list # Configured /\ Publish(List(list)) /\ stale' = FALSE
  /\ UNCHANGED <<plast, analyzed, active, changes, subscribed, consumer, up, down, connected, losses>>

\* Later it sends a list that differs from the last ...
AnnounceList ==
  /\ Len(stream) < Backlog /\ changes < Changes
  /\ announced = active
  /\ \E list \in Lists \ {active} :
       announced' = list /\ Publish(List(list)) /\ stale' = FALSE
  /\ changes' = changes + 1
  /\ UNCHANGED <<plast, analyzed, active, subscribed, consumer, up, down, connected, losses>>

\* ... and __init__ or process assigns it.
AssignList ==
  /\ announced \notin {Unset, active} /\ active' = announced
  /\ UNCHANGED <<plast, analyzed, announced, changes, stream, subscribed, consumer, up, down, connected, losses, stale>>

\* Mutant: the candles before the last are enough.
TailBefore(df, n) == {c \in df : c < Max(df) /\ c >= Max(df) - n}

\* _ws_all_analysed_dataframes: the last n candles.
TailOf(df, n) == {c \in df : c > Max(df) - n}

FrameAnswer(n) == Frame(IF Analysed = {} THEN {} ELSE TailOf(Analysed, n))

\* channel_reader with _process_consumer_request.
Answer ==
  /\ connected /\ up # <<>> /\ up' = Tail(up)
  /\ LET msg == Head(up) IN
     \/ /\ msg.type = "subscribe" /\ subscribed' = TRUE
        /\ UNCHANGED <<down, stale, lost>>
     \/ /\ msg.type = "whitelist" /\ down' = Append(down, List(active))
        /\ stale' = (announced # active)
        /\ UNCHANGED <<subscribed, lost>>
     \/ /\ msg.type = "analyzed_df" /\ down' = Append(down, FrameAnswer(msg.limit))
        /\ UNCHANGED <<subscribed, stale, lost>>
     \/ /\ msg.type = "analyzed_dfs" /\ active # 0 /\ down' = Append(down, FrameAnswer(All))
        /\ UNCHANGED <<subscribed, stale, lost>>
     \/ /\ msg.type = "analyzed_dfs" /\ active = 0 /\ lost' = TRUE
        /\ UNCHANGED <<down, subscribed, stale>>
  /\ UNCHANGED <<plast, analyzed, active, announced, changes, stream, spc, requests, frame, pairs, connected, losses>>

\* channel_broadcaster
Broadcast ==
  /\ connected /\ stream # <<>> /\ stream' = Tail(stream)
  /\ down' = IF subscribed THEN Append(down, Head(stream)) ELSE down
  /\ UNCHANGED <<plast, analyzed, active, announced, changes, subscribed, consumer, up, connected, losses, stale>>

(***************************************************************************)
(* The consumer.                                                           *)
(***************************************************************************)

\* Mutant: after a reconnection nothing is asked for.
NoRequests == spc' = IF frame = {} THEN 0 ELSE 4

\* A new connection begins with the initial requests.
InitialRequests == spc' = 0

\* _create_connection: both sides begin anew.
Connect ==
  /\ ~ connected /\ connected' = TRUE
  /\ InitialRequests /\ requests' = <<>> /\ lost' = FALSE
  /\ UNCHANGED <<producer, frame, pairs, up, down, losses, stale>>

\* _send_requests: first the initial requests, then those in the stream.
SendInitial ==
  /\ connected /\ spc < 3
  /\ up' = Append(up, Initial[spc + 1]) /\ spc' = spc + 1
  /\ UNCHANGED <<producer, requests, frame, pairs, lost, down, connected, losses, stale>>

ReadStream ==
  /\ connected /\ spc = 3 /\ spc' = 4
  /\ UNCHANGED <<producer, requests, frame, pairs, lost, up, down, connected, losses, stale>>

SendRequest ==
  /\ connected /\ spc = 4 /\ requests # <<>>
  /\ up' = Append(up, Head(requests)) /\ requests' = Tail(requests)
  /\ UNCHANGED <<producer, spc, frame, pairs, lost, down, connected, losses, stale>>

\* Mutant: asks only when there is nothing yet.
RequestFirst(n) ==
  IF frame = {} THEN requests' = Append(requests, Ask(n)) /\ UNCHANGED lost
  ELSE UNCHANGED <<requests, lost>>

\* send_producer_request: lost unless the stream is being read.
Request(n) ==
  IF spc = 4 THEN requests' = Append(requests, Ask(n)) /\ UNCHANGED lost
  ELSE lost' = TRUE /\ UNCHANGED requests

\* Mutant: one candle may be missing.
OneMissing(df) == Min(df) - Max(frame) > 2

\* candle_difference > 1
HoleBefore(df) == Min(df) - Max(frame) > 1

\* Candles to ask for: one more for the overlap, or everything.
Missing(df) ==
  LET n == Min(df) - Max(frame) + 1 IN IF n < Full THEN n ELSE All

\* _consume_analyzed_df_message with _add_external_df
ConsumeFrame(df) ==
  \/ df = {} /\ UNCHANGED <<frame, requests, lost>>
  \/ Cardinality(df) >= Full /\ frame' = df /\ UNCHANGED <<requests, lost>>
  \/ /\ Cardinality(df) \in 1 .. Full - 1 /\ frame = {}
     /\ Request(All) /\ UNCHANGED frame
  \/ /\ Cardinality(df) \in 1 .. Full - 1 /\ frame # {}
     /\ IF HoleBefore(df) THEN Request(Missing(df)) /\ UNCHANGED frame
        ELSE frame' = {c \in frame : c < Min(df)} \cup df /\ UNCHANGED <<requests, lost>>

\* _receive_messages with handle_producer_message, which ignores an empty list
Receive ==
  /\ connected /\ down # <<>> /\ down' = Tail(down)
  /\ LET msg == Head(down) IN
     \/ /\ msg.type = "whitelist" /\ pairs' = IF msg.list = 0 THEN pairs ELSE msg.list
        /\ UNCHANGED <<frame, requests, lost>>
     \/ msg.type = "analyzed_df" /\ ConsumeFrame(msg.df) /\ UNCHANGED pairs
  /\ UNCHANGED <<producer, spc, up, connected, losses, stale>>

(***************************************************************************)
(* Failures.                                                               *)
(***************************************************************************)

\* The connection is lost, or closed by a send that took too long or a ping
\* that was not answered.  The tasks of both channels are cancelled.
Disconnect ==
  /\ connected' = FALSE /\ losses < Losses /\ losses' = losses + 1
  /\ stream' = <<>> /\ subscribed' = FALSE /\ up' = <<>> /\ down' = <<>>
  /\ requests' = <<>> /\ UNCHANGED <<spc, frame, pairs, lost>>

LoseConnection ==
  /\ connected /\ Disconnect
  /\ UNCHANGED <<plast, analyzed, active, announced, changes, stale>>

\* A new process, or a new bot in it after reload_config.
RestartProducer ==
  /\ Disconnect
  /\ analyzed' = FALSE /\ active' = 0 /\ announced' = Unset
  /\ UNCHANGED <<plast, changes, stale>>

(***************************************************************************)
(* Specification.                                                          *)
(***************************************************************************)

Next ==
  \/ Analyze
  \/ FirstList
  \/ AnnounceList
  \/ AssignList
  \/ Answer
  \/ Broadcast
  \/ Connect
  \/ SendInitial
  \/ ReadStream
  \/ SendRequest
  \/ Receive
  \/ LoseConnection
  \/ RestartProducer

Spec == Init /\ [][Next]_vars

\* Every task goes on; a producer that starts gets its whitelist, and one that has
\* pairs analyses them.
FairSpec ==
  /\ Spec
  /\ WF_vars(Analyze) /\ WF_vars(FirstList) /\ WF_vars(AssignList)
  /\ WF_vars(Answer) /\ WF_vars(Broadcast)
  /\ WF_vars(Connect) /\ WF_vars(Receive)
  /\ WF_vars(SendInitial \/ ReadStream \/ SendRequest)

(***************************************************************************)
(* Properties.                                                             *)
(***************************************************************************)

TypeOK ==
  /\ plast \in 0 .. MaxCandle /\ {active, pairs} \subseteq Lists
  /\ announced \in Lists \cup {Unset} /\ changes \in 0 .. Changes
  /\ {analyzed, subscribed, connected, stale, lost} \subseteq BOOLEAN
  /\ spc \in 0 .. 4 /\ losses \in 0 .. Losses /\ frame \subseteq 1 .. MaxCandle
  /\ \A q \in {up, requests} : \A i \in DOMAIN q : q[i] \in Range(Initial) \cup {Ask(n) : n \in 1 .. All}
  /\ \A q \in {stream, down} : \A i \in DOMAIN q :
       q[i] \in {List(v) : v \in Lists} \cup {Frame(a .. b) : a \in 1 .. MaxCandle, b \in 0 .. MaxCandle}

\* The copy has no hole, in whatever order answers and broadcasts arrive and
\* whatever was lost.
NoHole == frame # {} => frame = Min(frame) .. Max(frame)

Behind == frame = {} \/ Max(frame) < plast

\* A consumer that is behind has something on its way that helps: a request, an
\* answer, a broadcast, or its initial requests; unless a request was lost or met
\* an empty whitelist, which the next candle makes good.
BehindIsOnTheWay ==
  connected /\ analyzed /\ Behind /\ ~ lost =>
    \/ spc < 3 \/ up # <<>> \/ requests # <<>>
    \/ \E q \in {stream, down} : \E i \in DOMAIN q : q[i].type = "analyzed_df" /\ plast \in q[i].df

\* A consumer with an old list will get the new one, unless that is empty, or the
\* consumer asked for it between the refresh and the assignment (in a producer that
\* starts: before its first list is assigned).
OldListIsReplaced ==
  connected /\ announced = active /\ active # 0 /\ pairs # active /\ ~ stale =>
    \/ spc < 2 \/ \E i \in DOMAIN up : up[i].type = "whitelist"
    \/ \E q \in {stream, down} : \E i \in DOMAIN q : q[i] = List(active)

\* In the end the consumer has what the producer has, unless a request was lost and
\* no candle came after it, or the producer has nothing to analyse.
CatchesUp ==
  <>[](lost \/ (active = 0 /\ ~ analyzed) \/ (frame # {} /\ Max(frame) = plast))

\* ProducerPairList's "reuse of all producer pairs": in the end the consumer has the
\* whitelist of the producer.
PairsAreReused == <>[](active = 0 \/ pairs = active)
=============================================================================
