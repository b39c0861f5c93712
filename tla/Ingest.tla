--------------------------------- MODULE Ingest ---------------------------------
(***************************************************************************)
(* The hot path: from a broker to the rows of a table.  One connector of   *)
(* each kind feeds BaseConnector._dispatch: Solace, whose SDK thread puts  *)
(* coroutines on the event loop; a durable JetStream subscription, whose   *)
(* handler acknowledges after it dispatched; a plain WebSocket feed.       *)
(*                                                                         *)
(* _dispatch and UpdateRouter.route run to their end without suspending,   *)
(* so a dispatch is one step.  Whether a payload can be decoded and        *)
(* applied is a property of the message.                                   *)
(***************************************************************************)
EXTENDS SolaceRouting

CONSTANTS
    Patterns,       \* what a Solace table may subscribe to
    Topics,         \* what Solace publishers publish on
    SolaceCount,    \* number of tables on the Solace transport
    MaxSent,        \* bound: messages published, over all brokers
    MaxFaults       \* bound: lost acknowledgements, closed sessions and
                    \* dispatches to a table that is not registered

ASSUME IngestAssumption == SolaceCount \in Nat /\ MaxSent \in Nat /\ MaxFaults \in Nat

ASSUME RoutingAssumption ==
    /\ \A pattern \in Patterns : pattern.levels \in Seq(Seq(STRING))
    /\ Topics \subseteq Seq(Seq(STRING))

Sources == {"solace", "stream", "feed"}

(* Tables: those of Solace are numbered as the registry lists them.            *)
SolaceTables == 1 .. SolaceCount
StreamTable == SolaceCount + 1
FeedTable == SolaceCount + 2
Tables == 1 .. SolaceCount + 2

VARIABLES
    patterns,   \* the topic of each Solace table, from its configuration
    sent,       \* the messages published; a message is known by its place here
    open,       \* the connectors in a session
    sdk,        \* Solace: messages the SDK thread has still to hand over
    calls,      \* Solace: coroutines put on the loop
    unrouted,   \* Solace: messages that found no table
    sub,        \* JetStream: messages pending in the client's subscription
    acking,     \* JetStream: the message whose ack() the handler awaits, or 0
    acked,      \* JetStream: messages the broker has seen acknowledged
    durable,    \* JetStream: the durable consumer has been created
    feed,       \* WebSocket: messages received and not yet read
    received,   \* counter MESSAGES_RECEIVED of each table
    rows,       \* the messages applied to each table, in order
    dropped,    \* the messages counted in MESSAGES_DROPPED of each transport
                \* with the reason dispatch_error
    unknown,    \* ... and how many with the reason unknown_table
    faults      \* how many faults there have been

brokerVars == <<patterns, sent, open, faults>>
solaceVars == <<sdk, calls, unrouted>>
streamVars == <<sub, acking, acked, durable>>
countVars == <<received, rows, dropped, unknown>>
vars == <<brokerVars, solaceVars, streamVars, feed, countVars>>

Ids == 1 .. MaxSent
Published == DOMAIN sent
From(src) == { m \in Published : sent[m].source = src }

(* Messages a table or the drop counter of a transport has taken.              *)
Dispatched(src, tables) == ToSet(dropped[src]) \cup UNION { ToSet(rows[t]) : t \in tables }

IngestTypeOK ==
    /\ patterns \in [SolaceTables -> Patterns]
    /\ sent \in Seq([source : Sources, topic : Topics \cup {<<>>}, good : BOOLEAN])
    /\ Len(sent) <= MaxSent
    /\ open \subseteq Sources
    /\ sdk \in Seq(Ids) /\ unrouted \subseteq Ids
    /\ calls \in Seq([table : SolaceTables, message : Ids])
    /\ sub \in Seq(Ids) /\ acked \subseteq Ids /\ acking \in Ids \cup {0}
    /\ durable \in BOOLEAN /\ ("stream" \in open => durable)
    /\ feed \in Seq(Ids)
    /\ received \in [Tables -> Nat]
    /\ rows \in [Tables -> Seq(Ids)]
    /\ dropped \in [Sources -> Seq(Ids)]
    /\ unknown \in [Sources -> Nat]
    /\ faults \in 0 .. MaxFaults

Init ==
    /\ patterns \in [SolaceTables -> Patterns]
    /\ sent = <<>> /\ open = {} /\ faults = 0
    /\ sdk = <<>> /\ calls = <<>> /\ unrouted = {}
    /\ sub = <<>> /\ acking = 0 /\ acked = {} /\ durable = FALSE
    /\ feed = <<>>
    /\ received = [t \in Tables |-> 0]
    /\ rows = [t \in Tables |-> <<>>]
    /\ dropped = [s \in Sources |-> <<>>]
    /\ unknown = [s \in Sources |-> 0]

--------------------------------------------------------------------------------
(* _dispatch *)

\* Mutant: what cannot be dispatched is not counted.
Dispatch_Silent(src, table, m) ==
    IF table \notin Tables THEN UNCHANGED countVars
    ELSE /\ received' = [received EXCEPT ![table] = @ + 1]
         /\ rows' = IF sent[m].good THEN [rows EXCEPT ![table] = Append(@, m)] ELSE rows
         /\ UNCHANGED <<dropped, unknown>>

(* A table that is not registered is counted as a drop and nothing else.       *)
(* Otherwise the message is counted as received first; route() applies the     *)
(* payload or raises, and what it raises is counted as a drop too.             *)
Dispatch(src, table, m) ==
    IF table \notin Tables
    THEN /\ unknown' = [unknown EXCEPT ![src] = @ + 1]
         /\ UNCHANGED <<received, rows, dropped>>
    ELSE /\ received' = [received EXCEPT ![table] = @ + 1]
         /\ IF sent[m].good
            THEN rows' = [rows EXCEPT ![table] = Append(@, m)] /\ UNCHANGED dropped
            ELSE dropped' = [dropped EXCEPT ![src] = Append(@, m)] /\ UNCHANGED rows
         /\ UNCHANGED unknown

(* A dispatch to a table that is not registered.  Tables are fixed at boot and *)
(* the connectors name those of the registry, so none of them does this; the   *)
(* tests do (test_unknown_table_drop).  No table has the number 0.             *)
DispatchUnknown(src) ==
    /\ faults < MaxFaults
    /\ faults' = faults + 1
    /\ Dispatch(src, 0, 0)
    /\ UNCHANGED <<patterns, sent, open, solaceVars, streamVars, feed>>

Publish(src, topic) ==
    /\ Len(sent) < MaxSent
    /\ \E good \in BOOLEAN :
         sent' = Append(sent, [source |-> src, topic |-> topic, good |-> good])

--------------------------------------------------------------------------------
(* Solace *)

(* The broker hands a message to the SDK if a subscription matches it.         *)
SolacePublish(topic) ==
    /\ "solace" \in open
    /\ \E i \in SolaceTables : Matches(patterns[i], topic)
    /\ Publish("solace", topic)
    /\ sdk' = Append(sdk, Len(sent'))
    /\ UNCHANGED <<patterns, open, faults, calls, unrouted, streamVars, feed, countVars>>

(* on_message, on the thread of the SDK.                                       *)
OnMessage ==
    /\ sdk # <<>>
    /\ sdk' = Tail(sdk)
    /\ LET m == Head(sdk)
           t == Route(patterns, sent[m].topic)
       IN  IF t = 0
           THEN unrouted' = unrouted \cup {m} /\ UNCHANGED calls
           ELSE calls' = Append(calls, [table |-> t, message |-> m]) /\ UNCHANGED unrouted
    /\ UNCHANGED <<brokerVars, streamVars, feed, countVars>>

\* Mutant: the loop runs the calls in any order.
RunCall_AnyOrder ==
    \E i \in DOMAIN calls :
      /\ calls' = RemoveAt(calls, i)
      /\ Dispatch("solace", calls[i].table, calls[i].message)
      /\ UNCHANGED <<brokerVars, sdk, unrouted, streamVars, feed>>

(* The loop runs the coroutines of run_coroutine_threadsafe in their order,    *)
(* also after the receiver is gone.                                            *)
RunCall ==
    /\ calls # <<>>
    /\ calls' = Tail(calls)
    /\ Dispatch("solace", Head(calls).table, Head(calls).message)
    /\ UNCHANGED <<brokerVars, sdk, unrouted, streamVars, feed>>

--------------------------------------------------------------------------------
(* NATS JetStream.  The broker keeps what a durable consumer has not           *)
(* acknowledged and delivers it again.  The first subscribe creates the        *)
(* consumer, with DeliverPolicy.NEW: what was published before is not for it,  *)
(* and is left out.                                                            *)

StreamPublish ==
    /\ durable
    /\ Publish("stream", <<>>)
    /\ UNCHANGED <<patterns, open, faults, solaceVars, streamVars, feed, countVars>>

Deliver ==
    /\ "stream" \in open
    /\ \E m \in From("stream") \ (acked \cup ToSet(sub) \cup {acking}) :
         sub' = Append(sub, m)
    /\ UNCHANGED <<brokerVars, solaceVars, acking, acked, durable, feed, countVars>>

(* The handler dispatches, whatever comes of it, and goes on to acknowledge.   *)
Handle ==
    /\ sub # <<>> /\ acking = 0
    /\ sub' = Tail(sub)
    /\ acking' = Head(sub)
    /\ Dispatch("stream", StreamTable, Head(sub))
    /\ UNCHANGED <<brokerVars, solaceVars, acked, durable, feed>>

\* Mutant: ack() acknowledges all messages delivered so far.
Ack_All ==
    /\ acking # 0
    /\ acked' = acked \cup {acking} \cup ToSet(sub)
    /\ acking' = 0
    /\ UNCHANGED <<brokerVars, solaceVars, sub, durable, feed, countVars>>

Ack ==
    /\ acking # 0
    /\ acked' = acked \cup {acking}
    /\ acking' = 0
    /\ UNCHANGED <<brokerVars, solaceVars, sub, durable, feed, countVars>>

(* A failed ack() is logged.                                                   *)
AckFails ==
    /\ acking # 0 /\ faults < MaxFaults
    /\ faults' = faults + 1
    /\ acking' = 0
    /\ UNCHANGED <<patterns, sent, open, solaceVars, sub, acked, durable, feed, countVars>>

--------------------------------------------------------------------------------
(* WebSocket: every message goes to the first table of the transport.          *)

FeedSends ==
    /\ "feed" \in open
    /\ Publish("feed", <<>>)
    /\ feed' = Append(feed, Len(sent'))
    /\ UNCHANGED <<patterns, open, faults, solaceVars, streamVars, countVars>>

ReadFeed ==
    /\ feed # <<>>
    /\ feed' = Tail(feed)
    /\ Dispatch("feed", FeedTable, Head(feed))
    /\ UNCHANGED <<brokerVars, solaceVars, streamVars>>

--------------------------------------------------------------------------------
(* Sessions *)

(* Connected, and subscribed to the tables modelled.                           *)
OpenSession(src) ==
    /\ src \notin open
    /\ open' = open \cup {src}
    /\ durable' = (durable \/ src = "stream")
    /\ UNCHANGED <<patterns, sent, faults, solaceVars, sub, acking, acked, feed, countVars>>

(* A session ends, and with it what its client has received and not handed     *)
(* over; a handler awaiting ack() gives up.  What is on the loop stays there.  *)
CloseSession(src) ==
    /\ src \in open /\ faults < MaxFaults
    /\ faults' = faults + 1
    /\ open' = open \ {src}
    /\ sdk' = IF src = "solace" THEN <<>> ELSE sdk
    /\ sub' = IF src = "stream" THEN <<>> ELSE sub
    /\ acking' = IF src = "stream" THEN 0 ELSE acking
    /\ feed' = IF src = "feed" THEN <<>> ELSE feed
    /\ UNCHANGED <<patterns, sent, calls, unrouted, acked, durable, countVars>>

Quiet ==
    /\ sdk = <<>> /\ calls = <<>> /\ sub = <<>> /\ acking = 0 /\ feed = <<>>
    /\ Len(sent) = MaxSent /\ From("stream") \subseteq acked
    /\ UNCHANGED vars

Next ==
    \/ \E topic \in Topics : SolacePublish(topic)
    \/ OnMessage \/ RunCall
    \/ StreamPublish \/ Deliver \/ Handle \/ Ack \/ AckFails
    \/ FeedSends \/ ReadFeed
    \/ \E src \in Sources : OpenSession(src) \/ CloseSession(src) \/ DispatchUnknown(src)
    \/ Quiet

(* The broker delivers to an open session, the handler runs, and the           *)
(* supervisor opens a session again, whose JetStream subscribe succeeds.       *)
Fairness ==
    /\ WF_vars(Deliver) /\ WF_vars(Handle) /\ WF_vars(Ack)
    /\ WF_vars(OpenSession("stream"))

Spec == Init /\ [][Next]_vars /\ Fairness

--------------------------------------------------------------------------------
(* Properties *)

TablesOf(src) ==
    CASE src = "solace" -> SolaceTables
      [] src = "stream" -> {StreamTable}
      [] src = "feed" -> {FeedTable}

(* Every message counted as received by the tables of a transport is a row of  *)
(* one of them or counted as a dispatch error of the transport, and so is      *)
(* every row and every dispatch error counted as received; a drop for a table  *)
(* that is not registered is no message received (base.py, _dispatch).         *)
CountersAgree ==
    \A src \in Sources :
        FoldSet(LAMBDA t, n : received[t] - Len(rows[t]) + n, 0, TablesOf(src)) = Len(dropped[src])

(* What a durable consumer has acknowledged has been through _dispatch: a      *)
(* session that ends, or an ack() that fails, never loses a message            *)
(* (nats.py, the handler of _subscribe_one).                                   *)
AckedWereDispatched == acked \subseteq Dispatched("stream", {StreamTable})

(* Two messages of one Solace or WebSocket connector reach a table in the      *)
(* order they came in, across threads and sessions (solace.py, on_message).    *)
InOrder ==
    \A t \in SolaceTables \cup {FeedTable} : IsSorted(rows[t], LAMBDA a, b : a < b)

(* With distinguishable patterns a Solace message finds a table, and it finds  *)
(* one whose subscription matches it.                                          *)
RoutedRight ==
    Distinguishable(patterns) =>
        /\ unrouted = {}
        /\ \A t \in SolaceTables : \A m \in ToSet(rows[t]) : Matches(patterns[t], sent[m].topic)

(* A message published for a durable consumer that exists is dispatched sooner *)
(* or later, whatever sessions and acknowledgements are lost (nats.py, the     *)
(* handler of _subscribe_one).                                                 *)
StreamIsDispatched ==
    \A m \in Ids : m \in From("stream") ~> m \in Dispatched("stream", {StreamTable})

(* The topic of a table is a Solace topic, the one its rows are published on   *)
(* (the comment on the field of TableConfig).                                  *)
RowsMatchTopic ==
    \A t \in SolaceTables : \A m \in ToSet(rows[t]) : Matches(patterns[t], sent[m].topic)

================================================================================
