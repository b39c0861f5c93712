------------------------------ MODULE IngestProofs ------------------------------
(***************************************************************************)
(* What holds of the hot path for any number of Solace tables, any topics, *)
(* messages and faults: its types, that no message is acknowledged before  *)
(* it was dispatched, that a table's rows stand in the order in which its  *)
(* messages came in, that the counters of tables and transports agree, and *)
(* that patterns which can be told apart send each message the right way.  *)
(***************************************************************************)
EXTENDS Ingest, Recursion, SequenceTheorems, TLAPS

(* A set of places in the registry has a first and a last one.                 *)
LEMMA Extremes ==
    ASSUME NEW n \in Nat, NEW T \in SUBSET (1 .. n), T # {}
    PROVE  Min(T) \in T /\ Max(T) \in T
<1>1. \E x \in T : \A y \in T : x <= y
  BY LeastOf
<1> DEFINE D == { n - x : x \in T }
<1>2. D \in SUBSET Nat /\ D # {}
  <2>1. \A x \in T : n - x \in Nat
    OBVIOUS
  <2>2. PICK x \in T : TRUE
    OBVIOUS
  <2>3. n - x \in D
    BY <2>2
  <2> QED BY <2>1, <2>3
<1>3. \E x \in D : \A y \in D : x <= y
  BY <1>2, LeastOf
<1>4. \E x \in T : \A y \in T : x >= y
  BY <1>3
<1> QED BY <1>1, <1>4 DEF Min, Max

LEMMA RouteFinds ==
    ASSUME NEW n \in Nat, NEW S, NEW pats \in [1 .. n -> S], NEW topic
    PROVE  Route(pats, topic) \in 0 .. n
<1> DEFINE hits == { i \in DOMAIN pats : IsPrefix(Prefix(pats[i]), Text(topic)) }
           same == { i \in DOMAIN pats : pats[i] = pats[Min(hits)] }
<1>1. CASE hits = {}
  BY <1>1 DEF Route
<1>2. CASE hits # {}
  <2>1. Min(hits) \in hits /\ hits \subseteq 1 .. n
    BY <1>2, Extremes
  <2>2. same # {} /\ same \subseteq 1 .. n
    BY <2>1
  <2>3. Max(same) \in 1 .. n
    BY <2>2, Extremes
  <2> QED BY <1>2, <2>3 DEF Route
<1> QED BY <1>1, <1>2

(* A dispatch to a table of the registry counts the message as received.       *)
LEMMA RegisteredDispatch ==
    ASSUME NEW src, NEW t \in Tables, NEW m, Dispatch(src, t, m)
    PROVE  /\ received' = [received EXCEPT ![t] = received[t] + 1]
           /\ IF sent[m].good
              THEN rows' = [rows EXCEPT ![t] = Append(rows[t], m)] /\ dropped' = dropped
              ELSE dropped' = [dropped EXCEPT ![src] = Append(dropped[src], m)] /\ rows' = rows
           /\ unknown' = unknown
BY DEF Dispatch

(* A dispatch to any other touches the count of those drops and nothing else.  *)
LEMMA UnknownDispatch ==
    ASSUME IngestTypeOK, NEW src \in Sources, DispatchUnknown(src)
    PROVE  /\ UNCHANGED <<patterns, sent, open, sdk, calls, unrouted>>
           /\ UNCHANGED <<sub, acking, acked, durable, feed, received, rows, dropped>>
           /\ unknown' \in [Sources -> Nat] /\ faults' \in 0 .. MaxFaults
<1>1. 0 \notin Tables
  BY DEF Tables
<1>2. unknown' = [unknown EXCEPT ![src] = unknown[src] + 1] /\ UNCHANGED <<received, rows, dropped>>
  BY <1>1 DEF DispatchUnknown, Dispatch
<1>3. unknown' \in [Sources -> Nat]
  BY <1>2 DEF IngestTypeOK
<1>4. faults' \in 0 .. MaxFaults
  BY IngestAssumption DEF DispatchUnknown, IngestTypeOK
<1> QED BY <1>2, <1>3, <1>4 DEF DispatchUnknown, solaceVars, streamVars

(* What one dispatch to a table of the registry does: the message becomes a    *)
(* row or a drop, and nothing else changes.                                    *)
LEMMA DispatchDoes ==
    ASSUME IngestTypeOK, NEW src \in Sources, NEW t \in Tables, NEW m \in Ids, Dispatch(src, t, m)
    PROVE  /\ received' \in [Tables -> Nat]
           /\ rows' \in [Tables -> Seq(Ids)]
           /\ dropped' \in [Sources -> Seq(Ids)] /\ unknown' = unknown
           /\ \A u \in Tables : rows'[u] = rows[u] \/ (u = t /\ rows'[u] = Append(rows[u], m))
           /\ \A s \in Sources : dropped'[s] = dropped[s] \/ (s = src /\ dropped'[s] = Append(dropped[s], m))
           /\ rows'[t] = Append(rows[t], m) \/ dropped'[src] = Append(dropped[src], m)
<1>1. /\ received \in [Tables -> Nat] /\ rows \in [Tables -> Seq(Ids)]
      /\ dropped \in [Sources -> Seq(Ids)]
  BY DEF IngestTypeOK
<1>2. Append(rows[t], m) \in Seq(Ids) /\ Append(dropped[src], m) \in Seq(Ids)
  BY <1>1
<1>3. received' \in [Tables -> Nat] /\ unknown' = unknown
  BY <1>1, RegisteredDispatch
<1>4. CASE rows' = [rows EXCEPT ![t] = Append(rows[t], m)] /\ dropped' = dropped
  <2>1. rows' \in [Tables -> Seq(Ids)] /\ dropped' \in [Sources -> Seq(Ids)]
    BY <1>1, <1>2, <1>4
  <2>2. rows'[t] = Append(rows[t], m) /\ \A u \in Tables \ {t} : rows'[u] = rows[u]
    BY <1>1, <1>4
  <2>3. \A u \in Tables : rows'[u] = rows[u] \/ (u = t /\ rows'[u] = Append(rows[u], m))
    BY <1>4, <2>2, Zenon
  <2>4. \A s \in Sources : dropped'[s] = dropped[s] \/ (s = src /\ dropped'[s] = Append(dropped[s], m))
    BY <1>4, <2>2, Zenon
  <2> QED BY <1>3, <2>1, <2>2, <2>3, <2>4, Zenon
<1>5. CASE dropped' = [dropped EXCEPT ![src] = Append(dropped[src], m)] /\ rows' = rows
  <2>1. rows' \in [Tables -> Seq(Ids)] /\ dropped' \in [Sources -> Seq(Ids)]
    BY <1>1, <1>2, <1>5
  <2>2. dropped'[src] = Append(dropped[src], m) /\ \A s \in Sources \ {src} : dropped'[s] = dropped[s]
    BY <1>1, <1>5
  <2>3. \A u \in Tables : rows'[u] = rows[u] \/ (u = t /\ rows'[u] = Append(rows[u], m))
    BY <1>5, <2>2, Zenon
  <2>4. \A s \in Sources : dropped'[s] = dropped[s] \/ (s = src /\ dropped'[s] = Append(dropped[s], m))
    BY <1>5, <2>2, Zenon
  <2> QED BY <1>3, <2>1, <2>2, <2>3, <2>4, Zenon
<1>6. \/ rows' = [rows EXCEPT ![t] = Append(rows[t], m)] /\ dropped' = dropped
      \/ dropped' = [dropped EXCEPT ![src] = Append(dropped[src], m)] /\ rows' = rows
  BY RegisteredDispatch
<1> QED BY <1>4, <1>5, <1>6, Zenon

LEMMA TableKinds ==
    /\ SolaceTables \subseteq Tables /\ StreamTable \in Tables /\ FeedTable \in Tables
    /\ StreamTable \notin SolaceTables /\ FeedTable \notin SolaceTables /\ StreamTable # FeedTable
    /\ {"solace", "stream", "feed"} = Sources
BY IngestAssumption DEF SolaceTables, StreamTable, FeedTable, Tables, Sources

LEMMA IngestStart == Init => IngestTypeOK
<1> SUFFICES ASSUME Init PROVE IngestTypeOK
  OBVIOUS
<1>1. /\ sent \in Seq([source : Sources, topic : Topics \cup {<<>>}, good : BOOLEAN])
      /\ Len(sent) <= MaxSent /\ faults \in 0 .. MaxFaults
  BY IngestAssumption DEF Init
<1>2. /\ sdk \in Seq(Ids) /\ calls \in Seq([table : SolaceTables, message : Ids])
      /\ sub \in Seq(Ids) /\ feed \in Seq(Ids)
  BY DEF Init
<1>3. received \in [Tables -> Nat] /\ rows \in [Tables -> Seq(Ids)] /\ dropped \in [Sources -> Seq(Ids)]
      /\ unknown \in [Sources -> Nat]
  BY DEF Init
<1> QED BY <1>1, <1>2, <1>3 DEF Init, IngestTypeOK

(* Publishing takes the next number, which is new and within the bound.        *)
LEMMA PublishDoes ==
    ASSUME IngestTypeOK, NEW src \in Sources, NEW topic \in Topics \cup {<<>>}, Publish(src, topic)
    PROVE  /\ sent' \in Seq([source : Sources, topic : Topics \cup {<<>>}, good : BOOLEAN])
           /\ Len(sent') = Len(sent) + 1 /\ Len(sent') \in Ids /\ Len(sent) \in Nat
           /\ Len(sent') <= MaxSent
<1>1. PICK good \in BOOLEAN :
        sent' = Append(sent, [source |-> src, topic |-> topic, good |-> good])
  BY DEF Publish
<1>2. sent \in Seq([source : Sources, topic : Topics \cup {<<>>}, good : BOOLEAN]) /\ Len(sent) < MaxSent
  BY DEF IngestTypeOK, Publish
<1> QED BY <1>1, <1>2, IngestAssumption DEF Ids

LEMMA IngestTypeStep == IngestTypeOK /\ [Next]_vars => IngestTypeOK'
<1> SUFFICES ASSUME IngestTypeOK, [Next]_vars PROVE IngestTypeOK'
  OBVIOUS
<1> USE TableKinds, IngestAssumption DEF IngestTypeOK, brokerVars, solaceVars, streamVars, countVars
<1>1. ASSUME NEW topic \in Topics, SolacePublish(topic) PROVE IngestTypeOK'
  <2>1. Publish("solace", topic) /\ sdk' = Append(sdk, Len(sent'))
    BY <1>1 DEF SolacePublish
  <2>2. /\ sent' \in Seq([source : Sources, topic : Topics \cup {<<>>}, good : BOOLEAN])
        /\ Len(sent') <= MaxSent /\ Len(sent') \in Ids
    BY <2>1, PublishDoes
  <2>3. sdk' \in Seq(Ids)
    BY <2>1, <2>2, AppendProperties
  <2> QED BY <1>1, <2>2, <2>3 DEF SolacePublish
<1>2. CASE OnMessage
  <2> DEFINE t == Route(patterns, sent[Head(sdk)].topic)
  <2>1. t \in 0 .. SolaceCount
    BY RouteFinds, IngestAssumption DEF SolaceTables
  <2>2. sdk # <<>> /\ Head(sdk) \in Ids /\ sdk' = Tail(sdk) /\ sdk' \in Seq(Ids)
    BY <1>2 DEF OnMessage
  <2>3. \/ t = 0 /\ unrouted' = unrouted \cup {Head(sdk)} /\ calls' = calls
        \/ t # 0 /\ calls' = Append(calls, [table |-> t, message |-> Head(sdk)]) /\ unrouted' = unrouted
    BY <1>2 DEF OnMessage
  <2> HIDE DEF t
  <2>4. unrouted' \subseteq Ids /\ calls' \in Seq([table : SolaceTables, message : Ids])
    <3>1. CASE t = 0
      BY <2>2, <2>3, <3>1
    <3>2. CASE t # 0
      <4>1. [table |-> t, message |-> Head(sdk)] \in [table : SolaceTables, message : Ids]
        BY <2>1, <2>2, <3>2 DEF SolaceTables
      <4>2. PICK c \in [table : SolaceTables, message : Ids] : c = [table |-> t, message |-> Head(sdk)]
        BY <4>1
      <4>3. calls' = Append(calls, c) /\ unrouted' = unrouted
        BY <2>3, <3>2, <4>2
      <4> QED BY <4>3
    <3> QED BY <3>1, <3>2
  <2> QED BY <1>2, <2>2, <2>4 DEF OnMessage
<1>3. CASE RunCall
  <2>1. PICK c \in [table : SolaceTables, message : Ids] : c = Head(calls)
    BY <1>3, HeadTailProperties DEF RunCall
  <2>2. Dispatch("solace", c.table, c.message)
    BY <1>3, <2>1 DEF RunCall
  <2>3. c.table \in Tables /\ c.message \in Ids
    OBVIOUS
  <2>4. calls' \in Seq([table : SolaceTables, message : Ids])
    BY <1>3 DEF RunCall
  <2> QED BY <1>3, <2>2, <2>3, <2>4, DispatchDoes DEF RunCall
<1>4. CASE StreamPublish
  <2>1. Publish("stream", <<>>)
    BY <1>4 DEF StreamPublish
  <2> QED BY <1>4, <2>1, PublishDoes DEF StreamPublish
<1>5. CASE Deliver
  <2>1. PICK m \in From("stream") : sub' = Append(sub, m)
    BY <1>5 DEF Deliver
  <2>2. m \in Ids
    BY IngestAssumption DEF From, Published, Ids
  <2> QED BY <1>5, <2>1, <2>2 DEF Deliver
<1>6. CASE Handle
  <2>1. PICK m \in Ids : m = Head(sub)
    BY <1>6, HeadTailProperties DEF Handle
  <2>2. Dispatch("stream", StreamTable, m) /\ sub' \in Seq(Ids) /\ acking' = m
    BY <1>6, <2>1 DEF Handle
  <2> QED BY <1>6, <2>2, DispatchDoes DEF Handle
<1>7. CASE Ack
  BY <1>7 DEF Ack
<1>8. CASE AckFails
  BY <1>8 DEF AckFails
<1>9. CASE FeedSends
  <2>1. Publish("feed", <<>>) /\ feed' = Append(feed, Len(sent'))
    BY <1>9 DEF FeedSends
  <2>2. /\ sent' \in Seq([source : Sources, topic : Topics \cup {<<>>}, good : BOOLEAN])
        /\ Len(sent') <= MaxSent /\ Len(sent') \in Ids
    BY <2>1, PublishDoes
  <2>3. feed' \in Seq(Ids)
    BY <2>1, <2>2, AppendProperties
  <2> QED BY <1>9, <2>2, <2>3 DEF FeedSends
<1>10. CASE ReadFeed
  <2>1. PICK m \in Ids : m = Head(feed)
    BY <1>10 DEF ReadFeed
  <2>2. Dispatch("feed", FeedTable, m) /\ feed' \in Seq(Ids)
    BY <1>10, <2>1 DEF ReadFeed
  <2> QED BY <1>10, <2>2, DispatchDoes DEF ReadFeed
<1>11. ASSUME NEW src \in Sources, OpenSession(src) PROVE IngestTypeOK'
  BY <1>11 DEF OpenSession
<1>12. ASSUME NEW src \in Sources, CloseSession(src) PROVE IngestTypeOK'
  BY <1>12 DEF CloseSession
<1>13. CASE Quiet \/ UNCHANGED vars
  <2>1. /\ UNCHANGED <<patterns, sent, open, faults, sdk, calls, unrouted, sub, acking, acked, durable>>
        /\ UNCHANGED <<feed, received, rows, dropped, unknown>>
    BY <1>13 DEF Quiet, vars
  <2> QED BY <2>1
<1>14. ASSUME NEW src \in Sources, DispatchUnknown(src) PROVE IngestTypeOK'
  BY <1>14, UnknownDispatch
<1> QED BY <1>1, <1>2, <1>3, <1>4, <1>5, <1>6, <1>7, <1>8, <1>9, <1>10, <1>11, <1>12, <1>13, <1>14
    DEF Next

--------------------------------------------------------------------------------
(* Acknowledgements                                                            *)

(* The message whose ack() is awaited has been dispatched too.                 *)
AcksFollowDispatch == acked \cup (Ids \cap {acking}) \subseteq Dispatched("stream", {StreamTable})

LEMMA Appended ==
    ASSUME NEW S, NEW s \in Seq(S), NEW x \in S
    PROVE  ToSet(Append(s, x)) = ToSet(s) \cup {x}
<1>1. /\ DOMAIN Append(s, x) = 1 .. Len(s) + 1 /\ DOMAIN s = 1 .. Len(s) /\ Len(s) \in Nat
      /\ \A i \in 1 .. Len(s) : Append(s, x)[i] = s[i]
      /\ Append(s, x)[Len(s) + 1] = x
  OBVIOUS
<1> QED BY <1>1 DEF ToSet

(* Nothing that has been dispatched is taken back, and a dispatch adds.        *)
LEMMA DispatchAdds ==
    ASSUME IngestTypeOK, NEW src \in Sources, NEW t \in Tables, NEW m \in Ids, Dispatch(src, t, m)
    PROVE  /\ Dispatched("stream", {StreamTable}) \subseteq Dispatched("stream", {StreamTable})'
           /\ src = "stream" /\ t = StreamTable => m \in Dispatched("stream", {StreamTable})'
<1>1. rows \in [Tables -> Seq(Ids)] /\ dropped \in [Sources -> Seq(Ids)]
  BY DEF IngestTypeOK
<1>2. /\ \A u \in Tables : ToSet(Append(rows[u], m)) = ToSet(rows[u]) \cup {m}
      /\ \A s \in Sources : ToSet(Append(dropped[s], m)) = ToSet(dropped[s]) \cup {m}
  BY <1>1, Appended
<1>3. /\ \A u \in Tables : rows'[u] = rows[u] \/ (u = t /\ rows'[u] = Append(rows[u], m))
      /\ \A s \in Sources : dropped'[s] = dropped[s] \/ (s = src /\ dropped'[s] = Append(dropped[s], m))
      /\ rows'[t] = Append(rows[t], m) \/ dropped'[src] = Append(dropped[src], m)
  BY DispatchDoes
<1>4. /\ \A u \in Tables : ToSet(rows[u]) \subseteq ToSet(rows'[u])
      /\ \A s \in Sources : ToSet(dropped[s]) \subseteq ToSet(dropped'[s])
      /\ m \in ToSet(rows'[t]) \cup ToSet(dropped'[src])
  BY <1>2, <1>3, Zenon
<1>5. "stream" \in Sources /\ StreamTable \in Tables
  BY TableKinds
<1> QED BY <1>4, <1>5 DEF Dispatched

LEMMA AckStep == IngestTypeOK /\ AcksFollowDispatch /\ [Next]_vars => AcksFollowDispatch'
<1> SUFFICES ASSUME IngestTypeOK, AcksFollowDispatch, [Next]_vars PROVE AcksFollowDispatch'
  OBVIOUS
<1> DEFINE D == Dispatched("stream", {StreamTable})
<1>1. ASSUME D \subseteq D', acked' \subseteq acked \cup (Ids \cap {acking}),
             acking' \in {acking, 0} PROVE AcksFollowDispatch'
  BY <1>1 DEF AcksFollowDispatch, Ids
<1>2. ASSUME UNCHANGED <<rows, dropped>> PROVE D \subseteq D'
  BY <1>2 DEF Dispatched
<1>3. CASE RunCall
  <2>1. PICK c \in [table : SolaceTables, message : Ids] : c = Head(calls)
    BY <1>3, HeadTailProperties DEF RunCall, IngestTypeOK
  <2>2. Dispatch("solace", c.table, c.message)
    BY <1>3, <2>1 DEF RunCall
  <2>3. c.table \in Tables /\ c.message \in Ids
    BY TableKinds
  <2>4. D \subseteq D'
    BY <2>2, <2>3, TableKinds, DispatchAdds
  <2> QED BY <1>1, <1>3, <2>4 DEF RunCall, streamVars
<1>4. CASE Handle
  <2>1. PICK m \in Ids : m = Head(sub)
    BY <1>4, HeadTailProperties DEF Handle, IngestTypeOK
  <2>2. Dispatch("stream", StreamTable, m) /\ acking' = m /\ acked' = acked
    BY <1>4, <2>1 DEF Handle
  <2>3. D \subseteq D' /\ m \in D'
    BY <2>2, TableKinds, DispatchAdds
  <2> QED BY <2>2, <2>3 DEF AcksFollowDispatch
<1>5. CASE ReadFeed
  <2>1. PICK m \in Ids : m = Head(feed)
    BY <1>5, HeadTailProperties DEF ReadFeed, IngestTypeOK
  <2>2. Dispatch("feed", FeedTable, m)
    BY <1>5, <2>1 DEF ReadFeed
  <2>3. D \subseteq D'
    BY <2>2, TableKinds, DispatchAdds
  <2> QED BY <1>1, <1>5, <2>3 DEF ReadFeed, streamVars
<1>6. CASE Ack
  <2>1. acked' = acked \cup (Ids \cap {acking}) /\ acking' = 0
    BY <1>6 DEF Ack, IngestTypeOK
  <2> QED BY <1>1, <1>2, <1>6, <2>1 DEF Ack, countVars
<1>7. ASSUME UNCHANGED countVars, acked' = acked, acking' \in {acking, 0} PROVE AcksFollowDispatch'
  BY <1>1, <1>2, <1>7 DEF countVars
<1>12. ASSUME NEW src \in Sources, DispatchUnknown(src) PROVE AcksFollowDispatch'
  BY <1>1, <1>2, <1>12, UnknownDispatch
<1>8. ASSUME NEW topic \in Topics, SolacePublish(topic) PROVE AcksFollowDispatch'
  BY <1>7, <1>8 DEF SolacePublish, streamVars
<1>9. ASSUME NEW src \in Sources, OpenSession(src) \/ CloseSession(src) PROVE AcksFollowDispatch'
  BY <1>7, <1>9 DEF OpenSession, CloseSession
<1>10. CASE OnMessage \/ StreamPublish \/ Deliver \/ AckFails \/ FeedSends
  BY <1>7, <1>10 DEF OnMessage, StreamPublish, Deliver, AckFails, FeedSends, streamVars
<1>11. CASE Quiet \/ UNCHANGED vars
  BY <1>7, <1>11 DEF Quiet, vars, streamVars
<1> QED BY <1>3, <1>4, <1>5, <1>6, <1>8, <1>9, <1>10, <1>11, <1>12 DEF Next

(* No message of a durable consumer is acknowledged before it has been through *)
(* _dispatch, however many messages, lost acknowledgements and closed sessions *)
(* there are (nats.py, the handler of _subscribe_one).                         *)
THEOREM AcksAreSafe == Spec => [](IngestTypeOK /\ AckedWereDispatched)
<1>1. Init => AcksFollowDispatch
  BY DEF Init, AcksFollowDispatch, Ids
<1>2. AcksFollowDispatch => AckedWereDispatched
  BY DEF AcksFollowDispatch, AckedWereDispatched
<1> QED BY <1>1, <1>2, IngestStart, IngestTypeStep, AckStep, PTL DEF Spec

--------------------------------------------------------------------------------
(* Order                                                                       *)

Rising(s) == \A i, j \in 1 .. Len(s) : i < j => s[i] < s[j]
Ahead(s, w) == \A i \in 1 .. Len(s), j \in 1 .. Len(w) : s[i] < w[j]
Under(s, n) == \A i \in 1 .. Len(s) : s[i] <= n

(* Those of s came in before those of w, and each of them in their order.      *)
InLine(s, w) == Rising(s) /\ Rising(w) /\ Ahead(s, w)

(* The messages of the coroutines on the loop.                                 *)
Handed == [ i \in 1 .. Len(calls) |-> calls[i].message ]

(* A message is a row before all that wait on the loop, and those wait there   *)
(* before all that the SDK has still to hand over.                             *)
LinesKept ==
    /\ InLine(Handed, sdk) /\ Under(Handed, Len(sent)) /\ Under(sdk, Len(sent))
    /\ \A t \in SolaceTables :
         InLine(rows[t], Handed) /\ InLine(rows[t], sdk) /\ Under(rows[t], Len(sent))
    /\ InLine(rows[FeedTable], feed) /\ Under(rows[FeedTable], Len(sent)) /\ Under(feed, Len(sent))

(* A sequence that loses its head, and one that gains a last element.          *)
LEMMA TailIs ==
    ASSUME NEW S, NEW s \in Seq(S), s # <<>>
    PROVE  /\ Head(s) \in S /\ Head(s) = s[1] /\ Tail(s) \in Seq(S)
           /\ Len(s) \in Nat \ {0} /\ Len(Tail(s)) = Len(s) - 1
           /\ \A i \in 1 .. Len(Tail(s)) : Tail(s)[i] = s[i + 1] /\ i + 1 \in 1 .. Len(s)
OBVIOUS

LEMMA SeqIs ==
    ASSUME NEW S, NEW s \in Seq(S)
    PROVE  /\ Len(s) \in Nat /\ \A i \in 1 .. Len(s) : s[i] \in S
           /\ s = [ i \in 1 .. Len(s) |-> s[i] ]
OBVIOUS

LEMMA AppendIs ==
    ASSUME NEW S, NEW s \in Seq(S), NEW x \in S
    PROVE  /\ Append(s, x) \in Seq(S) /\ Len(s) \in Nat /\ Len(Append(s, x)) = Len(s) + 1
           /\ \A i \in 1 .. Len(s) : Append(s, x)[i] = s[i]
           /\ Append(s, x)[Len(s) + 1] = x
OBVIOUS

(* The first of w goes where the messages of s went, or nowhere.               *)
LEMMA HeadMoves ==
    ASSUME NEW s \in Seq(Nat), NEW w \in Seq(Nat), w # <<>>, InLine(s, w)
    PROVE  InLine(Append(s, Head(w)), Tail(w)) /\ InLine(s, Tail(w))
<1> DEFINE a == Append(s, Head(w))
           b == Tail(w)
<1>1. /\ Head(w) \in Nat /\ Head(w) = w[1] /\ Len(w) \in Nat \ {0} /\ Len(b) = Len(w) - 1
      /\ \A i \in 1 .. Len(b) : i \in Nat /\ i + 1 \in 1 .. Len(w) /\ b[i] = w[i + 1]
  BY TailIs
<1>2. /\ Len(s) \in Nat /\ Len(a) = Len(s) + 1 /\ a[Len(s) + 1] = w[1]
      /\ \A i \in 1 .. Len(s) : a[i] = s[i]
  BY <1>1, AppendIs
<1>3. \A i \in 1 .. Len(a) : i \in Nat /\ (i \in 1 .. Len(s) \/ i = Len(s) + 1)
  BY <1>2
<1>4. /\ \A i \in 1 .. Len(s) : s[i] \in Nat
      /\ \A i \in 1 .. Len(w) : w[i] \in Nat
  OBVIOUS
<1> HIDE DEF a, b
<1>5. Rising(a)
  <2> SUFFICES ASSUME NEW i \in 1 .. Len(a), NEW j \in 1 .. Len(a), i < j PROVE a[i] < a[j]
    BY DEF Rising
  <2>1. i \in 1 .. Len(s) /\ (j \in 1 .. Len(s) \/ j = Len(s) + 1)
    BY <1>2, <1>3
  <2>2. 1 \in 1 .. Len(w)
    BY <1>1
  <2> QED BY <1>1, <1>2, <2>1, <2>2 DEF Rising, Ahead, InLine
<1>6. Rising(b)
  <2> SUFFICES ASSUME NEW i \in 1 .. Len(b), NEW j \in 1 .. Len(b), i < j PROVE b[i] < b[j]
    BY DEF Rising
  <2>1. i + 1 \in 1 .. Len(w) /\ j + 1 \in 1 .. Len(w) /\ i + 1 < j + 1
    BY <1>1
  <2> QED BY <1>1, <2>1 DEF Rising, InLine
<1>7. Ahead(a, b) /\ Ahead(s, b)
  <2>1. ASSUME NEW i \in 1 .. Len(s), NEW j \in 1 .. Len(b) PROVE s[i] < b[j]
    BY <1>1 DEF Ahead, InLine
  <2>2. ASSUME NEW j \in 1 .. Len(b) PROVE a[Len(s) + 1] < b[j]
    <3>1. j + 1 \in 1 .. Len(w) /\ 1 \in 1 .. Len(w) /\ 1 < j + 1
      BY <1>1
    <3> QED BY <1>1, <1>2, <3>1 DEF Rising, InLine
  <2> QED BY <1>2, <1>3, <2>1, <2>2 DEF Ahead
<1> QED BY <1>5, <1>6, <1>7 DEF InLine, a, b

(* A message later than all others joins the end.                              *)
LEMMA JoinsLine ==
    ASSUME NEW s \in Seq(Nat), NEW w \in Seq(Nat), NEW x \in Nat, InLine(s, w),
           \A i \in 1 .. Len(s) : s[i] < x, \A i \in 1 .. Len(w) : w[i] < x
    PROVE  InLine(s, Append(w, x))
<1> DEFINE b == Append(w, x)
<1>1. /\ Len(w) \in Nat /\ Len(b) = Len(w) + 1 /\ b[Len(w) + 1] = x
      /\ \A i \in 1 .. Len(w) : b[i] = w[i]
      /\ \A i \in 1 .. Len(b) : i \in Nat /\ (i \in 1 .. Len(w) \/ i = Len(w) + 1)
  BY AppendIs
<1> HIDE DEF b
<1>2. Rising(b)
  <2> SUFFICES ASSUME NEW i \in 1 .. Len(b), NEW j \in 1 .. Len(b), i < j PROVE b[i] < b[j]
    BY DEF Rising
  <2>1. i \in 1 .. Len(w) /\ (j \in 1 .. Len(w) \/ j = Len(w) + 1)
    BY <1>1
  <2> QED BY <1>1, <2>1 DEF Rising, InLine
<1>3. Ahead(s, b)
  BY <1>1 DEF Ahead, InLine
<1> QED BY <1>2, <1>3 DEF InLine, b

(* What the first of w joins stays before what w stays before.                 *)
LEMMA HeadStaysAhead ==
    ASSUME NEW s \in Seq(Nat), NEW w \in Seq(Nat), NEW v \in Seq(Nat), w # <<>>,
           InLine(s, w), InLine(s, v), InLine(w, v)
    PROVE  InLine(Append(s, Head(w)), v) /\ InLine(Tail(w), v)
<1> DEFINE a == Append(s, Head(w))
           b == Tail(w)
<1>1. /\ Head(w) \in Nat /\ Head(w) = w[1] /\ Len(w) \in Nat \ {0} /\ Len(b) = Len(w) - 1
      /\ \A i \in 1 .. Len(b) : i \in Nat /\ i + 1 \in 1 .. Len(w) /\ b[i] = w[i + 1]
  BY TailIs
<1>2. /\ Len(s) \in Nat /\ Len(a) = Len(s) + 1 /\ a[Len(s) + 1] = w[1]
      /\ \A i \in 1 .. Len(s) : a[i] = s[i]
  BY <1>1, AppendIs
<1>3. \A i \in 1 .. Len(a) : i \in Nat /\ (i \in 1 .. Len(s) \/ i = Len(s) + 1)
  BY <1>2
<1>4. Rising(a) /\ Rising(b)
  BY HeadMoves DEF InLine
<1> HIDE DEF a, b
<1>5. Ahead(a, v)
  <2>1. 1 \in 1 .. Len(w)
    BY <1>1
  <2> QED BY <1>1, <1>2, <1>3, <2>1 DEF Ahead, InLine
<1>6. Ahead(b, v)
  BY <1>1 DEF Ahead, InLine
<1> QED BY <1>4, <1>5, <1>6 DEF InLine, a, b

LEMMA UnderMoves ==
    ASSUME NEW s \in Seq(Nat), NEW w \in Seq(Nat), NEW n \in Nat, w # <<>>, Under(s, n), Under(w, n)
    PROVE  Under(Append(s, Head(w)), n) /\ Under(Tail(w), n)
<1> DEFINE a == Append(s, Head(w))
           b == Tail(w)
<1>1. /\ Head(w) \in Nat /\ Head(w) = w[1] /\ Len(w) \in Nat \ {0} /\ Len(b) = Len(w) - 1
      /\ \A i \in 1 .. Len(b) : i \in Nat /\ i + 1 \in 1 .. Len(w) /\ b[i] = w[i + 1]
  BY TailIs
<1>2. /\ Len(s) \in Nat /\ Len(a) = Len(s) + 1 /\ a[Len(s) + 1] = w[1]
      /\ \A i \in 1 .. Len(s) : a[i] = s[i]
  BY <1>1, AppendIs
<1>3. \A i \in 1 .. Len(a) : i \in Nat /\ (i \in 1 .. Len(s) \/ i = Len(s) + 1)
  BY <1>2
<1> HIDE DEF a, b
<1>4. Under(a, n)
  <2>1. 1 \in 1 .. Len(w)
    BY <1>1
  <2> QED BY <1>1, <1>2, <1>3, <2>1 DEF Under
<1>5. Under(b, n)
  BY <1>1 DEF Under
<1> QED BY <1>4, <1>5 DEF a, b

LEMMA BeforeHead ==
    ASSUME NEW s \in Seq(Nat), NEW w \in Seq(Nat), w # <<>>, InLine(s, w)
    PROVE  \A i \in 1 .. Len(s) : s[i] < Head(w)
<1>1. Head(w) = w[1] /\ 1 \in 1 .. Len(w)
  BY TailIs
<1> QED BY <1>1 DEF InLine, Ahead

LEMMA UnderGrows ==
    ASSUME NEW s \in Seq(Nat), NEW n \in Nat, Under(s, n)
    PROVE  /\ Under(s, n + 1) /\ Under(Append(s, n + 1), n + 1)
           /\ \A i \in 1 .. Len(s) : s[i] < n + 1
<1>1. \A i \in 1 .. Len(s) : s[i] \in Nat /\ s[i] <= n
  BY DEF Under
<1> DEFINE b == Append(s, n + 1)
<1>2. /\ Len(s) \in Nat /\ Len(b) = Len(s) + 1 /\ b[Len(s) + 1] = n + 1
      /\ \A i \in 1 .. Len(s) : b[i] = s[i]
  BY AppendIs
<1>3. \A i \in 1 .. Len(b) : i \in 1 .. Len(s) \/ i = Len(s) + 1
  BY <1>2
<1> HIDE DEF b
<1>4. Under(b, n + 1)
  BY <1>1, <1>2, <1>3 DEF Under
<1> QED BY <1>1, <1>4 DEF Under, b

LEMMA EmptyLine ==
    ASSUME NEW s, NEW n, Rising(s)
    PROVE  InLine(s, <<>>) /\ Under(<<>>, n)
BY DEF InLine, Rising, Ahead, Under

(* The line of the loop moves with the calls on it.                            *)
LEMMA HandedMoves ==
    ASSUME calls \in Seq([table : SolaceTables, message : Ids])
    PROVE  /\ Handed \in Seq(Ids)
           /\ calls # <<>> => Handed # <<>> /\ Head(Handed) = Head(calls).message
           /\ calls # <<>> /\ calls' = Tail(calls) => Handed' = Tail(Handed)
           /\ \A c \in [table : SolaceTables, message : Ids] :
                calls' = Append(calls, c) => Handed' = Append(Handed, c.message)
<1>1. /\ Handed \in Seq(Ids) /\ Len(Handed) = Len(calls) /\ Len(calls) \in Nat
      /\ \A i \in 1 .. Len(calls) : Handed[i] = calls[i].message
  <2>1. Len(calls) \in Nat /\ \A i \in 1 .. Len(calls) : calls[i] \in [table : SolaceTables, message : Ids]
    BY SeqIs
  <2>2. \A i \in 1 .. Len(calls) : calls[i].message \in Ids
    BY <2>1
  <2> QED BY <2>1, <2>2 DEF Handed
<1>2. calls # <<>> => Handed # <<>> /\ Head(Handed) = Head(calls).message
  BY <1>1
<1>3. ASSUME calls # <<>>, calls' = Tail(calls) PROVE Handed' = Tail(Handed)
  <2>1. /\ Handed' = [ i \in 1 .. Len(Tail(calls)) |-> Tail(calls)[i].message ]
        /\ Len(Tail(calls)) = Len(calls) - 1
        /\ \A i \in 1 .. Len(Tail(calls)) : Tail(calls)[i] = calls[i + 1] /\ i + 1 \in 1 .. Len(calls)
    BY <1>3, TailIs DEF Handed
  <2>2. Handed' = [ i \in 1 .. Len(calls) - 1 |-> Handed[i + 1] ]
    BY <1>1, <2>1
  <2>3. /\ Tail(Handed) \in Seq(Ids) /\ Len(Tail(Handed)) = Len(calls) - 1
        /\ \A i \in 1 .. Len(calls) - 1 : Tail(Handed)[i] = Handed[i + 1]
    BY <1>1, <1>2, <1>3, TailIs
  <2>4. Tail(Handed) = [ i \in 1 .. Len(Tail(Handed)) |-> Tail(Handed)[i] ]
    BY <2>3, SeqIs, Zenon
  <2> QED BY <2>2, <2>3, <2>4
<1>4. ASSUME NEW c \in [table : SolaceTables, message : Ids], calls' = Append(calls, c)
      PROVE  Handed' = Append(Handed, c.message)
  <2>1. /\ Handed' = [ i \in 1 .. Len(calls) + 1 |-> Append(calls, c)[i].message ]
        /\ \A i \in 1 .. Len(calls) : Append(calls, c)[i] = calls[i]
        /\ Append(calls, c)[Len(calls) + 1] = c
    BY <1>4, AppendIs DEF Handed
  <2>2. Handed' = [ i \in 1 .. Len(calls) + 1 |-> IF i = Len(calls) + 1 THEN c.message ELSE Handed[i] ]
    BY <1>1, <2>1
  <2>3. c.message \in Ids
    OBVIOUS
  <2> QED BY <1>1, <2>2, <2>3
<1> QED BY <1>1, <1>2, <1>3, <1>4

LEMMA LineTypes ==
    ASSUME IngestTypeOK
    PROVE  /\ sdk \in Seq(Nat) /\ Handed \in Seq(Nat) /\ feed \in Seq(Nat)
           /\ calls \in Seq([table : SolaceTables, message : Ids]) /\ Len(sent) \in Nat
           /\ \A t \in Tables : rows[t] \in Seq(Nat)
           /\ sdk # <<>> => Head(sdk) \in Ids /\ Head(sdk) \in Nat
           /\ feed # <<>> => Head(feed) \in Ids /\ Head(feed) \in Nat
<1>1. /\ sdk \in Seq(Ids) /\ feed \in Seq(Ids) /\ calls \in Seq([table : SolaceTables, message : Ids])
      /\ rows \in [Tables -> Seq(Ids)] /\ Len(sent) \in Nat
  BY DEF IngestTypeOK
<1>2. Handed \in Seq(Ids)
  BY <1>1, HandedMoves
<1>3. Ids \subseteq Nat
  BY DEF Ids
<1>4. Seq(Ids) \subseteq Seq(Nat)
  BY <1>3, SeqMonotonic
<1>5. /\ sdk # <<>> => Head(sdk) \in Ids
      /\ feed # <<>> => Head(feed) \in Ids
  BY <1>1
<1> QED BY <1>1, <1>2, <1>3, <1>4, <1>5

LEMMA SolaceLineStep ==
    ASSUME IngestTypeOK, LinesKept, OnMessage \/ RunCall
    PROVE  LinesKept'
<1>1. /\ sdk \in Seq(Nat) /\ Handed \in Seq(Nat) /\ feed \in Seq(Nat)
      /\ calls \in Seq([table : SolaceTables, message : Ids]) /\ Len(sent) \in Nat
      /\ \A t \in Tables : rows[t] \in Seq(Nat)
  BY LineTypes
<1>2. /\ InLine(Handed, sdk) /\ Under(Handed, Len(sent)) /\ Under(sdk, Len(sent))
      /\ \A t \in SolaceTables :
           InLine(rows[t], Handed) /\ InLine(rows[t], sdk) /\ Under(rows[t], Len(sent))
  BY DEF LinesKept
<1>3. CASE OnMessage
  <2>1. sdk # <<>> /\ sdk' = Tail(sdk) /\ UNCHANGED <<sent, rows, feed>>
    BY <1>3 DEF OnMessage, brokerVars, countVars
  <2>2. Head(sdk) \in Ids /\ Head(sdk) \in Nat
    BY <2>1, LineTypes
  <2>3. /\ InLine(Append(Handed, Head(sdk)), Tail(sdk)) /\ InLine(Handed, Tail(sdk))
        /\ Under(Append(Handed, Head(sdk)), Len(sent)) /\ Under(Tail(sdk), Len(sent))
    BY <1>1, <1>2, <2>1, HeadMoves, UnderMoves
  <2>4. \A t \in SolaceTables :
          InLine(rows[t], Tail(sdk)) /\ InLine(rows[t], Append(Handed, Head(sdk)))
    <3> SUFFICES ASSUME NEW t \in SolaceTables
                 PROVE  InLine(rows[t], Tail(sdk)) /\ InLine(rows[t], Append(Handed, Head(sdk)))
      OBVIOUS
    <3>1. rows[t] \in Seq(Nat)
      BY <1>1, TableKinds
    <3>2. InLine(rows[t], Tail(sdk))
      BY <1>1, <1>2, <2>1, <3>1, HeadMoves
    <3>3. /\ \A i \in 1 .. Len(rows[t]) : rows[t][i] < Head(sdk)
          /\ \A i \in 1 .. Len(Handed) : Handed[i] < Head(sdk)
      BY <1>1, <1>2, <2>1, <3>1, BeforeHead
    <3> QED BY <1>1, <1>2, <2>2, <3>1, <3>2, <3>3, JoinsLine
  <2>5. Handed' = Handed \/ Handed' = Append(Handed, Head(sdk))
    <3> DEFINE r == Route(patterns, sent[Head(sdk)].topic)
    <3>1. r \in 0 .. SolaceCount
      BY RouteFinds, IngestAssumption DEF SolaceTables, IngestTypeOK
    <3>2. calls' = calls \/ (r # 0 /\ calls' = Append(calls, [table |-> r, message |-> Head(sdk)]))
      BY <1>3 DEF OnMessage
    <3> HIDE DEF r
    <3>3. CASE calls' = calls
      BY <3>3 DEF Handed
    <3>4. CASE r # 0 /\ calls' = Append(calls, [table |-> r, message |-> Head(sdk)])
      <4>1. [table |-> r, message |-> Head(sdk)] \in [table : SolaceTables, message : Ids]
        BY <2>2, <3>1, <3>4 DEF SolaceTables
      <4>2. PICK c \in [table : SolaceTables, message : Ids] : c = [table |-> r, message |-> Head(sdk)]
        BY <4>1
      <4>3. Handed' = Append(Handed, c.message)
        BY <1>1, <3>4, <4>2, HandedMoves
      <4> QED BY <4>2, <4>3
    <3> QED BY <3>2, <3>3, <3>4
  <2> QED BY <1>2, <2>1, <2>3, <2>4, <2>5 DEF LinesKept
<1>4. CASE RunCall
  <2>1. PICK c \in [table : SolaceTables, message : Ids] : c = Head(calls)
    BY <1>4, HeadTailProperties DEF RunCall, IngestTypeOK
  <2>2. /\ c.table \in SolaceTables /\ c.table \in Tables /\ c.message \in Ids
        /\ Dispatch("solace", c.table, c.message)
        /\ calls # <<>> /\ calls' = Tail(calls) /\ UNCHANGED <<sent, sdk, feed>>
    BY <1>4, <2>1, TableKinds DEF RunCall, brokerVars
  <2>3. Handed # <<>> /\ Head(Handed) = c.message /\ Handed' = Tail(Handed)
    BY <1>1, <2>1, <2>2, HandedMoves
  <2>4. ASSUME NEW t \in SolaceTables, NEW r \in {rows[t], Append(rows[t], c.message)}
        PROVE  /\ InLine(r, Tail(Handed)) /\ InLine(r, sdk) /\ Under(r, Len(sent))
               /\ InLine(Tail(Handed), sdk) /\ Under(Tail(Handed), Len(sent))
    <3>1. rows[t] \in Seq(Nat)
      BY <1>1, TableKinds
    <3>2. /\ InLine(Append(rows[t], c.message), Tail(Handed)) /\ InLine(rows[t], Tail(Handed))
          /\ InLine(Append(rows[t], c.message), sdk) /\ InLine(Tail(Handed), sdk)
          /\ Under(Append(rows[t], c.message), Len(sent)) /\ Under(Tail(Handed), Len(sent))
      BY <1>1, <1>2, <2>3, <3>1, HeadMoves, HeadStaysAhead, UnderMoves
    <3> QED BY <1>2, <3>2
  <2>5. /\ \A t \in SolaceTables : rows'[t] \in {rows[t], Append(rows[t], c.message)}
        /\ rows'[FeedTable] = rows[FeedTable]
    <3>1. "solace" \in Sources
      BY TableKinds
    <3>2. PICK t \in SolaceTables, m \in Ids : t = c.table /\ m = c.message
      BY <2>2
    <3>3. t \in Tables /\ Dispatch("solace", t, m)
      BY <2>2, <3>2
    <3>4. \A u \in Tables : rows'[u] = rows[u] \/ (u = t /\ rows'[u] = Append(rows[u], m))
      BY <3>1, <3>3, DispatchDoes
    <3> QED BY <3>2, <3>4, TableKinds
  <2>6. \A t \in SolaceTables :
          InLine(rows'[t], Tail(Handed)) /\ InLine(rows'[t], sdk) /\ Under(rows'[t], Len(sent))
    BY <2>4, <2>5
  <2>7. InLine(Tail(Handed), sdk) /\ Under(Tail(Handed), Len(sent))
    BY <2>2, <2>4
  <2> QED BY <2>2, <2>3, <2>5, <2>6, <2>7 DEF LinesKept
<1> QED BY <1>3, <1>4

LEMMA FeedLineStep ==
    ASSUME IngestTypeOK, LinesKept, Handle \/ ReadFeed
    PROVE  LinesKept'
<1>1. PICK src \in {"stream", "feed"}, t \in {StreamTable, FeedTable}, m \in Ids :
        /\ Dispatch(src, t, m)
        /\ UNCHANGED <<sent, sdk, calls>>
        /\ \/ t = StreamTable /\ feed' = feed
           \/ t = FeedTable /\ feed # <<>> /\ m = Head(feed) /\ feed' = Tail(feed)
  <2>1. CASE Handle
    <3>1. PICK m \in Ids : m = Head(sub)
      BY <2>1, HeadTailProperties DEF Handle, IngestTypeOK
    <3> QED BY <2>1, <3>1 DEF Handle, brokerVars, solaceVars
  <2>2. CASE ReadFeed
    <3>1. PICK m \in Ids : m = Head(feed)
      BY <2>2, HeadTailProperties DEF ReadFeed, IngestTypeOK
    <3> QED BY <2>2, <3>1 DEF ReadFeed, brokerVars, solaceVars
  <2> QED BY <2>1, <2>2
<1>2. src \in Sources /\ t \in Tables
  BY TableKinds
<1>3. \A u \in Tables : rows'[u] = rows[u] \/ (u = t /\ rows'[u] = Append(rows[u], m))
  BY <1>1, <1>2, DispatchDoes, Zenon
<1>4. /\ \A u \in SolaceTables : rows'[u] = rows[u]
      /\ t = StreamTable => rows'[FeedTable] = rows[FeedTable]
      /\ rows'[FeedTable] \in {rows[FeedTable], Append(rows[FeedTable], m)}
  BY <1>3, TableKinds
<1>5. Handed' = Handed
  BY <1>1 DEF Handed
<1>6. feed \in Seq(Nat) /\ rows[FeedTable] \in Seq(Nat) /\ Len(sent) \in Nat
  BY LineTypes, TableKinds
<1>7. InLine(rows'[FeedTable], feed') /\ Under(rows'[FeedTable], Len(sent)) /\ Under(feed', Len(sent))
  <2>1. /\ InLine(rows[FeedTable], feed) /\ Under(rows[FeedTable], Len(sent)) /\ Under(feed, Len(sent))
    BY DEF LinesKept
  <2>2. CASE t = StreamTable /\ feed' = feed
    BY <1>4, <2>1, <2>2
  <2>3. CASE feed # <<>> /\ m = Head(feed) /\ feed' = Tail(feed)
    BY <1>4, <1>6, <2>1, <2>3, HeadMoves, UnderMoves
  <2> QED BY <1>1, <2>2, <2>3
<1> QED BY <1>1, <1>4, <1>5, <1>7 DEF LinesKept

LEMMA PublishLineStep ==
    ASSUME IngestTypeOK, LinesKept, NEW src \in Sources, NEW topic \in Topics \cup {<<>>},
           Publish(src, topic), UNCHANGED <<calls, rows>>,
           sdk' = sdk \/ sdk' = Append(sdk, Len(sent')), feed' = feed \/ feed' = Append(feed, Len(sent'))
    PROVE  LinesKept'
<1>1. Len(sent') = Len(sent) + 1 /\ Len(sent) \in Nat /\ Len(sent) + 1 \in Nat
  BY PublishDoes
<1>2. /\ sdk \in Seq(Nat) /\ Handed \in Seq(Nat) /\ feed \in Seq(Nat)
      /\ \A t \in SolaceTables \cup {FeedTable} : rows[t] \in Seq(Nat)
  BY LineTypes, TableKinds
<1>3. Handed' = Handed
  BY DEF Handed
<1>4. ASSUME NEW s \in Seq(Nat), Under(s, Len(sent))
      PROVE  /\ Under(s, Len(sent) + 1) /\ Under(Append(s, Len(sent) + 1), Len(sent) + 1)
             /\ \A i \in 1 .. Len(s) : s[i] < Len(sent) + 1
  BY <1>1, <1>4, UnderGrows
<1>5. ASSUME NEW s \in Seq(Nat), NEW w \in Seq(Nat), InLine(s, w), Under(s, Len(sent)), Under(w, Len(sent))
      PROVE  InLine(s, Append(w, Len(sent) + 1))
  BY <1>1, <1>4, <1>5, JoinsLine
<1>6. /\ InLine(Handed, sdk') /\ Under(Handed, Len(sent) + 1) /\ Under(sdk', Len(sent) + 1)
  BY <1>1, <1>2, <1>4, <1>5 DEF LinesKept
<1>7. \A t \in SolaceTables :
        InLine(rows[t], Handed) /\ InLine(rows[t], sdk') /\ Under(rows[t], Len(sent) + 1)
  BY <1>1, <1>2, <1>4, <1>5 DEF LinesKept
<1>8. InLine(rows[FeedTable], feed') /\ Under(rows[FeedTable], Len(sent) + 1) /\ Under(feed', Len(sent) + 1)
  BY <1>1, <1>2, <1>4, <1>5 DEF LinesKept
<1> QED BY <1>1, <1>3, <1>6, <1>7, <1>8 DEF LinesKept

LEMMA LineStep == IngestTypeOK /\ LinesKept /\ [Next]_vars => LinesKept'
<1> SUFFICES ASSUME IngestTypeOK, LinesKept, [Next]_vars PROVE LinesKept'
  OBVIOUS
<1>1. CASE OnMessage \/ RunCall
  BY <1>1, SolaceLineStep
<1>2. CASE Handle \/ ReadFeed
  BY <1>2, FeedLineStep
<1>3. ASSUME NEW topic \in Topics, SolacePublish(topic) PROVE LinesKept'
  BY <1>3, TableKinds, PublishLineStep DEF SolacePublish, countVars
<1>4. CASE StreamPublish
  BY <1>4, TableKinds, PublishLineStep DEF StreamPublish, solaceVars, countVars
<1>5. CASE FeedSends
  BY <1>5, TableKinds, PublishLineStep DEF FeedSends, solaceVars, countVars
<1>6. ASSUME UNCHANGED <<sent, calls, rows>>, sdk' \in {sdk, <<>>}, feed' \in {feed, <<>>} PROVE LinesKept'
  <2>1. Handed' = Handed
    BY <1>6 DEF Handed
  <2>2. \A t \in SolaceTables \cup {FeedTable} : Rising(rows[t])
    BY DEF LinesKept, InLine
  <2>3. Rising(Handed)
    BY DEF LinesKept, InLine
  <2> QED BY <1>6, <2>1, <2>2, <2>3, EmptyLine DEF LinesKept
<1>7. ASSUME NEW src \in Sources, OpenSession(src) \/ CloseSession(src) PROVE LinesKept'
  BY <1>6, <1>7 DEF OpenSession, CloseSession, solaceVars, countVars
<1>8. CASE Deliver \/ Ack \/ AckFails
  BY <1>6, <1>8 DEF Deliver, Ack, AckFails, brokerVars, solaceVars, countVars
<1>9. CASE Quiet \/ UNCHANGED vars
  BY <1>6, <1>9 DEF Quiet, vars, brokerVars, solaceVars, countVars
<1>10. ASSUME NEW src \in Sources, DispatchUnknown(src) PROVE LinesKept'
  BY <1>6, <1>10, UnknownDispatch
<1> QED BY <1>1, <1>2, <1>3, <1>4, <1>5, <1>7, <1>8, <1>9, <1>10 DEF Next

(* The rows of a Solace or WebSocket table stand in the order in which its     *)
(* messages were published, across the SDK's thread, the loop and any number   *)
(* of sessions (solace.py, on_message; base.py, _dispatch).                    *)
THEOREM RowsInOrder == Spec => []InOrder
<1>1. Init => LinesKept
  <2> SUFFICES ASSUME Init PROVE LinesKept
    OBVIOUS
  <2>1. /\ calls = <<>> /\ sdk = <<>> /\ feed = <<>> /\ sent = <<>>
        /\ \A t \in SolaceTables \cup {FeedTable} : rows[t] = <<>>
    BY TableKinds DEF Init
  <2>2. Handed = <<>>
    BY <2>1 DEF Handed
  <2>3. InLine(<<>>, <<>>) /\ Under(<<>>, Len(<<>>))
    BY DEF InLine, Rising, Ahead, Under
  <2> QED BY <2>1, <2>2, <2>3 DEF LinesKept
<1>2. IngestTypeOK /\ LinesKept => InOrder
  <2> SUFFICES ASSUME LinesKept, NEW t \in SolaceTables \cup {FeedTable}
               PROVE  IsSorted(rows[t], LAMBDA a, b : a < b)
    BY DEF InOrder
  <2>1. Rising(rows[t])
    BY DEF LinesKept, InLine
  <2> QED BY <2>1 DEF IsSorted, Rising
<1> QED BY <1>1, <1>2, IngestStart, IngestTypeStep, LineStep, PTL DEF Spec

--------------------------------------------------------------------------------
(* Counters                                                                    *)

(* What the tables of T have counted and not got as rows.                      *)
Gap(r, w, T) == [t \in T |-> r[t] - Len(w[t])]
Lacking(r, w, T) == FoldSet(LAMBDA t, n : r[t] - Len(w[t]) + n, 0, T)

LEMMA LackingIs ==
    ASSUME NEW T, IsFiniteSet(T), NEW r, NEW w, Gap(r, w, T) \in [T -> Int]
    PROVE  Lacking(r, w, T) = Total(Gap(r, w, T), T)
<1> DEFINE g == Gap(r, w, T)
           Sums(it) == it = [u \in SUBSET T |-> IF u = {} THEN 0
                               ELSE r[Pick(u)] - Len(w[Pick(u)]) + it[u \ {Pick(u)}]]
           F == CHOOSE it : Sums(it)
<1>1. Lacking(r, w, T) = F[T]
  BY DEF Lacking, FoldSet, MapThenFoldSet, Pick
<1>2. \A u \in SUBSET T : u # {} => g[Pick(u)] = r[Pick(u)] - Len(w[Pick(u)]) /\ Pick(u) \in T
  BY PickTakesOne DEF Gap
<1>3. ASSUME NEW f PROVE Sums(f) <=> IsSum(f, g, T)
  BY <1>2 DEF IsSum
<1>4. Sums(F)
  <2>1. Sums(SumOf(g, T))
    BY <1>3, SumOfIs
  <2> HIDE DEF Sums
  <2> QED BY <2>1, Zenon
<1> HIDE DEF F
<1>5. IsSum(F, g, T)
  BY <1>3, <1>4
<1> HIDE DEF g, Sums
<1>6. F[T] = Total(g, T)
  BY <1>5, TotalIs DEF g
<1> QED BY <1>1, <1>6 DEF g

(* What is lacking grows with what one of the tables lacks.                    *)
LEMMA LackingGrows ==
    ASSUME NEW T, IsFiniteSet(T), NEW r, NEW w, NEW q, NEW v, NEW x, NEW d \in Int,
           Gap(r, w, T) \in [T -> Int], Gap(q, v, T) \in [T -> Int],
           GrowsBy(Gap(q, v, T), Gap(r, w, T), T, x, d)
    PROVE  Lacking(q, v, T) = IF x \in T THEN Lacking(r, w, T) + d ELSE Lacking(r, w, T)
<1>1. Lacking(r, w, T) = Total(Gap(r, w, T), T) /\ Lacking(q, v, T) = Total(Gap(q, v, T), T)
  BY LackingIs
<1>2. Total(Gap(q, v, T), T) =
        IF x \in T THEN Total(Gap(r, w, T), T) + d ELSE Total(Gap(r, w, T), T)
  BY TotalGrows
<1> QED BY <1>1, <1>2

(* The tables of a transport are its own.                                      *)
LEMMA TablesOfSources ==
    /\ TablesOf("solace") = SolaceTables /\ TablesOf("stream") = {StreamTable}
    /\ TablesOf("feed") = {FeedTable}
    /\ \A src \in Sources : IsFiniteSet(TablesOf(src)) /\ TablesOf(src) \subseteq Tables
    /\ \A src, other \in Sources : src # other => TablesOf(src) \cap TablesOf(other) = {}
<1>1. /\ TablesOf("solace") = SolaceTables /\ TablesOf("stream") = {StreamTable}
      /\ TablesOf("feed") = {FeedTable}
  BY DEF TablesOf
<1>2. IsFiniteSet(SolaceTables) /\ IsFiniteSet({StreamTable}) /\ IsFiniteSet({FeedTable})
  <2>1. 1 \in Int /\ SolaceCount \in Int
    BY IngestAssumption
  <2>2. IsFiniteSet(1 .. SolaceCount)
    BY <2>1, FS_Interval
  <2> QED BY <2>2, FS_Singleton DEF SolaceTables
<1>3. \A src \in Sources : src = "solace" \/ src = "stream" \/ src = "feed"
  BY DEF Sources
<1> QED BY <1>1, <1>2, <1>3, TableKinds

Agree == \A src \in Sources : Lacking(received, rows, TablesOf(src)) = Len(dropped[src])

LEMMA DispatchAgrees ==
    ASSUME IngestTypeOK, Agree, NEW src \in Sources, NEW t \in TablesOf(src), NEW m \in Ids,
           Dispatch(src, t, m)
    PROVE  Agree'
<1>1. /\ received \in [Tables -> Nat] /\ rows \in [Tables -> Seq(Ids)]
      /\ dropped \in [Sources -> Seq(Ids)] /\ t \in Tables
  BY TablesOfSources DEF IngestTypeOK
<1>2. PICK d \in {0, 1} :
        /\ \A u \in Tables : received'[u] - Len(rows'[u]) =
             IF u = t THEN received[u] - Len(rows[u]) + d ELSE received[u] - Len(rows[u])
        /\ \A s \in Sources : Len(dropped'[s]) =
             IF s = src THEN Len(dropped[s]) + d ELSE Len(dropped[s])
  <2>1. \A u \in Tables : received'[u] = IF u = t THEN received[u] + 1 ELSE received[u]
    BY <1>1, RegisteredDispatch
  <2>2. /\ \A u \in Tables : Len(rows[u]) \in Nat /\ received[u] \in Nat
        /\ \A s \in Sources : Len(dropped[s]) \in Nat
        /\ Len(Append(rows[t], m)) = Len(rows[t]) + 1
        /\ Len(Append(dropped[src], m)) = Len(dropped[src]) + 1
    BY <1>1
  <2>3. CASE sent[m].good
    <3>1. rows' = [rows EXCEPT ![t] = Append(rows[t], m)] /\ dropped' = dropped
      BY <1>1, <2>3, RegisteredDispatch
    <3>2. \A u \in Tables : Len(rows'[u]) = IF u = t THEN Len(rows[u]) + 1 ELSE Len(rows[u])
      BY <1>1, <2>2, <3>1
    <3>3. \A u \in Tables : received'[u] - Len(rows'[u]) =
            IF u = t THEN received[u] - Len(rows[u]) + 0 ELSE received[u] - Len(rows[u])
      BY <2>1, <2>2, <3>2
    <3>4. \A s \in Sources : Len(dropped'[s]) = IF s = src THEN Len(dropped[s]) + 0 ELSE Len(dropped[s])
      BY <2>2, <3>1
    <3> QED BY <3>3, <3>4
  <2>4. CASE ~sent[m].good
    <3>1. dropped' = [dropped EXCEPT ![src] = Append(dropped[src], m)] /\ rows' = rows
      BY <1>1, <2>4, RegisteredDispatch
    <3>2. \A u \in Tables : received'[u] - Len(rows'[u]) =
            IF u = t THEN received[u] - Len(rows[u]) + 1 ELSE received[u] - Len(rows[u])
      BY <2>1, <2>2, <3>1
    <3>3. \A s \in Sources : Len(dropped'[s]) = IF s = src THEN Len(dropped[s]) + 1 ELSE Len(dropped[s])
      BY <1>1, <2>2, <3>1
    <3> QED BY <3>2, <3>3
  <2> QED BY <2>3, <2>4
<1>3. ASSUME NEW s \in Sources
      PROVE  Lacking(received', rows', TablesOf(s)) = Len(dropped'[s])
  <2>1. IsFiniteSet(TablesOf(s)) /\ TablesOf(s) \subseteq Tables /\ (t \in TablesOf(s) <=> s = src)
    BY TablesOfSources
  <2>2. \A u \in TablesOf(s) : received[u] - Len(rows[u]) \in Int
    BY <1>1, <2>1
  <2>3. /\ Gap(received, rows, TablesOf(s)) \in [TablesOf(s) -> Int]
        /\ Gap(received', rows', TablesOf(s)) \in [TablesOf(s) -> Int]
        /\ GrowsBy(Gap(received', rows', TablesOf(s)), Gap(received, rows, TablesOf(s)), TablesOf(s), t, d)
    BY <1>2, <2>1, <2>2 DEF Gap, GrowsBy
  <2>4. Lacking(received', rows', TablesOf(s)) =
          IF t \in TablesOf(s) THEN Lacking(received, rows, TablesOf(s)) + d
                               ELSE Lacking(received, rows, TablesOf(s))
    BY <2>1, <2>3, LackingGrows
  <2>5. Lacking(received, rows, TablesOf(s)) = Len(dropped[s])
    BY DEF Agree
  <2> QED BY <1>2, <2>1, <2>4, <2>5
<1> QED BY <1>3 DEF Agree, TablesOf

LEMMA AgreeStep == IngestTypeOK /\ Agree /\ [Next]_vars => Agree'
<1> SUFFICES ASSUME IngestTypeOK, Agree, [Next]_vars PROVE Agree'
  OBVIOUS
<1>1. CASE RunCall
  <2>1. PICK c \in [table : SolaceTables, message : Ids] : c = Head(calls)
    BY <1>1, HeadTailProperties DEF RunCall, IngestTypeOK
  <2>2. Dispatch("solace", c.table, c.message) /\ c.table \in TablesOf("solace") /\ c.message \in Ids
    BY <1>1, <2>1, TablesOfSources DEF RunCall
  <2> QED BY <2>2, TableKinds, DispatchAgrees
<1>2. CASE Handle
  <2>1. PICK m \in Ids : m = Head(sub)
    BY <1>2, HeadTailProperties DEF Handle, IngestTypeOK
  <2>2. Dispatch("stream", StreamTable, m) /\ StreamTable \in TablesOf("stream")
    BY <1>2, <2>1, TablesOfSources DEF Handle
  <2> QED BY <2>2, TableKinds, DispatchAgrees
<1>3. CASE ReadFeed
  <2>1. PICK m \in Ids : m = Head(feed)
    BY <1>3, HeadTailProperties DEF ReadFeed, IngestTypeOK
  <2>2. Dispatch("feed", FeedTable, m) /\ FeedTable \in TablesOf("feed")
    BY <1>3, <2>1, TablesOfSources DEF ReadFeed
  <2> QED BY <2>2, TableKinds, DispatchAgrees
<1>4. ASSUME UNCHANGED <<received, rows, dropped>> PROVE Agree'
  BY <1>4 DEF Agree, TablesOf
<1>5. ASSUME NEW topic \in Topics, SolacePublish(topic) PROVE Agree'
  BY <1>4, <1>5 DEF SolacePublish, countVars
<1>6. ASSUME NEW src \in Sources, OpenSession(src) \/ CloseSession(src) PROVE Agree'
  BY <1>4, <1>6 DEF OpenSession, CloseSession, countVars
<1>7. CASE OnMessage \/ StreamPublish \/ Deliver \/ Ack \/ AckFails \/ FeedSends
  BY <1>4, <1>7 DEF OnMessage, StreamPublish, Deliver, Ack, AckFails, FeedSends, countVars
<1>8. CASE Quiet \/ UNCHANGED vars
  BY <1>4, <1>8 DEF Quiet, vars, countVars
<1>9. ASSUME NEW src \in Sources, DispatchUnknown(src) PROVE Agree'
  BY <1>4, <1>9, UnknownDispatch
<1> QED BY <1>1, <1>2, <1>3, <1>5, <1>6, <1>7, <1>8, <1>9 DEF Next

(* Whatever number of tables a transport feeds, what they have counted as      *)
(* received and do not have as rows is what the transport has counted as a     *)
(* dispatch error, whatever number of drops it has counted for tables that are *)
(* not registered: no message received is lost between the counters (base.py,  *)
(* _dispatch).                                                                 *)
THEOREM CountersAlwaysAgree == Spec => []CountersAgree
<1>1. Init => Agree
  <2> SUFFICES ASSUME Init, NEW src \in Sources
               PROVE  Lacking(received, rows, TablesOf(src)) = Len(dropped[src])
    BY DEF Agree
  <2> DEFINE T == TablesOf(src)
             g == Gap(received, rows, T)
  <2>1. \A t \in Tables : received[t] = 0 /\ Len(rows[t]) = 0
    BY DEF Init
  <2>2. IsFiniteSet(T) /\ \A t \in T : received[t] - Len(rows[t]) = 0
    BY <2>1, TablesOfSources
  <2> HIDE DEF T
  <2>3. g \in [T -> Int] /\ \A t \in T : g[t] = 0
    BY <2>2 DEF Gap
  <2>4. Lacking(received, rows, T) = Total(g, T)
    BY <2>2, <2>3, LackingIs
  <2> HIDE DEF g
  <2>5. Total(g, T) = 0
    BY <2>2, <2>3, TotalOfZeros
  <2>6. Len(dropped[src]) = 0
    BY DEF Init
  <2> QED BY <2>4, <2>5, <2>6 DEF T
<1>2. Agree => CountersAgree
  BY DEF Agree, CountersAgree, Lacking
<1> QED BY <1>1, <1>2, IngestStart, IngestTypeStep, AgreeStep, PTL DEF Spec

--------------------------------------------------------------------------------
(* Routing                                                                     *)

(* What texts are made of: the provers take no string to be in STRING.         *)
Fragments == STRING \cup {"/"}

LEMMA TextsOfFragments ==
    /\ \A pattern \in Patterns : pattern.levels \in Seq(Seq(Fragments))
    /\ Topics \subseteq Seq(Seq(Fragments))
<1>1. STRING \subseteq Fragments
  BY DEF Fragments
<1>2. Seq(STRING) \subseteq Seq(Fragments)
  BY <1>1, SeqMonotonic
<1>3. Seq(Seq(STRING)) \subseteq Seq(Seq(Fragments))
  BY <1>2, SeqMonotonic
<1> QED BY <1>3, RoutingAssumption

(* What Text joins.                                                            *)
Pieces(levels) ==
    [ i \in 1 .. 2 * Len(levels) - 1 |->
        IF i % 2 = 1 THEN levels[(i + 1) \div 2] ELSE Separator ]

LEMMA PiecesAre ==
    ASSUME NEW levels \in Seq(Seq(Fragments))
    PROVE  /\ Pieces(levels) \in Seq(Seq(Fragments))
           /\ Len(Pieces(levels)) = IF levels = <<>> THEN 0 ELSE 2 * Len(levels) - 1
<1>1. Separator \in Seq(Fragments)
  <2>1. "/" \in Fragments
    BY Zenon DEF Fragments
  <2>2. \A x \in Fragments : <<x>> \in Seq(Fragments)
    OBVIOUS
  <2> QED BY <2>1, <2>2 DEF Separator
<1>2. CASE levels = <<>>
  <2>1. 1 .. 2 * Len(levels) - 1 = 1 .. 0
    BY <1>2
  <2>2. [ i \in 1 .. 0 |-> IF i % 2 = 1 THEN levels[(i + 1) \div 2] ELSE Separator ] \in [1 .. 0 -> Seq(Fragments)]
    OBVIOUS
  <2>3. Pieces(levels) \in [1 .. 0 -> Seq(Fragments)]
    BY <2>1, <2>2 DEF Pieces
  <2>4. Pieces(levels) \in Seq(Seq(Fragments)) /\ Len(Pieces(levels)) = 0
    BY <2>3
  <2> QED BY <1>2, <2>4
<1>3. CASE levels # <<>>
  <2> DEFINE n == 2 * Len(levels) - 1
  <2>1. n \in Nat /\ Len(levels) \in Nat /\ \A i \in 1 .. Len(levels) : levels[i] \in Seq(Fragments)
    BY <1>3
  <2>2. \A i \in 1 .. n : i % 2 = 1 => (i + 1) \div 2 \in 1 .. Len(levels)
    BY <2>1
  <2>3. \A i \in 1 .. n : (IF i % 2 = 1 THEN levels[(i + 1) \div 2] ELSE Separator) \in Seq(Fragments)
    BY <1>1, <2>1, <2>2
  <2> HIDE DEF n
  <2>4. [ i \in 1 .. n |-> IF i % 2 = 1 THEN levels[(i + 1) \div 2] ELSE Separator ] \in [1 .. n -> Seq(Fragments)]
    BY <2>3
  <2>5. Pieces(levels) \in [1 .. n -> Seq(Fragments)]
    BY <2>4 DEF Pieces, n
  <2>6. Pieces(levels) \in Seq(Seq(Fragments)) /\ Len(Pieces(levels)) = n
    BY <2>1, <2>5
  <2> QED BY <1>3, <2>6 DEF n
<1> QED BY <1>2, <1>3

(* The text of the first levels of a topic begins the text of the topic.       *)
LEMMA TextBegins ==
    ASSUME NEW p \in Seq(Seq(Fragments)), NEW q \in Seq(Seq(Fragments)), Begins(p, q)
    PROVE  /\ Text(p) \in Seq(Fragments) /\ Text(q) \in Seq(Fragments)
           /\ Begins(Text(p), Text(q))
<1>1. /\ Pieces(p) \in Seq(Seq(Fragments)) /\ Pieces(q) \in Seq(Seq(Fragments))
      /\ Len(Pieces(p)) = IF p = <<>> THEN 0 ELSE 2 * Len(p) - 1
      /\ Len(Pieces(q)) = IF q = <<>> THEN 0 ELSE 2 * Len(q) - 1
  BY PiecesAre
<1>2. Len(p) \in Nat /\ Len(q) \in Nat /\ Len(p) <= Len(q) /\ (p # <<>> => q # <<>>)
  BY DEF Begins
<1>3. Len(Pieces(p)) <= Len(Pieces(q))
  BY <1>1, <1>2
<1>4. ASSUME NEW i \in 1 .. Len(Pieces(p)) PROVE Pieces(p)[i] = Pieces(q)[i]
  <2>1. p # <<>> /\ i \in 1 .. 2 * Len(p) - 1 /\ i \in 1 .. 2 * Len(q) - 1
    BY <1>1, <1>2
  <2>2. i % 2 = 1 => (i + 1) \div 2 \in 1 .. Len(p)
    BY <1>2, <2>1
  <2>3. i % 2 = 1 => p[(i + 1) \div 2] = q[(i + 1) \div 2]
    BY <2>2 DEF Begins
  <2> QED BY <2>1, <2>3 DEF Pieces
<1>5. Begins(Pieces(p), Pieces(q))
  BY <1>3, <1>4 DEF Begins
<1>6. /\ FlattenSeq(Pieces(p)) \in Seq(Fragments) /\ FlattenSeq(Pieces(q)) \in Seq(Fragments)
      /\ Begins(FlattenSeq(Pieces(p)), FlattenSeq(Pieces(q)))
  BY <1>1, <1>5, FlattenBegins
<1> QED BY <1>6 DEF Text, Pieces

(* A subscription without "*" that matches a topic begins it.                  *)
LEMMA MatchBegins ==
    ASSUME NEW pattern, pattern.levels \in Seq(Seq(Fragments)), NEW topic \in Seq(Seq(Fragments)),
           Matches(pattern, topic), ~Contains(pattern.levels, Star)
    PROVE  Begins(pattern.levels, topic)
<1>1. Len(pattern.levels) \in Nat /\ Len(topic) \in Nat
  OBVIOUS
<1>2. Len(pattern.levels) <= Len(topic)
  BY <1>1 DEF Matches
<1>3. \A i \in 1 .. Len(pattern.levels) : pattern.levels[i] = topic[i]
  BY DEF Matches, Contains
<1> QED BY <1>2, <1>3 DEF Begins

(* Of patterns that can be told apart, the one that matches a topic is the one *)
(* on_message finds for it.                                                    *)
LEMMA RouteIsRight ==
    ASSUME patterns \in [SolaceTables -> Patterns], Distinguishable(patterns), NEW topic \in Seq(Seq(Fragments)),
           NEW i \in SolaceTables, Matches(patterns[i], topic)
    PROVE  Route(patterns, topic) = i
<1> DEFINE hits == { j \in DOMAIN patterns : IsPrefix(Prefix(patterns[j]), Text(topic)) }
           same == { j \in DOMAIN patterns : patterns[j] = patterns[Min(hits)] }
<1>1. /\ DOMAIN patterns = SolaceTables
      /\ \A j \in SolaceTables : patterns[j].levels \in Seq(Seq(Fragments))
  BY TextsOfFragments
<1>2. \A j, k \in SolaceTables : j # k => ~IsPrefix(Prefix(patterns[j]), Prefix(patterns[k]))
  BY <1>1 DEF Distinguishable
<1>3. \A j \in SolaceTables : Prefix(patterns[j]) \in Seq(Fragments)
  <2>1. \A l \in Seq(Seq(Fragments)) : Begins(l, l)
    BY DEF Begins
  <2>2. \A l \in Seq(Seq(Fragments)) : Text(l) \in Seq(Fragments)
    BY <2>1, TextBegins
  <2> QED BY <1>1, <2>2 DEF Prefix
<1>4. Text(topic) \in Seq(Fragments) /\ Begins(Prefix(patterns[i]), Text(topic))
  <2>1. ~Contains(patterns[i].levels, Star)
    BY <1>1 DEF Distinguishable
  <2>2. Begins(patterns[i].levels, topic)
    BY <1>1, <2>1, MatchBegins
  <2> QED BY <1>1, <2>2, TextBegins DEF Prefix
<1>5. IsPrefix(Prefix(patterns[i]), Text(topic))
  BY <1>3, <1>4, PrefixBegins
<1>6. ASSUME NEW j \in SolaceTables, IsPrefix(Prefix(patterns[j]), Text(topic)) PROVE j = i
  <2>1. Begins(Prefix(patterns[j]), Text(topic))
    BY <1>3, <1>4, <1>6, PrefixBegins
  <2>2. \/ Begins(Prefix(patterns[i]), Prefix(patterns[j]))
        \/ Begins(Prefix(patterns[j]), Prefix(patterns[i]))
    BY <1>3, <1>4, <2>1, BeginsEither
  <2>3. \/ IsPrefix(Prefix(patterns[i]), Prefix(patterns[j]))
        \/ IsPrefix(Prefix(patterns[j]), Prefix(patterns[i]))
    BY <1>3, <2>2, PrefixBegins
  <2> QED BY <1>2, <2>3
<1>7. hits = {i}
  BY <1>1, <1>5, <1>6
<1>8. ASSUME NEW j \in SolaceTables, patterns[j] = patterns[i] PROVE j = i
  <2>1. Begins(Prefix(patterns[i]), Prefix(patterns[i]))
    BY <1>3 DEF Begins
  <2>2. IsPrefix(Prefix(patterns[j]), Prefix(patterns[i]))
    BY <1>3, <1>8, <2>1, PrefixBegins
  <2> QED BY <1>2, <2>2
<1>9. Min({i}) = i /\ Max({i}) = i
  <2>1. SolaceCount \in Nat /\ {i} \in SUBSET (1 .. SolaceCount) /\ {i} # {}
    BY IngestAssumption DEF SolaceTables
  <2>2. Min({i}) \in {i} /\ Max({i}) \in {i}
    BY <2>1, Extremes
  <2> QED BY <2>2
<1> HIDE DEF hits
<1>10. same = {i}
  BY <1>1, <1>7, <1>8, <1>9
<1> HIDE DEF same
<1>11. Route(patterns, topic) = IF hits = {} THEN 0 ELSE Max(same)
  BY DEF Route, hits, same
<1> QED BY <1>7, <1>9, <1>10, <1>11

(* The message of the table t came in on a topic the table subscribes to.      *)
OnTopic(t, m) == m \in 1 .. Len(sent) /\ Matches(patterns[t], sent[m].topic)

(* Every message on its way to a table is on its way to the right one.         *)
RightWay ==
    Distinguishable(patterns) =>
        /\ unrouted = {}
        /\ \A k \in 1 .. Len(sdk) : \E t \in SolaceTables : OnTopic(t, sdk[k])
        /\ \A k \in 1 .. Len(calls) : OnTopic(calls[k].table, calls[k].message)
        /\ \A t \in SolaceTables : \A k \in 1 .. Len(rows[t]) : OnTopic(t, rows[t][k])

(* A message keeps its topic.                                                  *)
LEMMA OnTopicStays ==
    ASSUME IngestTypeOK, [Next]_vars, NEW t, NEW m, OnTopic(t, m)
    PROVE  OnTopic(t, m)'
<1>1. sent \in Seq([source : Sources, topic : Topics \cup {<<>>}, good : BOOLEAN])
  BY DEF IngestTypeOK
<1>2. patterns' = patterns /\ (sent' = sent \/ \E src, topic : Publish(src, topic))
  BY DEF Next, SolacePublish, OnMessage, RunCall, StreamPublish, Deliver, Handle, Ack, AckFails,
     FeedSends, ReadFeed, OpenSession, CloseSession, DispatchUnknown, Quiet, vars, brokerVars
<1>3. CASE sent' = sent
  BY <1>2, <1>3 DEF OnTopic
<1>4. ASSUME NEW src, NEW topic, Publish(src, topic) PROVE OnTopic(t, m)'
  <2>1. PICK x : sent' = Append(sent, x)
    BY <1>4 DEF Publish
  <2>2. m \in 1 .. Len(sent') /\ sent'[m] = sent[m]
    BY <1>1, <2>1 DEF OnTopic
  <2> QED BY <1>2, <2>2 DEF OnTopic
<1> QED BY <1>2, <1>3, <1>4

LEMMA WayStep == IngestTypeOK /\ RightWay /\ [Next]_vars => RightWay'
<1> SUFFICES ASSUME IngestTypeOK, RightWay, [Next]_vars, Distinguishable(patterns)' PROVE RightWay'
  BY DEF RightWay
<1>1. /\ patterns \in [SolaceTables -> Patterns] /\ sdk \in Seq(Ids)
      /\ calls \in Seq([table : SolaceTables, message : Ids])
      /\ rows \in [Tables -> Seq(Ids)] /\ SolaceTables \subseteq Tables
      /\ sent \in Seq([source : Sources, topic : Topics \cup {<<>>}, good : BOOLEAN])
  BY TableKinds DEF IngestTypeOK
<1>2. Distinguishable(patterns) /\ patterns' = patterns
  BY DEF Next, SolacePublish, OnMessage, RunCall, StreamPublish, Deliver, Handle, Ack, AckFails,
     FeedSends, ReadFeed, OpenSession, CloseSession, DispatchUnknown, Quiet, vars, brokerVars
<1>3. /\ unrouted = {}
      /\ \A k \in 1 .. Len(sdk) : \E t \in SolaceTables : OnTopic(t, sdk[k])
      /\ \A k \in 1 .. Len(calls) : OnTopic(calls[k].table, calls[k].message)
      /\ \A t \in SolaceTables : \A k \in 1 .. Len(rows[t]) : OnTopic(t, rows[t][k])
  BY <1>2 DEF RightWay
<1>4. \A t, m : OnTopic(t, m) => OnTopic(t, m)'
  BY OnTopicStays
<1> DEFINE
      Pending == \A k \in 1 .. Len(sdk) : \E t \in SolaceTables : OnTopic(t, sdk[k])
      OnLoop == \A k \in 1 .. Len(calls) : OnTopic(calls[k].table, calls[k].message)
      InTables == \A t \in SolaceTables : \A k \in 1 .. Len(rows[t]) : OnTopic(t, rows[t][k])
<1>5. sdk' \in {sdk, <<>>} => Pending'
  BY <1>3, <1>4
<1>6. calls' = calls => OnLoop'
  BY <1>3, <1>4
<1>7. (\A t \in SolaceTables : rows'[t] = rows[t]) => InTables'
  BY <1>3, <1>4
<1>8. unrouted' = {} /\ Pending' /\ OnLoop' /\ InTables' => RightWay'
  BY DEF RightWay
<1> HIDE DEF Pending, OnLoop, InTables
<1>9. ASSUME NEW topic \in Topics, SolacePublish(topic) PROVE RightWay'
  <2>1. PICK i \in SolaceTables : Matches(patterns[i], topic)
    BY <1>9 DEF SolacePublish
  <2>2. PICK x : sent' = Append(sent, x) /\ x.topic = topic
    BY <1>9 DEF SolacePublish, Publish
  <2>3. Len(sent') \in 1 .. Len(sent') /\ Len(sent') \in Ids /\ sent'[Len(sent')] = x
    <3>1. Publish("solace", topic)
      BY <1>9 DEF SolacePublish
    <3>2. Len(sent') \in Ids /\ Len(sent') = Len(sent) + 1 /\ Len(sent) \in Nat
      BY <3>1, PublishDoes, TableKinds
    <3> QED BY <1>1, <2>2, <3>2
  <2>4. OnTopic(i, Len(sent))'
    BY <1>2, <2>1, <2>2, <2>3 DEF OnTopic
  <2>5. sdk' = Append(sdk, Len(sent'))
    BY <1>9 DEF SolacePublish
  <2>6. /\ Len(sdk') = Len(sdk) + 1 /\ sdk'[Len(sdk) + 1] = Len(sent')
        /\ \A k \in 1 .. Len(sdk) : sdk'[k] = sdk[k]
        /\ \A k \in 1 .. Len(sdk) + 1 : k \in 1 .. Len(sdk) \/ k = Len(sdk) + 1
    BY <1>1, <2>3, <2>5
  <2>7. Pending'
    BY <1>3, <1>4, <2>4, <2>6 DEF Pending
  <2> QED BY <1>3, <1>6, <1>7, <1>8, <1>9, <2>7 DEF SolacePublish, countVars
<1>10. CASE OnMessage
  <2>1. PICK m, r : m = Head(sdk) /\ r = Route(patterns, sent[m].topic)
    OBVIOUS
  <2>2. /\ sdk # <<>> /\ sdk' = Tail(sdk) /\ UNCHANGED <<sent, rows>>
        /\ IF r = 0 THEN unrouted' = unrouted \cup {m} /\ UNCHANGED calls
                    ELSE calls' = Append(calls, [table |-> r, message |-> m]) /\ UNCHANGED unrouted
    BY <1>10, <2>1 DEF OnMessage, brokerVars, countVars
  <2>3. /\ m \in Ids /\ m = sdk[1] /\ 1 \in 1 .. Len(sdk)
        /\ Len(Tail(sdk)) = Len(sdk) - 1
        /\ \A k \in 1 .. Len(Tail(sdk)) : Tail(sdk)[k] = sdk[k + 1] /\ k + 1 \in 1 .. Len(sdk)
    BY <1>1, <2>1, <2>2
  <2>4. PICK i \in SolaceTables : OnTopic(i, m)
    BY <1>3, <2>3
  <2>5. sent[m].topic \in Seq(Seq(Fragments))
    <3>1. sent[m].topic \in Topics \cup {<<>>}
      <4>1. m \in 1 .. Len(sent)
        BY <2>4 DEF OnTopic
      <4>2. PICK S : S = [source : Sources, topic : Topics \cup {<<>>}, good : BOOLEAN]
        OBVIOUS
      <4>3. sent \in Seq(S)
        BY <1>1, <4>2
      <4>4. sent[m] \in S
        BY <4>1, <4>3
      <4> QED BY <4>2, <4>4
    <3>2. <<>> \in Seq(Seq(Fragments))
      OBVIOUS
    <3> QED BY <3>1, <3>2, TextsOfFragments
  <2>6. r = i
    <3>1. Matches(patterns[i], sent[m].topic)
      BY <2>4 DEF OnTopic
    <3>2. Route(patterns, sent[m].topic) = i
      BY <1>1, <1>2, <2>5, <3>1, RouteIsRight
    <3> QED BY <2>1, <3>2
  <2>7. i # 0
    BY DEF SolaceTables
  <2>8. calls' = Append(calls, [table |-> i, message |-> m]) /\ unrouted' = unrouted
    BY <2>2, <2>6, <2>7
  <2>9. Pending'
    BY <1>3, <1>4, <2>2, <2>3 DEF Pending
  <2>10. OnLoop'
    <3>1. [table |-> i, message |-> m] \in [table : SolaceTables, message : Ids]
      BY <2>3
    <3>2. /\ Len(calls') = Len(calls) + 1 /\ calls'[Len(calls) + 1] = [table |-> i, message |-> m]
          /\ \A k \in 1 .. Len(calls) : calls'[k] = calls[k]
          /\ \A k \in 1 .. Len(calls) + 1 : k \in 1 .. Len(calls) \/ k = Len(calls) + 1
      BY <1>1, <2>8, <3>1
    <3>3. OnTopic(i, m)'
      BY <1>4, <2>4
    <3> QED BY <1>3, <1>4, <3>2, <3>3 DEF OnLoop
  <2> QED BY <1>3, <1>7, <1>8, <2>2, <2>8, <2>9, <2>10
<1>11. CASE RunCall
  <2>1. PICK c \in [table : SolaceTables, message : Ids] : c = Head(calls)
    BY <1>11, HeadTailProperties DEF RunCall, IngestTypeOK
  <2>2. /\ c = calls[1] /\ 1 \in 1 .. Len(calls)
        /\ Len(Tail(calls)) = Len(calls) - 1
        /\ \A k \in 1 .. Len(Tail(calls)) : Tail(calls)[k] = calls[k + 1] /\ k + 1 \in 1 .. Len(calls)
    BY <1>1, <1>11, <2>1 DEF RunCall
  <2>3. Dispatch("solace", c.table, c.message)
    BY <1>11, <2>1 DEF RunCall
  <2>4. calls' = Tail(calls) /\ sdk' = sdk /\ unrouted' = unrouted
    BY <1>11 DEF RunCall
  <2>5. \A u \in Tables : rows'[u] = rows[u] \/ (u = c.table /\ rows'[u] = Append(rows[u], c.message))
    <3>1. c.table \in Tables /\ c.message \in Ids /\ "solace" \in Sources
      BY <1>1, TableKinds
    <3> QED BY <2>3, <3>1, DispatchDoes
  <2>6. OnTopic(c.table, c.message)'
    BY <1>3, <1>4, <2>2
  <2>7. OnLoop'
    BY <1>3, <1>4, <2>2, <2>4 DEF OnLoop
  <2>8. ASSUME NEW t \in SolaceTables, NEW k \in 1 .. Len(rows'[t]) PROVE OnTopic(t, rows[t][k])'
    <3>1. CASE rows'[t] = rows[t]
      BY <1>3, <1>4, <2>8, <3>1
    <3>2. CASE t = c.table /\ rows'[t] = Append(rows[t], c.message)
      <4>1. rows[t] \in Seq(Ids) /\ c.message \in Ids
        BY <1>1
      <4>2. \/ k \in 1 .. Len(rows[t]) /\ rows'[t][k] = rows[t][k]
            \/ rows'[t][k] = c.message
        BY <2>8, <3>2, <4>1
      <4> QED BY <1>3, <1>4, <2>6, <3>2, <4>2
    <3> QED BY <1>1, <2>5, <3>1, <3>2
  <2>9. Pending' /\ unrouted' = {}
    BY <1>3, <1>5, <2>4
  <2>10. InTables'
    BY <2>8 DEF InTables
  <2> QED BY <1>8, <2>7, <2>9, <2>10
<1>12. CASE Handle \/ ReadFeed
  <2>1. PICK t \in {StreamTable, FeedTable}, src \in Sources, m \in Ids : Dispatch(src, t, m)
    <3>1. CASE Handle
      <4>1. Head(sub) \in Ids /\ Dispatch("stream", StreamTable, Head(sub))
        BY <3>1, HeadTailProperties DEF Handle, IngestTypeOK
      <4> QED BY <4>1, TableKinds
    <3>2. CASE ReadFeed
      <4>1. Head(feed) \in Ids /\ Dispatch("feed", FeedTable, Head(feed))
        BY <3>2, HeadTailProperties DEF ReadFeed, IngestTypeOK
      <4> QED BY <4>1, TableKinds
    <3> QED BY <1>12, <3>1, <3>2
  <2>2. \A u \in SolaceTables : rows'[u] = rows[u]
    <3>1. t \in Tables /\ SolaceTables \subseteq Tables \ {t}
      BY TableKinds
    <3>2. \A u \in Tables : rows'[u] = rows[u] \/ (u = t /\ rows'[u] = Append(rows[u], m))
      BY <2>1, <3>1, DispatchDoes
    <3> QED BY <3>1, <3>2
  <2>3. UNCHANGED <<sdk, calls, unrouted>>
    BY <1>12 DEF Handle, ReadFeed, solaceVars
  <2> QED BY <1>3, <1>5, <1>6, <1>7, <1>8, <2>2, <2>3
<1>13. ASSUME UNCHANGED <<calls, unrouted, rows>>, sdk' \in {sdk, <<>>}
       PROVE  RightWay'
  BY <1>3, <1>5, <1>6, <1>7, <1>8, <1>13
<1>14. ASSUME NEW src \in Sources, OpenSession(src) \/ CloseSession(src)
       PROVE  RightWay'
  BY <1>13, <1>14 DEF OpenSession, CloseSession, solaceVars, countVars
<1>15. CASE StreamPublish \/ Deliver \/ Ack \/ AckFails \/ FeedSends
  BY <1>13, <1>15 DEF StreamPublish, Deliver, Ack, AckFails, FeedSends, solaceVars, countVars
<1>16. CASE Quiet \/ UNCHANGED vars
  BY <1>13, <1>16 DEF Quiet, vars, solaceVars, countVars
<1>17. ASSUME NEW src \in Sources, DispatchUnknown(src) PROVE RightWay'
  BY <1>13, <1>17, UnknownDispatch
<1> QED BY <1>9, <1>10, <1>11, <1>12, <1>14, <1>15, <1>16, <1>17 DEF Next

(* When the subscriptions of the Solace tables can be told apart by their      *)
(* prefixes, however many they are, every message finds a table and is a row   *)
(* of one that subscribes to its topic (solace.py, on_message).                *)
THEOREM RoutesAreRight == Spec => []RoutedRight
<1>1. Init => RightWay
  <2> SUFFICES ASSUME Init PROVE RightWay
    OBVIOUS
  <2>1. sdk = <<>> /\ calls = <<>> /\ unrouted = {} /\ \A t \in SolaceTables : rows[t] = <<>>
    BY TableKinds DEF Init
  <2> QED BY <2>1 DEF RightWay
<1>2. IngestTypeOK /\ RightWay => RoutedRight
  <2> SUFFICES ASSUME IngestTypeOK, RightWay, Distinguishable(patterns)
               PROVE  /\ unrouted = {}
                      /\ \A t \in SolaceTables : \A m \in ToSet(rows[t]) : Matches(patterns[t], sent[m].topic)
    BY DEF RoutedRight
  <2>1. \A t \in SolaceTables : DOMAIN rows[t] = 1 .. Len(rows[t])
    BY TableKinds DEF IngestTypeOK
  <2> QED BY <2>1 DEF RightWay, OnTopic, ToSet
<1> QED BY <1>1, <1>2, IngestStart, IngestTypeStep, WayStep, PTL DEF Spec
================================================================================
