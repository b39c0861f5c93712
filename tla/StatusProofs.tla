------------------------------ MODULE StatusProofs ------------------------------
(***************************************************************************)
(* The gauges of sessions and consumers for any sets of sessions and       *)
(* tables, whatever handlers raise and however often a table is named; the *)
(* queue of the loop for any set of polls.                                 *)
(***************************************************************************)
EXTENDS StatusPage, FiniteSetTheorems, TLAPS

Phases == {"new", "open", "aborted", "closed"}

(* The connected sessions in whose messages a table has been named.            *)
Users(t) == { s \in Connected : t \in named[s] }

(* Only finitely many sessions are connected at a time; a handler has touched  *)
(* what its session has named; those that opened and have not closed are the   *)
(* instances.                                                                  *)
GaugeInvariant ==
    /\ phase \in [Sessions -> Phases]
    /\ touched \in [Sessions -> SUBSET Tables] /\ named \in [Sessions -> SUBSET Tables]
    /\ IsFiniteSet(Connected)
    /\ { s \in Sessions : phase[s] = "open" } \subseteq instances /\ instances \subseteq Connected
    /\ clients = Cardinality(instances)
    /\ consumers = [t \in Tables |-> Cardinality(Users(t))]
    /\ \A s \in Sessions : phase[s] \in {"new", "open", "aborted"} => touched[s] = named[s]
    /\ \A s \in Sessions : phase[s] = "new" => named[s] = {}

LEMMA TrackStart == TrackInit => GaugeInvariant
<1> SUFFICES ASSUME TrackInit PROVE GaugeInvariant
  OBVIOUS
<1>1. /\ phase = [s \in Sessions |-> "new"] /\ instances = {} /\ clients = 0
      /\ touched = [s \in Sessions |-> {}] /\ named = [s \in Sessions |-> {}]
      /\ consumers = [t \in Tables |-> 0]
  BY DEF TrackInit
<1>2. Connected = {} /\ \A t : Users(t) = {}
  BY <1>1 DEF Connected, Users
<1>3. IsFiniteSet({}) /\ Cardinality({}) = 0
  BY FS_EmptySet
<1>4. consumers = [t \in Tables |-> Cardinality(Users(t))]
  BY <1>1, <1>2, <1>3
<1> QED BY <1>1, <1>2, <1>3, <1>4 DEF GaugeInvariant, Phases

(* A session is counted before it has named anything.                          *)
LEMMA OpenStep ==
    ASSUME GaugeInvariant, NEW s \in Sessions, Open(s) \/ OpenRaises(s)
    PROVE  GaugeInvariant'
<1> USE DEF GaugeInvariant, Phases
<1>1. /\ phase[s] = "new" /\ UNCHANGED <<touched, consumers, named>>
      /\ \/ phase' = [phase EXCEPT ![s] = "open"] /\ instances' = instances \cup {s}
            /\ clients' = Cardinality(instances')
         \/ phase' = [phase EXCEPT ![s] = "aborted"] /\ UNCHANGED <<instances, clients>>
  BY DEF Open, OpenRaises
<1>2. Connected' = Connected \cup {s}
  BY <1>1 DEF Connected
<1>3. IsFiniteSet(Connected')
  BY <1>2, FS_AddElement
<1>4. \A t \in Tables : Users(t)' = Users(t)
  BY <1>1, <1>2 DEF Users
<1>5. consumers' = [t \in Tables |-> Cardinality(Users(t)')]
  BY <1>1, <1>4
<1>6. /\ phase' \in [Sessions -> Phases] /\ phase'[s] \in {"open", "aborted"}
      /\ \A u \in Sessions \ {s} : phase'[u] = phase[u]
  BY <1>1
<1>7. { u \in Sessions : phase'[u] = "open" } \subseteq instances' /\ instances' \subseteq Connected'
  BY <1>1, <1>2, <1>6
<1>8. clients' = Cardinality(instances')
  BY <1>1
<1>9. /\ touched' \in [Sessions -> SUBSET Tables] /\ named' \in [Sessions -> SUBSET Tables]
      /\ \A u \in Sessions : phase'[u] \in {"new", "open", "aborted"} => touched'[u] = named'[u]
      /\ \A u \in Sessions : phase'[u] = "new" => named'[u] = {}
  BY <1>1, <1>6
<1> QED BY <1>3, <1>5, <1>6, <1>7, <1>8, <1>9

(* Of the tables a message names, those gain a consumer that did not have this *)
(* session among theirs.                                                       *)
LEMMA MessageStep ==
    ASSUME GaugeInvariant, NEW s \in Sessions, Message(s)
    PROVE  GaugeInvariant'
<1> USE DEF GaugeInvariant, Phases
<1>1. PICK names \in SUBSET Tables :
        /\ touched' = [touched EXCEPT ![s] = touched[s] \cup names]
        /\ consumers' = [t \in Tables |->
                           IF t \in names \ touched[s] THEN consumers[t] + 1 ELSE consumers[t]]
        /\ named' = [named EXCEPT ![s] = named[s] \cup names]
  BY DEF Message
<1>2. /\ phase[s] = "open" /\ UNCHANGED <<instances, clients>>
      /\ phase' = [phase EXCEPT ![s] = "open"] \/ phase' = [phase EXCEPT ![s] = "aborted"]
  BY DEF Message
<1>3. s \in Connected /\ touched[s] = named[s]
  BY <1>2 DEF Connected
<1>4. /\ phase' \in [Sessions -> Phases] /\ phase'[s] \in {"open", "aborted"}
      /\ \A u \in Sessions \ {s} : phase'[u] = phase[u]
  BY <1>2
<1>5. Connected' = Connected
  BY <1>2, <1>4 DEF Connected
<1>6. /\ touched' \in [Sessions -> SUBSET Tables] /\ named' \in [Sessions -> SUBSET Tables]
      /\ named'[s] = named[s] \cup names /\ touched'[s] = touched[s] \cup names
      /\ \A u \in Sessions \ {s} : named'[u] = named[u] /\ touched'[u] = touched[u]
  BY <1>1
<1>7. ASSUME NEW t \in Tables
      PROVE  Cardinality(Users(t)') = IF t \in names \ touched[s] THEN consumers[t] + 1 ELSE consumers[t]
  <2>1. consumers[t] = Cardinality(Users(t)) /\ IsFiniteSet(Users(t))
    BY FS_Subset DEF Users
  <2> HIDE DEF GaugeInvariant
  <2>2. \A u : u \in Users(t)' <=> u \in Users(t) \/ (u = s /\ t \in names)
    BY <1>3, <1>5, <1>6 DEF Users, Connected
  <2>3. s \in Users(t) <=> t \in touched[s]
    BY <1>3 DEF Users
  <2>4. CASE t \in names \ touched[s]
    <3>1. Users(t)' = Users(t) \cup {s} /\ s \notin Users(t)
      BY <2>2, <2>3, <2>4
    <3> QED BY <2>1, <2>4, <3>1, FS_AddElement
  <2>5. CASE t \notin names \ touched[s]
    <3>1. Users(t)' = Users(t)
      BY <2>2, <2>3, <2>5
    <3> QED BY <2>1, <2>5, <3>1
  <2> QED BY <2>4, <2>5
<1>8. consumers' = [t \in Tables |-> Cardinality(Users(t)')]
  BY <1>1, <1>7
<1>9. { u \in Sessions : phase'[u] = "open" } \subseteq instances' /\ instances' \subseteq Connected'
  BY <1>2, <1>4, <1>5
<1>10. /\ \A u \in Sessions : phase'[u] \in {"new", "open", "aborted"} => touched'[u] = named'[u]
       /\ \A u \in Sessions : phase'[u] = "new" => named'[u] = {}
  BY <1>3, <1>4, <1>6
<1> QED BY <1>2, <1>4, <1>5, <1>6, <1>8, <1>9, <1>10

(* A session that ends takes back what it was counted for, and no more.        *)
LEMMA CloseStep ==
    ASSUME GaugeInvariant, NEW s \in Sessions, OnClose(s)
    PROVE  GaugeInvariant'
<1> USE DEF GaugeInvariant, Phases
<1>1. /\ phase[s] \in {"open", "aborted"} /\ phase' = [phase EXCEPT ![s] = "closed"]
      /\ instances' = instances \ {s} /\ clients' = Cardinality(instances')
      /\ consumers' = [t \in Tables |-> IF t \in touched[s] THEN consumers[t] - 1 ELSE consumers[t]]
      /\ touched' = [touched EXCEPT ![s] = {}] /\ UNCHANGED named
  BY DEF OnClose
<1>2. s \in Connected /\ touched[s] = named[s] /\ Connected' = Connected \ {s}
  BY <1>1 DEF Connected
<1>3. IsFiniteSet(Connected')
  BY <1>2, FS_RemoveElement
<1>4. ASSUME NEW t \in Tables
      PROVE  Cardinality(Users(t)') = IF t \in touched[s] THEN consumers[t] - 1 ELSE consumers[t]
  <2>1. consumers[t] = Cardinality(Users(t)) /\ IsFiniteSet(Users(t))
    BY FS_Subset DEF Users
  <2>2. Users(t)' = Users(t) \ {s} /\ (s \in Users(t) <=> t \in touched[s])
    BY <1>1, <1>2 DEF Users
  <2> QED BY <2>1, <2>2, FS_RemoveElement
<1>5. consumers' = [t \in Tables |-> Cardinality(Users(t)')]
  BY <1>1, <1>4
<1>6. /\ phase' \in [Sessions -> Phases] /\ phase'[s] = "closed"
      /\ \A u \in Sessions \ {s} : phase'[u] = phase[u] /\ touched'[u] = touched[u]
      /\ touched' \in [Sessions -> SUBSET Tables]
  BY <1>1
<1>7. { u \in Sessions : phase'[u] = "open" } \subseteq instances' /\ instances' \subseteq Connected'
  BY <1>1, <1>2, <1>6
<1>8. /\ \A u \in Sessions : phase'[u] \in {"new", "open", "aborted"} => touched'[u] = named'[u]
      /\ \A u \in Sessions : phase'[u] = "new" => named'[u] = {}
  BY <1>1, <1>6
<1> QED BY <1>1, <1>3, <1>5, <1>6, <1>7, <1>8

LEMMA GaugeStep == GaugeInvariant /\ [Next]_vars => GaugeInvariant'
<1> SUFFICES ASSUME GaugeInvariant, [Next]_vars PROVE GaugeInvariant'
  OBVIOUS
<1>1. CASE TrackNext
  BY <1>1, OpenStep, MessageStep, CloseStep DEF TrackNext
<1>2. CASE UNCHANGED trackVars
  BY <1>2 DEF trackVars, GaugeInvariant, Connected, Users
<1>3. TrackNext \/ UNCHANGED trackVars
  BY DEF Next, vars, MongoChanges, SessionEvent, Observe, ProbeSent, Serve, PingEnds, Tick, GiveUp, Render
<1> QED BY <1>1, <1>2, <1>3

(* The gauges count the sessions and the consumers of each table exactly, for  *)
(* any number of sessions and tables, whatever a handler raises and however a  *)
(* session ends (perspective_handler.py, open, on_message, on_close).          *)
THEOREM GaugesAreExact == Spec => []GaugesExact
<1>1. Init => GaugeInvariant
  BY TrackStart DEF Init
<1>2. GaugeInvariant => GaugesExact
  <2> SUFFICES ASSUME GaugeInvariant PROVE GaugesExact
    OBVIOUS
  <2>1. \A t \in Tables : consumers[t] = Cardinality({ s \in Connected : t \in named[s] })
    BY DEF GaugeInvariant, Users
  <2>2. IsFiniteSet(instances) /\ Cardinality(instances) <= Cardinality(Connected)
    BY FS_Subset DEF GaugeInvariant
  <2>3. Cardinality({ s \in Sessions : phase[s] = "open" }) <= Cardinality(instances)
    BY <2>2, FS_Subset DEF GaugeInvariant
  <2>4. clients = Cardinality(instances)
    BY DEF GaugeInvariant
  <2> QED BY <2>1, <2>2, <2>3, <2>4 DEF GaugesExact
<1> QED BY <1>1, <1>2, GaugeStep, PTL DEF Spec

--------------------------------------------------------------------------------
(* Requests                                                                    *)

Requests == Polls \cup {Probe}
Queued(p) == \E i \in 1 .. Len(queue) : queue[i] = p
Once(q) == \A i, j \in 1 .. Len(q) : q[i] = q[j] => i = j

(* Each poll the server has not answered is in the queue, each request is      *)
(* there once, and the loop is in a ping for a poll only.                      *)
QueueInvariant ==
    /\ queue \in Seq(Requests) /\ Once(queue)
    /\ poll = [p \in Polls |-> poll[p]]
    /\ \A p \in Polls :
         /\ poll[p] = [step |-> poll[p].step, body |-> poll[p].body]
         /\ poll[p].step \in {"idle", "sent", "gone", "answered"}
         /\ poll[p].step \in {"sent", "gone"} <=> Queued(p)
    /\ busy => queue # <<>> /\ queue[1] \in Polls

(* A queue that gains a request it did not have.                               *)
LEMMA Joining ==
    ASSUME QueueInvariant, NEW r \in Requests, ~Queued(r), queue' = Append(queue, r)
    PROVE  /\ queue' \in Seq(Requests) /\ Once(queue') /\ queue' # <<>>
           /\ \A q \in Requests : Queued(q)' <=> Queued(q) \/ q = r
           /\ queue # <<>> => queue'[1] = queue[1]
<1> DEFINE n == Len(queue)
           a == Append(queue, r)
<1>1. /\ n \in Nat /\ Len(a) = n + 1 /\ a[n + 1] = r /\ a \in Seq(Requests)
      /\ \A i \in 1 .. n : a[i] = queue[i] /\ i \in 1 .. Len(a)
      /\ queue # <<>> => 1 \in 1 .. n
  BY DEF QueueInvariant
<1>2. queue' = a
  OBVIOUS
<1>3. \A i \in 1 .. n : queue[i] # r
  BY DEF Queued
<1>4. Once(queue)
  BY DEF QueueInvariant
<1> HIDE DEF a, n
<1>5. \A i \in 1 .. Len(a) : i \in 1 .. n \/ i = n + 1
  BY <1>1
<1>6. n + 1 \in 1 .. Len(a)
  BY <1>1
<1>7. Once(a)
  BY <1>1, <1>3, <1>4, <1>5 DEF Once, n
<1>8. a # <<>>
  <2> SUFFICES ASSUME a = <<>> PROVE FALSE
    OBVIOUS
  <2>1. Len(a) = 0
    OBVIOUS
  <2> QED BY <1>1, <2>1
<1>9. \A q \in Requests : (\E i \in 1 .. Len(a) : a[i] = q) <=> (\E i \in 1 .. n : queue[i] = q) \/ q = r
  BY <1>1, <1>5, <1>6
<1> QED BY <1>1, <1>2, <1>7, <1>8, <1>9 DEF Queued, n

(* A queue that loses its first request.                                       *)
LEMMA Leaving ==
    ASSUME QueueInvariant, queue # <<>>, queue' = Tail(queue)
    PROVE  /\ queue' \in Seq(Requests) /\ Once(queue') /\ Head(queue) = queue[1]
           /\ queue[1] \in Requests /\ Queued(queue[1])
           /\ \A q \in Requests : Queued(q)' <=> Queued(q) /\ q # queue[1]
<1> DEFINE n == Len(queue)
           b == Tail(queue)
<1>1. /\ n \in Nat \ {0} /\ Len(b) = n - 1 /\ b \in Seq(Requests) /\ Head(queue) = queue[1]
      /\ \A i \in 1 .. Len(b) : b[i] = queue[i + 1] /\ i + 1 \in 1 .. n /\ i + 1 # 1
      /\ 1 \in 1 .. n /\ queue[1] \in Requests
  BY DEF QueueInvariant
<1>2. queue' = b
  OBVIOUS
<1>3. Once(queue)
  BY DEF QueueInvariant
<1> HIDE DEF b, n
<1>4. \A i \in 1 .. n : i = 1 \/ (i - 1 \in 1 .. Len(b) /\ b[i - 1] = queue[i])
  <2> SUFFICES ASSUME NEW i \in 1 .. n, i # 1 PROVE i - 1 \in 1 .. Len(b) /\ b[i - 1] = queue[i]
    OBVIOUS
  <2>1. i - 1 \in 1 .. Len(b) /\ (i - 1) + 1 = i
    BY <1>1
  <2> QED BY <1>1, <2>1
<1>5. Once(b)
  <2> SUFFICES ASSUME NEW i \in 1 .. Len(b), NEW j \in 1 .. Len(b), b[i] = b[j] PROVE i = j
    BY DEF Once
  <2>1. i + 1 = j + 1
    BY <1>1, <1>3 DEF Once, n
  <2> QED BY <2>1
<1>6. \A i \in 1 .. Len(b) : b[i] # queue[1]
  BY <1>1, <1>3 DEF Once, n
<1>7. \A q \in Requests : (\E i \in 1 .. Len(b) : b[i] = q) <=> (\E i \in 1 .. n : queue[i] = q) /\ q # queue[1]
  BY <1>1, <1>4, <1>6
<1> QED BY <1>1, <1>2, <1>5, <1>7 DEF Queued, n

LEMMA QueueStep == QueueInvariant /\ [Next]_vars => QueueInvariant'
<1> SUFFICES ASSUME QueueInvariant, [Next]_vars PROVE QueueInvariant'
  OBVIOUS
<1>1. CASE UNCHANGED <<queue, busy, poll>>
  BY <1>1 DEF QueueInvariant, Queued
<1>2. CASE ProbeSent
  <2>1. ~Queued(Probe) /\ queue' = Append(queue, Probe) /\ busy' = busy /\ poll' = poll
    <3>1. ~Contains(queue, Probe)
      BY <1>2 DEF ProbeSent
    <3> QED BY <1>2, <3>1 DEF ProbeSent, pageVars, Contains, Queued
  <2>2. \A p \in Polls : p # Probe /\ p \in Requests
    BY PollsAssumption DEF Requests
  <2> QED BY <2>1, <2>2, Joining DEF QueueInvariant, Requests
<1>3. CASE Serve
  <2>1. CASE Head(queue) = Probe
    <3>1. queue # <<>> /\ queue' = Tail(queue) /\ poll' = poll /\ ~busy'
      BY <1>3, <2>1 DEF Serve, pageVars
    <3>2. \A p \in Polls : p # Probe /\ p \in Requests
      BY PollsAssumption DEF Requests
    <3> QED BY <2>1, <3>1, <3>2, Leaving DEF QueueInvariant
  <2>2. CASE Head(queue) # Probe
    <3>1. queue # <<>> /\ queue' = queue /\ poll' = poll
      BY <1>3, <2>2 DEF Serve, pageVars
    <3>2. queue[1] \in Polls
      <4>1. queue[1] \in Requests /\ Head(queue) = queue[1]
        BY <3>1 DEF QueueInvariant
      <4> QED BY <2>2, <4>1 DEF Requests
    <3> QED BY <3>1, <3>2 DEF QueueInvariant, Queued
  <2> QED BY <2>1, <2>2
<1>4. CASE PingEnds
  <2> DEFINE h == queue[1]
  <2>1. h \in Polls /\ queue # <<>> /\ queue' = Tail(queue) /\ ~busy'
    BY <1>4 DEF PingEnds, QueueInvariant
  <2>2. poll' = [poll EXCEPT ![h] =
                   IF @.step = "sent" THEN [step |-> "answered", body |-> Snapshot] ELSE Idle]
    BY <1>4, <2>1, Leaving DEF PingEnds
  <2> HIDE DEF h
  <2>3. /\ poll' = [p \in Polls |-> poll'[p]]
        /\ \A p \in Polls \ {h} : poll'[p] = poll[p]
        /\ \/ poll'[h] = [step |-> "answered", body |-> Snapshot]
           \/ poll'[h] = [step |-> "idle", body |-> None]
    BY <2>1, <2>2 DEF QueueInvariant, Idle
  <2>4. /\ poll'[h] = [step |-> poll'[h].step, body |-> poll'[h].body]
        /\ poll'[h].step \in {"answered", "idle"}
    BY <2>3
  <2>5. /\ queue' \in Seq(Requests) /\ Once(queue')
        /\ \A q \in Requests : Queued(q)' <=> Queued(q) /\ q # h
    BY <2>1, Leaving DEF h
  <2>6. \A p \in Polls : p \in Requests
    BY DEF Requests
  <2> QED BY <2>1, <2>3, <2>4, <2>5, <2>6 DEF QueueInvariant
<1>5. ASSUME NEW p \in Polls, Tick(p) PROVE QueueInvariant'
  <2>1. /\ poll[p].step = "idle" /\ poll' = [poll EXCEPT ![p].step = "sent"]
        /\ queue' = Append(queue, p) /\ busy' = busy
    BY <1>5 DEF Tick
  <2>2. /\ poll' = [q \in Polls |-> poll'[q]]
        /\ \A q \in Polls \ {p} : poll'[q] = poll[q]
        /\ poll'[p] = [step |-> "sent", body |-> poll[p].body]
    BY <2>1 DEF QueueInvariant
  <2>3. poll'[p] = [step |-> poll'[p].step, body |-> poll'[p].body] /\ poll'[p].step = "sent"
    BY <2>2
  <2>4. ~Queued(p)
    BY <2>1 DEF QueueInvariant
  <2>5. \A q \in Polls : q \in Requests
    BY DEF Requests
  <2>6. /\ queue' \in Seq(Requests) /\ Once(queue') /\ queue' # <<>>
        /\ \A q \in Requests : Queued(q)' <=> Queued(q) \/ q = p
        /\ queue # <<>> => queue'[1] = queue[1]
    BY <2>1, <2>4, <2>5, Joining
  <2> QED BY <2>1, <2>2, <2>3, <2>5, <2>6 DEF QueueInvariant
<1>6. ASSUME NEW p \in Polls, GiveUp(p) PROVE QueueInvariant'
  <2>1. /\ poll[p].step = "sent" /\ poll' = [poll EXCEPT ![p].step = "gone"]
        /\ queue' = queue /\ busy' = busy
    BY <1>6 DEF GiveUp, loopVars
  <2>2. /\ poll' = [q \in Polls |-> poll'[q]]
        /\ \A q \in Polls \ {p} : poll'[q] = poll[q]
        /\ poll'[p] = [step |-> "gone", body |-> poll[p].body]
    BY <2>1 DEF QueueInvariant
  <2>3. poll'[p] = [step |-> poll'[p].step, body |-> poll'[p].body] /\ poll'[p].step = "gone"
    BY <2>2
  <2> QED BY <2>1, <2>2, <2>3 DEF QueueInvariant, Queued
<1>7. ASSUME NEW p \in Polls, Render(p) PROVE QueueInvariant'
  <2>1. /\ poll[p].step = "answered" /\ poll' = [poll EXCEPT ![p] = Idle]
        /\ queue' = queue /\ busy' = busy
    BY <1>7 DEF Render, loopVars
  <2>2. /\ poll' = [q \in Polls |-> poll'[q]]
        /\ \A q \in Polls \ {p} : poll'[q] = poll[q]
        /\ poll'[p] = [step |-> "idle", body |-> None]
    BY <2>1 DEF QueueInvariant, Idle
  <2>3. poll'[p] = [step |-> poll'[p].step, body |-> poll'[p].body] /\ poll'[p].step = "idle"
    BY <2>2
  <2> QED BY <2>1, <2>2, <2>3 DEF QueueInvariant, Queued
<1>8. MongoChanges \/ SessionEvent \/ (\E b \in 1 .. Buckets : Observe(b)) => UNCHANGED <<queue, busy, poll>>
  BY DEF MongoChanges, SessionEvent, Observe, pageVars, loopVars
<1>9. UNCHANGED vars => UNCHANGED <<queue, busy, poll>>
  BY DEF vars, loopVars, pageVars
<1> QED BY <1>1, <1>2, <1>3, <1>4, <1>5, <1>6, <1>7, <1>8, <1>9 DEF Next

(* No poll is lost or answered twice, whatever proxies give up: each that the  *)
(* server has not answered has exactly one request in the queue, and no other  *)
(* has any; a ping is always for a poll (status.py, get; app.py, api_status).  *)
THEOREM RequestsAreKept == Spec => []QueueInvariant
<1>1. Init => QueueInvariant
  <2> SUFFICES ASSUME Init PROVE QueueInvariant
    OBVIOUS
  <2>1. queue = <<>> /\ ~busy /\ poll = [p \in Polls |-> [step |-> "idle", body |-> None]]
    BY DEF Init, Idle
  <2>2. queue \in Seq(Requests) /\ Len(queue) = 0
    BY <2>1
  <2> QED BY <2>1, <2>2 DEF QueueInvariant, Queued, Once
<1> QED BY <1>1, QueueStep, PTL DEF Spec

================================================================================
