------------------------------- MODULE StatusPage -------------------------------
(***************************************************************************)
(* From the counters of the server to the live status page: the status     *)
(* handler (vortex/status.py), the proxy of the admin process (api_status  *)
(* of vortex/admin/app.py) and the page that polls it (status.html).       *)
(*                                                                         *)
(* All handlers run on the one event loop.  The status handler pings       *)
(* MongoDB with a blocking call: while it waits, no other handler runs,    *)
(* neither the liveness probe nor those of the sessions.                   *)
(***************************************************************************)
EXTENDS ConsumerTracking, SequencesExt

CONSTANTS
    Polls,          \* polls of the page that may be in flight
    Buckets,        \* buckets of the latency histogram, the last of them +Inf
    MaxDispatched,  \* bound: dispatches observed
    None, Unreachable, ProxyError

VARIABLES
    mongo,      \* MongoDB is reachable
    observed,   \* the histogram of a table: for each bucket, its cumulative count
    queue,      \* requests the loop has not answered, in the order they came
    busy,       \* the loop is in the ping of the request at the head of queue
    poll,       \* each poll: where it is, and the body of its answer
    page        \* what the page shows: a snapshot, or why there is none

loopVars == <<mongo, observed, queue, busy>>
pageVars == <<poll, page>>
vars == <<trackVars, loopVars, pageVars>>

Infinite == Buckets
Probe == "probe"

ASSUME PollsAssumption == Probe \notin Polls

Idle == [step |-> "idle", body |-> None]

Init ==
    /\ TrackInit
    /\ mongo = TRUE
    /\ observed = [b \in 1 .. Buckets |-> 0]
    /\ queue = <<>> /\ busy = FALSE
    /\ poll = [p \in Polls |-> Idle]
    /\ page = None

MongoChanges == mongo' = ~mongo /\ UNCHANGED <<trackVars, observed, queue, busy, pageVars>>

--------------------------------------------------------------------------------
(* The server *)

(* A dispatch whose duration falls in bucket b is counted in b and above.      *)
Observe(b) ==
    /\ ~busy
    /\ observed[Infinite] < MaxDispatched
    /\ observed' = [c \in 1 .. Buckets |-> IF c >= b THEN observed[c] + 1 ELSE observed[c]]
    /\ UNCHANGED <<trackVars, mongo, queue, busy, pageVars>>

(* A handler of a session runs.                                               *)
SessionEvent == ~busy /\ TrackNext /\ UNCHANGED <<loopVars, pageVars>>

(* _histogram_summary: the upper bound of the first bucket with q percent of   *)
(* all dispatches at or below it.                                              *)
Quantile(q) == Min({ b \in 1 .. Buckets : 100 * observed[b] >= q * observed[Infinite] })

Quantiles == IF observed[Infinite] = 0 THEN {} ELSE { Quantile(q) : q \in {50, 95, 99} }

Snapshot == [consumers |-> consumers, quantiles |-> Quantiles]

ProbeSent ==
    /\ ~Contains(queue, Probe)
    /\ queue' = Append(queue, Probe)
    /\ UNCHANGED <<trackVars, mongo, observed, busy, pageVars>>

(* The loop takes the next request: a liveness probe is answered, a status     *)
(* request begins its ping.                                                    *)
Serve ==
    /\ ~busy /\ queue # <<>>
    /\ IF Head(queue) = Probe
       THEN queue' = Tail(queue) /\ UNCHANGED busy
       ELSE busy' = TRUE /\ UNCHANGED queue
    /\ UNCHANGED <<trackVars, mongo, observed, pageVars>>

\* Mutant: a ping without serverSelectionTimeoutMS.
PingEnds_IfReachable ==
    /\ busy /\ mongo
    /\ busy' = FALSE
    /\ queue' = Tail(queue)
    /\ poll' = [poll EXCEPT ![Head(queue)] =
                  IF @.step = "sent" THEN [step |-> "answered", body |-> Snapshot] ELSE Idle]
    /\ UNCHANGED <<trackVars, mongo, observed, page>>

\* Mutant: a poll whose proxy gave up stays in flight for ever.
PingEnds_LeavesGone ==
    /\ busy
    /\ busy' = FALSE
    /\ queue' = Tail(queue)
    /\ poll' = [poll EXCEPT ![Head(queue)] =
                  IF @.step = "sent" THEN [step |-> "answered", body |-> Snapshot] ELSE @]
    /\ UNCHANGED <<trackVars, mongo, observed, page>>

(* The ping returns or fails, at once or by its time limit, and the handler    *)
(* reads everything else: for a proxy that has given up, in vain.              *)
PingEnds ==
    /\ busy
    /\ busy' = FALSE
    /\ queue' = Tail(queue)
    /\ poll' = [poll EXCEPT ![Head(queue)] =
                  IF @.step = "sent" THEN [step |-> "answered", body |-> Snapshot] ELSE Idle]
    /\ UNCHANGED <<trackVars, mongo, observed, page>>

--------------------------------------------------------------------------------
(* The page and the proxy *)

(* The timer of the page fires; polls may overlap.                             *)
Tick(p) ==
    /\ poll[p].step = "idle"
    /\ poll' = [poll EXCEPT ![p].step = "sent"]
    /\ queue' = Append(queue, p)
    /\ UNCHANGED <<trackVars, mongo, observed, busy, page>>

(* The proxy waits for two seconds, a ping of an unreachable MongoDB for five. *)
GiveUp(p) ==
    /\ poll[p].step = "sent" /\ busy /\ ~mongo
    /\ poll' = [poll EXCEPT ![p].step = "gone"]
    /\ page' = Unreachable
    /\ UNCHANGED <<trackVars, loopVars>>

(* The page parses what the proxy passes on, and shows it in the order of the  *)
(* answers.  An infinite quantile is written as Infinity, which both servers   *)
(* write and read and the browser does not.                                    *)
Render(p) ==
    /\ poll[p].step = "answered"
    /\ page' = IF Infinite \in poll[p].body.quantiles THEN ProxyError ELSE poll[p].body
    /\ poll' = [poll EXCEPT ![p] = Idle]
    /\ UNCHANGED <<trackVars, loopVars>>

Next ==
    \/ MongoChanges \/ SessionEvent \/ \E b \in 1 .. Buckets : Observe(b)
    \/ ProbeSent \/ Serve \/ PingEnds
    \/ \E p \in Polls : Tick(p) \/ GiveUp(p) \/ Render(p)

(* The loop runs, pings are bounded, the page goes on polling and answers      *)
(* arrive; nothing is asked of MongoDB.                                        *)
Fairness ==
    /\ WF_vars(Serve) /\ WF_vars(PingEnds)
    /\ \A p \in Polls : WF_vars(Tick(p)) /\ WF_vars(Render(p))

Spec == Init /\ [][Next]_vars /\ Fairness

--------------------------------------------------------------------------------
(* Properties *)

Shows(t, n) == page \notin {None, Unreachable, ProxyError} /\ page.consumers[t] = n

(* The page comes to show the consumers of each table and goes on showing      *)
(* them, whatever polls failed or overtook each other before, once they stay   *)
(* the same, MongoDB stays reachable and no quantile is infinite (README.md,   *)
(* "you should see the consumer count on the /status page increment").         *)
PageCatchesUp ==
    \A t \in Tables, n \in 0 .. Cardinality(Sessions) :
        <>[](consumers[t] = n /\ mongo /\ Infinite \notin Quantiles) => <>[]Shows(t, n)

(* A liveness probe is answered in the end, behind any number of status        *)
(* requests and with MongoDB gone for good (health.py, LivenessHandler).       *)
ProbeIsAnswered == Contains(queue, Probe) ~> ~Contains(queue, Probe)

(* Every answer of /api/status is JSON (the docstring of StatusHandler).       *)
SnapshotIsJSON ==
    \A p \in Polls : poll[p].step = "answered" => Infinite \notin poll[p].body.quantiles

================================================================================
