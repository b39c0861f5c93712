------------------------------ MODULE AdminProofs ------------------------------
(***************************************************************************)
(* What holds of the configuration for any number of requests, transports  *)
(* and tables: a request acts on a check that still holds unless another   *)
(* has written since, and so references break only by such a race or by a  *)
(* rename, and edits of tables make copies only by such a race.            *)
(***************************************************************************)
EXTENDS AdminStore, FiniteSetTheorems, TLAPS

AdminInvariant == AdminTypeOK /\ ChecksHold

(* A thread at rest has checked nothing.                                       *)
LEMMA IdleHolds == WellFormed(Idle) /\ CheckHolds(Idle)
BY DEF Idle, WellFormed, RequestType, Steps, Kinds, CheckHolds

LEMMA AdminStart == AdminInit => AdminInvariant
<1> SUFFICES ASSUME AdminInit PROVE AdminInvariant
  OBVIOUS
<1>1. \A w \in Requests : request[w] = Idle
  BY DEF AdminInit
<1>2. AdminTypeOK
  BY <1>1, IdleHolds, AdminAssumption DEF AdminInit, AdminTypeOK, BootType
<1>3. ChecksHold
  BY <1>1, IdleHolds DEF ChecksHold
<1> QED BY <1>2, <1>3 DEF AdminInvariant

(* A step that only reads: the thread's own check must hold.                   *)
LEMMA ReadStep ==
    ASSUME AdminInvariant, NEW w \in Requests, NEW next, Reads(w, next),
           WellFormed(next), ~next.stale => CheckHolds(next)
    PROVE  AdminInvariant'
<1>1. \A v \in Requests : request'[v] = IF v = w THEN next ELSE request[v]
  BY DEF Reads, AdminInvariant, AdminTypeOK
<1>2. AdminTypeOK'
  BY <1>1 DEF Reads, AdminInvariant, AdminTypeOK, WellFormed
<1>3. ChecksHold'
  BY <1>1 DEF Reads, AdminInvariant, ChecksHold, CheckHolds
<1> QED BY <1>2, <1>3 DEF AdminInvariant

(* To mark a request changes nothing else about it.                            *)
LEMMA Marked ==
    ASSUME NEW r, WellFormed(r), NEW b \in BOOLEAN
    PROVE  /\ WellFormed([r EXCEPT !.stale = b])
           /\ [r EXCEPT !.stale = b].step = r.step
           /\ [r EXCEPT !.stale = b].kind = r.kind
           /\ [r EXCEPT !.stale = b].old = r.old
           /\ [r EXCEPT !.stale = b].new = r.new
           /\ [r EXCEPT !.stale = b].stale = b
<1> DEFINE m == [r EXCEPT !.stale = b]
<1>1. r \in RequestType
  BY DEF WellFormed
<1>2. m \in RequestType
  BY <1>1 DEF RequestType
<1>3. m.step = r.step /\ m.kind = r.kind /\ m.old = r.old /\ m.new = r.new /\ m.ref = r.ref /\ m.seed = r.seed
  BY <1>1 DEF RequestType
<1>4. m.stale = b
  BY <1>1 DEF RequestType
<1> HIDE DEF m
<1>5. WellFormed(m)
  BY <1>2, <1>3 DEF WellFormed
<1> QED BY <1>3, <1>4, <1>5 DEF m

(* A step that writes: it overtakes every other request that has read.         *)
LEMMA WriteStep ==
    ASSUME AdminInvariant, NEW w \in Requests, NEW next, Writes(w, next),
           transports' \subseteq Transports, tables' \in [Tables -> Transports \cup {None}],
           boot' \in BootType, UNCHANGED faults,
           WellFormed(next), ~next.stale => CheckHolds(next)'
    PROVE  AdminInvariant'
<1>1. \A v \in Requests : request'[v] =
        IF v = w THEN next ELSE [request[v] EXCEPT !.stale = HasRead(request[v])]
  BY DEF Writes
<1>2. \A v \in Requests :
        /\ WellFormed([request[v] EXCEPT !.stale = HasRead(request[v])])
        /\ [request[v] EXCEPT !.stale = HasRead(request[v])].step = request[v].step
        /\ [request[v] EXCEPT !.stale = HasRead(request[v])].stale = HasRead(request[v])
  <2> SUFFICES ASSUME NEW v \in Requests
               PROVE  /\ WellFormed([request[v] EXCEPT !.stale = HasRead(request[v])])
                      /\ [request[v] EXCEPT !.stale = HasRead(request[v])].step = request[v].step
                      /\ [request[v] EXCEPT !.stale = HasRead(request[v])].stale = HasRead(request[v])
    OBVIOUS
  <2>1. WellFormed(request[v])
    BY DEF AdminInvariant, AdminTypeOK
  <2>2. HasRead(request[v]) \in BOOLEAN
    BY DEF HasRead
  <2> QED BY <2>1, <2>2, Marked
<1>3. AdminTypeOK'
  BY <1>1, <1>2 DEF Writes, AdminInvariant, AdminTypeOK, WellFormed
<1>4. ChecksHold'
  <2> SUFFICES ASSUME NEW v \in Requests, ~request'[v].stale PROVE CheckHolds(request[v])'
    BY DEF ChecksHold
  <2>1. CASE v = w
    BY <2>1, <1>1 DEF CheckHolds
  <2>2. CASE v # w
    <3>1. request'[v].step \notin {"delete", "upsert"}
      BY <2>2, <1>1, <1>2 DEF HasRead
    <3> QED BY <3>1 DEF CheckHolds
  <2> QED BY <2>1, <2>2
<1> QED BY <1>3, <1>4 DEF AdminInvariant

LEMMA SubmitTransportStep ==
    ASSUME AdminInvariant, NEW w \in Requests, SubmitTransport(w)
    PROVE  AdminInvariant'
<1>1. PICK new \in Transports, old \in Transports \cup {None} :
        Reads(w, [Idle EXCEPT !.step = IF old = None THEN "upsert" ELSE "find",
                              !.kind = "transport", !.old = old, !.new = new])
  BY DEF SubmitTransport
<1> DEFINE next == [Idle EXCEPT !.step = IF old = None THEN "upsert" ELSE "find",
                                !.kind = "transport", !.old = old, !.new = new]
<1>2. WellFormed(next) /\ CheckHolds(next)
  BY AdminAssumption DEF Idle, WellFormed, RequestType, Steps, Kinds, CheckHolds
<1> QED BY <1>1, <1>2, ReadStep

LEMMA SubmitTableStep ==
    ASSUME AdminInvariant, NEW w \in Requests, SubmitTable(w)
    PROVE  AdminInvariant'
<1>1. PICK new \in Tables, old \in Tables \cup {None}, ref \in Transports :
        Reads(w, [Idle EXCEPT !.step = IF old = None THEN "check" ELSE "find",
                              !.old = old, !.new = new, !.ref = ref])
  BY DEF SubmitTable
<1> DEFINE next == [Idle EXCEPT !.step = IF old = None THEN "check" ELSE "find",
                                !.old = old, !.new = new, !.ref = ref]
<1>2. WellFormed(next) /\ CheckHolds(next)
  BY AdminAssumption DEF Idle, WellFormed, RequestType, Steps, Kinds, CheckHolds
<1> QED BY <1>1, <1>2, ReadStep

(* A form that goes on names the same entries, so it stays well formed.        *)
LEMMA GoesOn ==
    ASSUME AdminInvariant, NEW w \in Requests, NEW step \in Steps \ {"idle"},
           ~At(w, "idle"), ~At(w, "upsert"),
           step \in {"find", "delete"} => request[w].old # None,
           step \in {"find", "upsert"} => request[w].new # None,
           step = "check" => request[w].kind = "table"
    PROVE  /\ WellFormed(Goes(w, step))
           /\ Goes(w, step).step = step
           /\ Goes(w, step).kind = request[w].kind
           /\ Goes(w, step).new = request[w].new
           /\ Goes(w, step).old = request[w].old
           /\ Goes(w, step).ref = request[w].ref
           /\ Goes(w, step).stale = request[w].stale
<1>1. WellFormed(request[w])
  BY DEF AdminInvariant, AdminTypeOK
<1>2. request[w] \in RequestType
  BY <1>1 DEF WellFormed
<1> DEFINE r == request[w]
           next == Goes(w, step)
<1>3. /\ next \in RequestType
      /\ next.step = step /\ next.kind = r.kind /\ next.new = r.new
      /\ next.old = r.old /\ next.ref = r.ref /\ next.stale = r.stale /\ next.seed = r.seed
  BY <1>2 DEF Goes, RequestType
<1> HIDE DEF next
<1>4. WellFormed(next)
  BY <1>1, <1>3 DEF WellFormed, At
<1> QED BY <1>3, <1>4 DEF next

LEMMA FindStep ==
    ASSUME AdminInvariant, NEW w \in Requests, Find(w)
    PROVE  AdminInvariant'
<1> DEFINE step == IF request[w].kind = "table" THEN "check" ELSE Save(w)
<1>1. At(w, "find") /\ WellFormed(request[w])
  BY DEF Find, AdminInvariant, AdminTypeOK
<1>2. step \in Steps \ {"idle", "find"}
  BY DEF Save, Steps
<1>3. CASE Exists(w)
  <2>1. Reads(w, Goes(w, step))
    BY <1>3 DEF Find
  <2>2. request[w].old # None /\ request[w].new # None
    BY <1>1 DEF At, WellFormed
  <2>3. step = "check" => request[w].kind = "table"
    BY DEF Save
  <2>4. step = "check" \/ request[w].kind # "table"
    OBVIOUS
  <2> HIDE DEF step
  <2>5. /\ WellFormed(Goes(w, step))
        /\ Goes(w, step).step = step
        /\ Goes(w, step).kind = request[w].kind
        /\ Goes(w, step).new = request[w].new
    BY <1>1, <1>2, <2>2, <2>3, GoesOn DEF At
  <2>6. CheckHolds(Goes(w, step))
    BY <2>2, <2>4, <2>5 DEF CheckHolds
  <2> QED BY <2>1, <2>5, <2>6, ReadStep
<1>4. CASE ~Exists(w)
  BY <1>4, IdleHolds, ReadStep DEF Find
<1> QED BY <1>3, <1>4

LEMMA CheckStep ==
    ASSUME AdminInvariant, NEW w \in Requests, Check(w)
    PROVE  AdminInvariant'
<1>1. At(w, "check") /\ WellFormed(request[w])
  BY DEF Check, AdminInvariant, AdminTypeOK
<1>2. CASE request[w].ref \in transports
  <2>1. Reads(w, Goes(w, Save(w)))
    BY <1>2 DEF Check
  <2>2. request[w].kind = "table" /\ request[w].new # None
    BY <1>1, AdminAssumption DEF At, WellFormed
  <2>3. /\ Save(w) \in {"delete", "upsert"}
        /\ Save(w) = "delete" => request[w].old # None
    BY DEF Save
  <2>4. /\ WellFormed(Goes(w, Save(w)))
        /\ Goes(w, Save(w)).kind = request[w].kind
        /\ Goes(w, Save(w)).ref = request[w].ref
    BY <1>1, <2>2, <2>3, GoesOn DEF At, Steps
  <2>5. CheckHolds(Goes(w, Save(w)))
    BY <1>2, <2>2, <2>4 DEF CheckHolds
  <2> QED BY <2>1, <2>4, <2>5, ReadStep
<1>3. CASE request[w].ref \notin transports
  BY <1>3, IdleHolds, ReadStep DEF Check
<1> QED BY <1>2, <1>3

LEMMA DeleteTransportStep ==
    ASSUME AdminInvariant, NEW w \in Requests, DeleteTransport(w)
    PROVE  AdminInvariant'
<1>1. PICK n \in Transports :
        /\ \A t \in Tables : tables[t] # n
        /\ Reads(w, [Idle EXCEPT !.step = "delete", !.kind = "transport", !.old = n])
  BY DEF DeleteTransport
<1> DEFINE next == [Idle EXCEPT !.step = "delete", !.kind = "transport", !.old = n]
<1>2. WellFormed(next) /\ CheckHolds(next)
  BY <1>1, AdminAssumption DEF Idle, WellFormed, RequestType, Steps, Kinds, CheckHolds
<1> QED BY <1>1, <1>2, ReadStep

LEMMA DeleteTableStep ==
    ASSUME AdminInvariant, NEW w \in Requests, DeleteTable(w)
    PROVE  AdminInvariant'
<1>1. Writes(w, Idle) /\ UNCHANGED <<transports, faults>> /\ boot' \in BootType
  BY DEF DeleteTable, AdminInvariant, AdminTypeOK
<1>2. transports' \subseteq Transports /\ tables' \in [Tables -> Transports \cup {None}]
  BY DEF DeleteTable, AdminInvariant, AdminTypeOK
<1>3. CheckHolds(Idle)'
  BY DEF Idle, CheckHolds
<1> QED BY <1>1, <1>2, <1>3, IdleHolds, WriteStep

LEMMA DeleteStep ==
    ASSUME AdminInvariant, NEW w \in Requests, Delete(w)
    PROVE  AdminInvariant'
<1> DEFINE r == request[w]
<1>1. /\ r.step = "delete" /\ WellFormed(r) /\ ~At(w, "idle") /\ ~At(w, "upsert")
      /\ UNCHANGED faults /\ boot' \in BootType
      /\ Writes(w, IF r.new = None THEN Idle ELSE Goes(w, "upsert"))
  BY DEF Delete, At, AdminInvariant, AdminTypeOK
<1>2. transports' \subseteq Transports /\ tables' \in [Tables -> Transports \cup {None}]
  BY DEF Delete, AdminInvariant, AdminTypeOK
<1>3. CASE r.new = None
  <2>1. CheckHolds(Idle)'
    BY DEF Idle, CheckHolds
  <2> QED BY <1>1, <1>2, <1>3, <2>1, IdleHolds, WriteStep
<1>4. CASE r.new # None
  <2>1. PICK next : next = Goes(w, "upsert")
    OBVIOUS
  <2>2. /\ WellFormed(next) /\ Writes(w, next)
        /\ next.step = "upsert" /\ next.kind = r.kind
        /\ next.ref = r.ref /\ next.stale = r.stale
    BY <1>1, <1>4, <2>1, GoesOn DEF Steps
  <2>3. ASSUME ~next.stale PROVE CheckHolds(next)'
    <3>1. CheckHolds(r)
      BY <2>2, <2>3 DEF AdminInvariant, ChecksHold
    <3>2. r.kind = "table" => transports' = transports
      BY DEF Delete
    <3>3. r.kind = "table" => r.ref \in transports'
      BY <1>1, <3>1, <3>2 DEF CheckHolds
    <3> QED BY <2>2, <3>3 DEF CheckHolds
  <2> QED BY <1>1, <1>2, <2>2, <2>3, WriteStep
<1> QED BY <1>3, <1>4

(* What the script writes after a transport refers to that transport.          *)
LEMMA FollowingHolds ==
    ASSUME NEW r, WellFormed(r), r.step = "upsert", NEW next \in Following(r)
    PROVE  /\ WellFormed(next)
           /\ next.kind = "table" /\ next.step # "delete"
           /\ next.step = "upsert" => r.kind = "transport" /\ next.ref = r.new
<1>1. CASE r.seed /\ r.kind = "transport"
  <2>1. r.new \in Transports
    BY <1>1 DEF WellFormed
  <2>2. PICK t \in Tables :
          next = [Idle EXCEPT !.step = "upsert", !.new = t, !.ref = r.new, !.seed = TRUE]
    BY <1>1 DEF Following
  <2> QED BY <1>1, <2>1, <2>2, AdminAssumption DEF Idle, WellFormed, RequestType, Steps, Kinds
<1>2. CASE ~(r.seed /\ r.kind = "transport")
  <2>1. next = Idle
    BY <1>2, Zenon DEF Following
  <2> QED BY <2>1, IdleHolds DEF Idle
<1> QED BY <1>1, <1>2

LEMMA UpsertStep ==
    ASSUME AdminInvariant, NEW w \in Requests, Upsert(w)
    PROVE  AdminInvariant'
<1>1. /\ request[w].step = "upsert" /\ WellFormed(request[w]) /\ UNCHANGED faults
      /\ transports \subseteq Transports /\ tables \in [Tables -> Transports \cup {None}]
      /\ boot \in BootType
  BY DEF Upsert, At, AdminInvariant, AdminTypeOK
<1>2. PICK next \in Following(request[w]) : Writes(w, next)
  BY DEF Upsert
<1>3. /\ WellFormed(next) /\ next.kind = "table" /\ next.step # "delete"
      /\ next.step = "upsert" => request[w].kind = "transport" /\ next.ref = request[w].new
  BY <1>1, <1>2, FollowingHolds
<1>4. CASE request[w].kind = "transport"
  <2>1. request[w].new \in Transports
    BY <1>1, <1>4 DEF WellFormed
  <2>2. transports' = transports \cup {request[w].new} /\ tables' = tables
    BY <1>4 DEF Upsert
  <2>3. boot' \in BootType
    BY <1>1, <1>4, <2>1 DEF Upsert, BootType
  <2>4. CheckHolds(next)'
    BY <1>3, <2>2 DEF CheckHolds
  <2> QED BY <1>1, <1>2, <1>3, <2>1, <2>2, <2>3, <2>4, WriteStep
<1>5. CASE request[w].kind # "transport"
  <2>1. request[w].ref \in Transports \cup {None}
    BY <1>1 DEF WellFormed, RequestType
  <2>2. transports' = transports /\ tables' \in [Tables -> Transports \cup {None}] /\ boot' = boot
    BY <1>1, <1>5, <2>1 DEF Upsert
  <2>3. CheckHolds(next)'
    BY <1>3, <1>5 DEF CheckHolds
  <2> QED BY <1>1, <1>2, <1>3, <2>2, <2>3, WriteStep
<1> QED BY <1>4, <1>5

LEMMA RunSeedStep ==
    ASSUME AdminInvariant, NEW w \in Requests, RunSeed(w)
    PROVE  AdminInvariant'
<1>1. PICK n \in Transports :
        Reads(w, [Idle EXCEPT !.step = "upsert", !.kind = "transport", !.new = n, !.seed = TRUE])
  BY DEF RunSeed
<1> DEFINE next == [Idle EXCEPT !.step = "upsert", !.kind = "transport", !.new = n, !.seed = TRUE]
<1>2. WellFormed(next) /\ CheckHolds(next)
  BY AdminAssumption DEF Idle, WellFormed, RequestType, Steps, Kinds, CheckHolds
<1> QED BY <1>1, <1>2, ReadStep

LEMMA CallFailsStep ==
    ASSUME AdminInvariant, NEW w \in Requests, CallFails(w)
    PROVE  AdminInvariant'
<1>1. \A v \in Requests : request'[v] = IF v = w THEN Idle ELSE request[v]
  BY DEF CallFails, AdminInvariant, AdminTypeOK
<1>2. faults' \in 0 .. MaxFaults
  BY AdminAssumption DEF CallFails, AdminInvariant, AdminTypeOK
<1>3. AdminTypeOK'
  BY <1>1, <1>2, IdleHolds DEF CallFails, AdminInvariant, AdminTypeOK, WellFormed
<1>4. ChecksHold'
  BY <1>1, IdleHolds DEF CallFails, AdminInvariant, ChecksHold, CheckHolds
<1> QED BY <1>3, <1>4 DEF AdminInvariant

LEMMA LoadConfigsStep ==
    ASSUME AdminInvariant, LoadConfigs
    PROVE  AdminInvariant'
<1>1. boot' \in BootType
  <2>1. boot.loading \in BOOLEAN /\ transports \subseteq Transports
    BY DEF AdminInvariant, AdminTypeOK, BootType
  <2>2. Dangling(tables, boot.read) \subseteq Tables
    BY DEF Dangling, Present
  <2>3. CASE boot.loading
    <3>1. boot' = [loading |-> FALSE, read |-> {}, orphans |-> Dangling(tables, boot.read), added |-> {}]
      BY <2>3, Zenon DEF LoadConfigs
    <3> QED BY <2>2, <3>1 DEF BootType
  <2>4. CASE ~boot.loading
    <3>1. boot' = [loading |-> TRUE, read |-> transports, orphans |-> {}, added |-> {}]
      BY <2>4, Zenon DEF LoadConfigs
    <3> QED BY <2>1, <3>1 DEF BootType
  <2> QED BY <2>3, <2>4
<1> QED BY <1>1 DEF LoadConfigs, AdminInvariant, AdminTypeOK, ChecksHold, CheckHolds, WellFormed

LEMMA AdminStep == AdminInvariant /\ [AdminNext]_adminVars => AdminInvariant'
<1> SUFFICES ASSUME AdminInvariant, [AdminNext]_adminVars PROVE AdminInvariant'
  OBVIOUS
<1>1. CASE UNCHANGED adminVars
  BY <1>1 DEF adminVars, AdminInvariant, AdminTypeOK, ChecksHold, CheckHolds, WellFormed
<1>2. CASE LoadConfigs
  BY <1>2, LoadConfigsStep
<1>3. ASSUME NEW w \in Requests,
             \/ SubmitTransport(w) \/ SubmitTable(w) \/ RunSeed(w) \/ Find(w) \/ Check(w)
             \/ DeleteTransport(w) \/ DeleteTable(w)
             \/ Delete(w) \/ Upsert(w) \/ CallFails(w)
      PROVE  AdminInvariant'
  BY <1>3, SubmitTransportStep, SubmitTableStep, RunSeedStep, FindStep, CheckStep,
     DeleteTransportStep, DeleteTableStep, DeleteStep, UpsertStep, CallFailsStep
<1> QED BY <1>1, <1>2, <1>3 DEF AdminNext

(* A request that no other has overtaken since it first read writes on a check *)
(* that still holds: there is nothing else to hold it against (app.py,         *)
(* transport_delete and _handle_table_form).                                   *)
THEOREM ChecksHoldUnlessOvertaken == AdminSpec => []ChecksHold
<1>1. AdminInvariant => ChecksHold
  BY DEF AdminInvariant
<1> QED BY <1>1, AdminStart, AdminStep, PTL DEF AdminSpec

(* The step of the request w that breaks a reference is a write of w, on an    *)
(* overtaken check or in the rename of a transport.                            *)
LEMMA BreakStep ==
    ASSUME AdminInvariant, AdminNext,
           ~(Dangling(tables', transports') \subseteq Dangling(tables, transports))
    PROVE  \E w \in Requests :
             Wrote(w) /\ \/ request[w].stale
                         \/ request[w].kind = "transport" /\ request[w].new # None
<1>1. ~(UNCHANGED <<transports, tables>>)
  BY DEF Dangling, Present
<1>2. PICK w \in Requests :
        \/ SubmitTransport(w) \/ SubmitTable(w) \/ RunSeed(w) \/ Find(w) \/ Check(w)
        \/ DeleteTransport(w) \/ DeleteTable(w)
        \/ Delete(w) \/ Upsert(w) \/ CallFails(w)
  BY <1>1 DEF AdminNext, LoadConfigs
<1>3. ~(SubmitTransport(w) \/ SubmitTable(w) \/ RunSeed(w) \/ Find(w) \/ Check(w)
         \/ DeleteTransport(w) \/ CallFails(w))
  BY <1>1 DEF SubmitTransport, SubmitTable, RunSeed, Find, Check, DeleteTransport, CallFails, Reads
<1>4. ~DeleteTable(w)
  BY DEF DeleteTable, Dangling, Present, AdminInvariant, AdminTypeOK
<1>5. Delete(w) \/ Upsert(w)
  BY <1>2, <1>3, <1>4
<1>6. WellFormed(request[w]) /\ request[w].kind \in {"transport", "table"}
  BY DEF AdminInvariant, AdminTypeOK, WellFormed, RequestType, Kinds
<1>7. Wrote(w)
  <2>1. Delete(w) => request'[w].step # "delete"
    BY <1>6 DEF Delete, Writes, Idle, Goes, At, AdminInvariant, AdminTypeOK, WellFormed, RequestType
  <2>2. ASSUME Upsert(w) PROVE request'[w].step # request[w].step \/ request'[w].kind # request[w].kind
    <3>1. PICK next \in Following(request[w]) : Writes(w, next)
      BY <2>2 DEF Upsert
    <3>2. request[w].step = "upsert"
      BY <2>2 DEF Upsert, At
    <3>3. next.kind = "table" /\ (next.step = "upsert" => request[w].kind = "transport")
      BY <1>6, <3>1, <3>2, FollowingHolds
    <3>4. request'[w] = next
      BY <3>1 DEF Writes
    <3> QED BY <3>2, <3>3, <3>4
  <2> QED BY <1>5, <2>1, <2>2 DEF Wrote, Acts, Delete, Upsert, At
<1>8. ASSUME ~request[w].stale
      PROVE  request[w].kind = "transport" /\ request[w].new # None
  <2>1. CheckHolds(request[w])
    BY <1>8 DEF AdminInvariant, ChecksHold
  <2>2. ~Upsert(w)
    <3> SUFFICES ASSUME Upsert(w) PROVE FALSE
      OBVIOUS
    <3>1. request[w].kind = "transport" => transports \subseteq transports' /\ tables' = tables
      BY DEF Upsert
    <3>2. request[w].kind = "table" =>
            /\ request[w].ref \in transports /\ transports' = transports
            /\ \A t \in Tables : tables'[t] = tables[t] \/ tables'[t] = request[w].ref
      BY <2>1 DEF Upsert, At, CheckHolds, AdminInvariant, AdminTypeOK
    <3> QED BY <1>6, <3>1, <3>2 DEF Dangling, Present
  <2>3. Delete(w) /\ request[w].step = "delete"
    BY <1>5, <2>2 DEF Delete, At
  <2>4. request[w].kind = "transport"
    <3> SUFFICES ASSUME request[w].kind = "table" PROVE FALSE
      BY <1>6
    <3>1. /\ transports' = transports
          /\ \A t \in Tables : tables'[t] = tables[t] \/ tables'[t] = None
      BY <2>3 DEF Delete, AdminInvariant, AdminTypeOK
    <3> QED BY <3>1 DEF Dangling, Present
  <2>5. request[w].new # None
    <3> SUFFICES ASSUME request[w].new = None PROVE FALSE
      OBVIOUS
    <3>1. \A t \in Tables : tables[t] # request[w].old
      BY <2>1, <2>3, <2>4 DEF CheckHolds
    <3>2. transports' = transports \ {request[w].old} /\ tables' = tables
      BY <2>3, <2>4 DEF Delete
    <3> QED BY <3>1, <3>2 DEF Dangling, Present
  <2> QED BY <2>4, <2>5
<1> QED BY <1>7, <1>8

(* A table comes to refer to a transport that is not there by a race or by the *)
(* rename of a transport, and in no other way, however many requests run       *)
(* (app.py, transport_delete, _handle_transport_form, _handle_table_form).     *)
THEOREM ReferencesBreakOnlySo == AdminSpec => ReferencesBreakByRace
<1>1. AdminInvariant /\ [AdminNext]_adminVars =>
        [ ~(Dangling(tables', transports') \subseteq Dangling(tables, transports)) =>
            \E w \in Requests :
              Wrote(w) /\ \/ request[w].stale
                          \/ request[w].kind = "transport" /\ request[w].new # None ]_adminVars
  BY BreakStep
<1> QED BY <1>1, AdminStart, AdminStep, PTL DEF AdminSpec, ReferencesBreakByRace

(* What the server has not read it finds missing only if it was written since. *)
KnownToBoot == boot.loading => transports \subseteq boot.read \cup boot.added

LEMMA KnownStep ==
    ASSUME AdminInvariant, KnownToBoot, [AdminNext]_adminVars
    PROVE  KnownToBoot'
<1>1. boot \in BootType
  BY DEF AdminInvariant, AdminTypeOK
<1>2. CASE LoadConfigs
  BY <1>2 DEF LoadConfigs, KnownToBoot
<1>3. CASE boot' = boot /\ transports' \subseteq transports
  BY <1>3 DEF KnownToBoot
<1>4. ASSUME NEW w \in Requests, Upsert(w) PROVE KnownToBoot'
  BY <1>1, <1>4, <1>3 DEF Upsert, KnownToBoot, BootType
<1>5. ASSUME NEW w \in Requests,
             \/ SubmitTransport(w) \/ SubmitTable(w) \/ RunSeed(w) \/ Find(w) \/ Check(w)
             \/ DeleteTransport(w) \/ DeleteTable(w) \/ Delete(w) \/ CallFails(w)
      PROVE  boot' = boot /\ transports' \subseteq transports
  BY <1>5 DEF SubmitTransport, SubmitTable, RunSeed, Find, Check, DeleteTransport,
     DeleteTable, Delete, CallFails, Reads
<1>6. CASE UNCHANGED adminVars
  BY <1>6, <1>3 DEF adminVars
<1> QED BY <1>2, <1>3, <1>4, <1>5, <1>6 DEF AdminNext

(* A server that boots while the forms and the script run misses the transport *)
(* of a table only if the store has none, or if it was written between the two *)
(* reads (server.py, main).                                                    *)
THEOREM OrphansAreNewOnly == AdminSpec => OrphansAreNew
<1> DEFINE Step == boot.loading /\ ~boot'.loading =>
                     boot'.orphans \subseteq Dangling(tables, transports)
                                            \cup { t \in Tables : tables[t] \in boot.added }
<1>1. ASSUME AdminInvariant, KnownToBoot, [AdminNext]_adminVars PROVE [Step]_adminVars
  <2> SUFFICES ASSUME boot.loading, ~boot'.loading PROVE Step
    OBVIOUS
  <2>1. LoadConfigs
    BY <1>1 DEF AdminNext, adminVars, SubmitTransport, SubmitTable, RunSeed, Find, Check,
       DeleteTransport, DeleteTable, Delete, Upsert, CallFails, Reads, AdminInvariant, AdminTypeOK, BootType
  <2>2. boot'.orphans = Dangling(tables, boot.read)
    BY <2>1 DEF LoadConfigs
  <2>3. transports \subseteq boot.read \cup boot.added
    BY <1>1 DEF KnownToBoot
  <2> QED BY <2>2, <2>3 DEF Dangling, Present
<1>2. AdminInit => KnownToBoot
  BY DEF AdminInit, KnownToBoot
<1>3. AdminInvariant /\ KnownToBoot /\ [AdminNext]_adminVars => (AdminInvariant /\ KnownToBoot)'
  BY AdminStep, KnownStep
<1>4. AdminInvariant /\ KnownToBoot /\ [AdminNext]_adminVars => [Step]_adminVars
  BY <1>1
<1> QED BY <1>2, <1>3, <1>4, AdminStart, PTL DEF AdminSpec, OrphansAreNew

--------------------------------------------------------------------------------
(* Copies and losses                                                           *)

Renaming(w, kind) == request[w].kind = kind /\ InRename(request[w])
Renames(kind) == { w \in Requests : Renaming(w, kind) }

(* What an edit has looked up is there until it deletes or overwrites it,      *)
(* unless another request has written since.                                   *)
Grounded(r) ==
    /\ r.step = "delete" => r.old \notin {None, r.new}
    /\ ~r.stale /\ r.old # None /\ \/ r.step = "check"
                                   \/ r.step = "delete" /\ r.new # None
                                   \/ r.step = "upsert" /\ r.old = r.new
         => r.old \in Store(r.kind)

EditInvariant ==
    /\ \A kind \in Kinds : IsFiniteSet(Store(kind)) /\ IsFiniteSet(Renames(kind))
    /\ \A w \in Requests : Grounded(request[w])

(* What a step of w does to the other requests: nothing, or, with a write, it  *)
(* makes what they have read out of date.                                      *)
OthersKeep(w) ==
    \A v \in Requests \ {w} :
        /\ request'[v].step = request[v].step /\ request'[v].kind = request[v].kind
        /\ request'[v].old = request[v].old /\ request'[v].new = request[v].new
        /\ \/ request'[v].stale = request[v].stale /\ UNCHANGED <<transports, tables>>
           \/ request'[v].stale = HasRead(request[v])

LEMMA ReadsKeeps ==
    ASSUME AdminInvariant, NEW w \in Requests, NEW next, Reads(w, next)
    PROVE  OthersKeep(w) /\ request'[w] = next /\ UNCHANGED <<transports, tables>>
<1>1. \A v \in Requests : request'[v] = IF v = w THEN next ELSE request[v]
  BY DEF Reads, AdminInvariant, AdminTypeOK
<1> QED BY <1>1 DEF Reads, OthersKeep

LEMMA WritesKeeps ==
    ASSUME AdminInvariant, NEW w \in Requests, NEW next, Writes(w, next)
    PROVE  OthersKeep(w) /\ request'[w] = next
<1>1. \A v \in Requests : request'[v] =
        IF v = w THEN next ELSE [request[v] EXCEPT !.stale = HasRead(request[v])]
  BY DEF Writes
<1>2. ASSUME NEW v \in Requests \ {w}
      PROVE  /\ request'[v].step = request[v].step /\ request'[v].kind = request[v].kind
             /\ request'[v].old = request[v].old /\ request'[v].new = request[v].new
             /\ request'[v].stale = HasRead(request[v])
  <2>1. WellFormed(request[v]) /\ HasRead(request[v]) \in BOOLEAN
    BY DEF AdminInvariant, AdminTypeOK, HasRead
  <2>2. request'[v] = [request[v] EXCEPT !.stale = HasRead(request[v])]
    BY <1>1
  <2> QED BY <2>1, <2>2, Marked
<1> QED BY <1>1, <1>2 DEF OthersKeep

(* A set with one element more, and with one less.                             *)
LEMMA OneMore ==
    ASSUME NEW S, IsFiniteSet(S), NEW x, NEW T, T = S \cup {x}
    PROVE  /\ IsFiniteSet(T) /\ Cardinality(S) \in Nat
           /\ Cardinality(T) = IF x \in S THEN Cardinality(S) ELSE Cardinality(S) + 1
BY FS_AddElement, FS_CardinalityType

LEMMA OneLess ==
    ASSUME NEW S, IsFiniteSet(S), NEW x, NEW T, T = S \ {x}
    PROVE  /\ IsFiniteSet(T) /\ Cardinality(S) \in Nat
           /\ Cardinality(T) = IF x \in S THEN Cardinality(S) - 1 ELSE Cardinality(S)
BY FS_RemoveElement, FS_CardinalityType

(* So a step leaves the others grounded, and adds to the renames, or takes     *)
(* from them, no more than its own.                                            *)
LEMMA OthersStayGrounded ==
    ASSUME EditInvariant, NEW w \in Requests, OthersKeep(w),
           Grounded(request[w])', \A kind \in Kinds : IsFiniteSet(Store(kind)')
    PROVE  /\ EditInvariant'
           /\ \A kind \in Kinds :
                /\ Cardinality(Renames(kind)) \in Nat
                /\ Cardinality(Renames(kind)') =
                     Cardinality(Renames(kind)) + (IF Renaming(w, kind)' THEN 1 ELSE 0)
                                                - (IF Renaming(w, kind) THEN 1 ELSE 0)
<1>1. ASSUME NEW v \in Requests \ {w}
      PROVE  Grounded(request[v])' /\ \A kind : Renaming(v, kind)' <=> Renaming(v, kind)
  <2>1. Grounded(request[v])
    BY DEF EditInvariant
  <2>2. /\ request'[v].step = request[v].step /\ request'[v].kind = request[v].kind
        /\ request'[v].old = request[v].old /\ request'[v].new = request[v].new
    BY DEF OthersKeep
  <2>3. Grounded(request[v])'
    <3>1. CASE request'[v].stale = request[v].stale /\ UNCHANGED <<transports, tables>>
      BY <2>1, <2>2, <3>1 DEF Grounded, Store, Present
    <3>2. CASE request'[v].stale = HasRead(request[v])
      BY <2>1, <2>2, <3>2 DEF Grounded, HasRead
    <3> QED BY <3>1, <3>2 DEF OthersKeep
  <2> QED BY <2>2, <2>3 DEF Renaming, InRename
<1>2. ASSUME NEW kind \in Kinds
      PROVE  /\ IsFiniteSet(Renames(kind)') /\ Cardinality(Renames(kind)) \in Nat
             /\ Cardinality(Renames(kind)') =
                  Cardinality(Renames(kind)) + (IF Renaming(w, kind)' THEN 1 ELSE 0)
                                             - (IF Renaming(w, kind) THEN 1 ELSE 0)
  <2>1. IsFiniteSet(Renames(kind)) /\ (w \in Renames(kind) <=> Renaming(w, kind))
    BY DEF EditInvariant, Renames
  <2>2. CASE Renaming(w, kind)'
    <3>1. Renames(kind)' = Renames(kind) \cup {w}
      BY <1>1, <2>2 DEF Renames
    <3> QED BY <2>1, <2>2, <3>1, OneMore
  <2>3. CASE ~Renaming(w, kind)'
    <3>1. Renames(kind)' = Renames(kind) \ {w}
      BY <1>1, <2>3 DEF Renames
    <3> QED BY <2>1, <2>3, <3>1, OneLess
  <2> QED BY <2>2, <2>3
<1>3. EditInvariant'
  BY <1>1, <1>2 DEF EditInvariant
<1> QED BY <1>2, <1>3

(* What the properties say of a step.                                          *)
NoCopy(kind) ==
    Held(kind)' > Held(kind) =>
        \E w \in Requests : /\ Wrote(w) /\ request[w].kind = kind
                            /\ request[w].old = None \/ request[w].stale
NoLoss(kind) ==
    Held(kind)' < Held(kind) =>
        \E w \in Requests :
          \/ DeleteTable(w)
          \/ /\ Wrote(w) /\ request[w].kind = kind
             /\ \/ request[w].new = None
                \/ /\ InRename(request[w])
                   /\ faults' > faults \/ request[w].new \in Store(kind)
Kept == \A kind \in Kinds : NoCopy(kind) /\ NoLoss(kind)

(* What is held changes with the collection and with the renames of w.         *)
LEMMA Balance ==
    ASSUME EditInvariant, NEW w \in Requests, OthersKeep(w), Grounded(request[w])',
           \A kind \in Kinds : IsFiniteSet(Store(kind)')
    PROVE  /\ EditInvariant'
           /\ \A kind \in Kinds :
                /\ Cardinality(Store(kind)) \in Nat /\ Cardinality(Store(kind)') \in Nat
                /\ Held(kind) \in Nat
                /\ Held(kind)' = Held(kind) + (Cardinality(Store(kind)') - Cardinality(Store(kind)))
                                            + (IF Renaming(w, kind)' THEN 1 ELSE 0)
                                            - (IF Renaming(w, kind) THEN 1 ELSE 0)
<1>1. /\ EditInvariant'
      /\ \A kind \in Kinds :
           /\ Cardinality(Renames(kind)) \in Nat
           /\ Cardinality(Renames(kind)') =
                Cardinality(Renames(kind)) + (IF Renaming(w, kind)' THEN 1 ELSE 0)
                                           - (IF Renaming(w, kind) THEN 1 ELSE 0)
  BY OthersStayGrounded
<1>2. ASSUME NEW kind \in Kinds
      PROVE  /\ Cardinality(Store(kind)) \in Nat /\ Cardinality(Store(kind)') \in Nat
             /\ Held(kind) = Cardinality(Store(kind)) + Cardinality(Renames(kind))
             /\ Held(kind)' = Cardinality(Store(kind)') + Cardinality(Renames(kind)')
  <2>1. Held(kind) = Cardinality(Store(kind)) + Cardinality(Renames(kind))
    BY DEF Held, Renames, Renaming
  <2>2. Held(kind)' = Cardinality(Store(kind)') + Cardinality(Renames(kind)')
    BY DEF Held, Renames, Renaming
  <2>3. Cardinality(Store(kind)) \in Nat /\ Cardinality(Store(kind)') \in Nat
    BY FS_CardinalityType DEF EditInvariant
  <2> QED BY <2>1, <2>2, <2>3
<1> QED BY <1>1, <1>2

LEMMA IdleGrounded == Grounded(Idle) /\ ~InRename(Idle) /\ Grounded(Idle)'
BY DEF Grounded, InRename, Idle

(* A step that only reads, of a request that goes on or ends.                  *)
LEMMA ReadKeeps ==
    ASSUME AdminInvariant, EditInvariant, NEW w \in Requests, NEW next, Reads(w, next),
           Grounded(next), ~InRename(next), ~InRename(request[w])
    PROVE  EditInvariant' /\ Kept
<1>1. OthersKeep(w) /\ request'[w] = next /\ UNCHANGED <<transports, tables>>
  BY ReadsKeeps
<1>2. \A kind \in Kinds : Store(kind)' = Store(kind) /\ IsFiniteSet(Store(kind)')
  BY <1>1 DEF Store, Present, EditInvariant
<1>3. Grounded(request[w])' /\ \A kind : ~Renaming(w, kind)' /\ ~Renaming(w, kind)
  BY <1>1 DEF Grounded, Store, Present, Renaming, InRename
<1>4. EditInvariant' /\ \A kind \in Kinds : Held(kind)' = Held(kind) /\ Held(kind) \in Nat
  BY <1>1, <1>2, <1>3, Balance
<1> QED BY <1>4 DEF Kept, NoCopy, NoLoss

LEMMA SubmitKeeps ==
    ASSUME AdminInvariant, EditInvariant, NEW w \in Requests,
           SubmitTransport(w) \/ SubmitTable(w) \/ RunSeed(w) \/ DeleteTransport(w)
    PROVE  EditInvariant' /\ Kept
<1>1. ASSUME NEW next, Reads(w, next),
             \/ next.step = "find"
             \/ next.step \in {"check", "upsert"} /\ next.old = None
             \/ next.step = "delete" /\ next.new = None /\ next.old # None
      PROVE  EditInvariant' /\ Kept
  <2>1. ~InRename(request[w])
    BY DEF SubmitTransport, SubmitTable, RunSeed, DeleteTransport, At, InRename
  <2>2. Grounded(next) /\ ~InRename(next)
    BY <1>1 DEF Grounded, InRename
  <2> QED BY <1>1, <2>1, <2>2, ReadKeeps
<1>2. CASE SubmitTransport(w)
  <2>1. PICK new \in Transports, old \in Transports \cup {None} :
          Reads(w, [Idle EXCEPT !.step = IF old = None THEN "upsert" ELSE "find",
                                !.kind = "transport", !.old = old, !.new = new])
    BY <1>2 DEF SubmitTransport
  <2> DEFINE next == [Idle EXCEPT !.step = IF old = None THEN "upsert" ELSE "find",
                                  !.kind = "transport", !.old = old, !.new = new]
  <2>2. next.step = "find" \/ (next.step = "upsert" /\ next.old = None)
    BY DEF Idle
  <2> QED BY <1>1, <2>1, <2>2
<1>3. CASE SubmitTable(w)
  <2>1. PICK new \in Tables, old \in Tables \cup {None}, ref \in Transports :
          Reads(w, [Idle EXCEPT !.step = IF old = None THEN "check" ELSE "find",
                                !.old = old, !.new = new, !.ref = ref])
    BY <1>3 DEF SubmitTable
  <2> DEFINE next == [Idle EXCEPT !.step = IF old = None THEN "check" ELSE "find",
                                  !.old = old, !.new = new, !.ref = ref]
  <2>2. next.step = "find" \/ (next.step = "check" /\ next.old = None)
    BY DEF Idle
  <2> QED BY <1>1, <2>1, <2>2
<1>4. CASE RunSeed(w)
  <2>1. PICK n \in Transports :
          Reads(w, [Idle EXCEPT !.step = "upsert", !.kind = "transport", !.new = n, !.seed = TRUE])
    BY <1>4 DEF RunSeed
  <2> DEFINE next == [Idle EXCEPT !.step = "upsert", !.kind = "transport", !.new = n, !.seed = TRUE]
  <2>2. next.step = "upsert" /\ next.old = None
    BY DEF Idle
  <2> QED BY <1>1, <2>1, <2>2
<1>5. CASE DeleteTransport(w)
  <2>1. PICK n \in Transports :
          Reads(w, [Idle EXCEPT !.step = "delete", !.kind = "transport", !.old = n])
    BY <1>5 DEF DeleteTransport
  <2> DEFINE next == [Idle EXCEPT !.step = "delete", !.kind = "transport", !.old = n]
  <2>2. next.step = "delete" /\ next.new = None /\ next.old # None
    BY AdminAssumption DEF Idle
  <2> QED BY <1>1, <2>1, <2>2
<1> QED BY <1>2, <1>3, <1>4, <1>5

(* An edit goes on with an entry it has found.                                 *)
LEMMA SavesWhatIsThere ==
    ASSUME NEW w \in Requests, request[w].new # None,
           request[w].stale \/ request[w].old = None \/ request[w].old \in Store(request[w].kind),
           NEW next, next.step \in {"check", Save(w)}, next.kind = request[w].kind,
           next.old = request[w].old, next.new = request[w].new, next.stale = request[w].stale
    PROVE  Grounded(next) /\ ~InRename(next)
BY DEF Grounded, InRename, Save

LEMMA FindKeeps ==
    ASSUME AdminInvariant, EditInvariant, NEW w \in Requests, Find(w)
    PROVE  EditInvariant' /\ Kept
<1> DEFINE step == IF request[w].kind = "table" THEN "check" ELSE Save(w)
<1>1. At(w, "find") /\ WellFormed(request[w]) /\ ~InRename(request[w])
  BY DEF Find, At, InRename, AdminInvariant, AdminTypeOK
<1>2. CASE Exists(w)
  <2>1. Reads(w, Goes(w, step))
    BY <1>2 DEF Find
  <2>2. /\ request[w].old # None /\ request[w].new # None
        /\ step \in Steps \ {"idle", "find"}
        /\ step = "check" => request[w].kind = "table"
        /\ step \in {"check", Save(w)}
    BY <1>1 DEF At, WellFormed, Save, Steps
  <2> HIDE DEF step
  <2>3. /\ Goes(w, step).step = step
        /\ Goes(w, step).kind = request[w].kind
        /\ Goes(w, step).old = request[w].old
        /\ Goes(w, step).new = request[w].new
        /\ Goes(w, step).stale = request[w].stale
    BY <1>1, <2>2, GoesOn DEF At
  <2>4. Grounded(Goes(w, step)) /\ ~InRename(Goes(w, step))
    BY <1>2, <2>2, <2>3, SavesWhatIsThere DEF Exists
  <2> QED BY <1>1, <2>1, <2>4, ReadKeeps
<1>3. CASE ~Exists(w)
  BY <1>1, <1>3, IdleGrounded, ReadKeeps DEF Find
<1> QED BY <1>2, <1>3

LEMMA CheckKeeps ==
    ASSUME AdminInvariant, EditInvariant, NEW w \in Requests, Check(w)
    PROVE  EditInvariant' /\ Kept
<1>1. At(w, "check") /\ WellFormed(request[w]) /\ Grounded(request[w]) /\ ~InRename(request[w])
  BY DEF Check, At, InRename, AdminInvariant, AdminTypeOK, EditInvariant
<1>2. CASE request[w].ref \in transports
  <2>1. Reads(w, Goes(w, Save(w)))
    BY <1>2 DEF Check
  <2>2. /\ request[w].new # None
        /\ Save(w) \in {"delete", "upsert"}
        /\ Save(w) = "delete" => request[w].old # None
    BY <1>1, AdminAssumption DEF At, WellFormed, Save
  <2>3. /\ Goes(w, Save(w)).step = Save(w)
        /\ Goes(w, Save(w)).kind = request[w].kind
        /\ Goes(w, Save(w)).old = request[w].old
        /\ Goes(w, Save(w)).new = request[w].new
        /\ Goes(w, Save(w)).stale = request[w].stale
    BY <1>1, <2>2, GoesOn DEF At, Steps
  <2>4. request[w].stale \/ request[w].old = None \/ request[w].old \in Store(request[w].kind)
    BY <1>1 DEF Grounded, At
  <2>5. Grounded(Goes(w, Save(w))) /\ ~InRename(Goes(w, Save(w)))
    BY <2>2, <2>3, <2>4, SavesWhatIsThere
  <2> QED BY <1>1, <2>1, <2>5, ReadKeeps
<1>3. CASE request[w].ref \notin transports
  BY <1>1, <1>3, IdleGrounded, ReadKeeps DEF Check
<1> QED BY <1>2, <1>3

(* A call that fails in a rename, after its delete, loses an entry.            *)
LEMMA FailureKeeps ==
    ASSUME AdminInvariant, EditInvariant, NEW w \in Requests, CallFails(w)
    PROVE  EditInvariant' /\ Kept
<1>1. \A v \in Requests : request'[v] = IF v = w THEN Idle ELSE request[v]
  BY DEF CallFails, AdminInvariant, AdminTypeOK
<1>2. OthersKeep(w) /\ request'[w] = Idle /\ UNCHANGED <<transports, tables>>
  BY <1>1 DEF CallFails, OthersKeep
<1>3. \A kind \in Kinds : Store(kind)' = Store(kind) /\ IsFiniteSet(Store(kind)')
  BY <1>2 DEF Store, Present, EditInvariant
<1>4. Grounded(request[w])' /\ \A kind : ~Renaming(w, kind)'
  BY <1>2 DEF Idle, Grounded, Renaming, InRename
<1>5. /\ EditInvariant'
      /\ \A kind \in Kinds : /\ Held(kind) \in Nat
                             /\ Held(kind)' = Held(kind) - (IF Renaming(w, kind) THEN 1 ELSE 0)
  BY <1>2, <1>3, <1>4, Balance
<1>6. faults' > faults
  BY DEF CallFails, AdminInvariant, AdminTypeOK
<1>7. ASSUME NEW kind \in Kinds, Renaming(w, kind)
      PROVE  Wrote(w) /\ request[w].kind = kind /\ InRename(request[w])
  <2>1. request'[w].step = "idle" /\ request[w].step = "upsert"
    BY <1>2, <1>7 DEF Renaming, InRename, Idle
  <2> QED BY <1>7, <2>1 DEF Wrote, Acts, At, Renaming
<1> QED BY <1>5, <1>6, <1>7 DEF Kept, NoCopy, NoLoss

LEMMA DeleteTableKeeps ==
    ASSUME AdminInvariant, EditInvariant, NEW w \in Requests, DeleteTable(w)
    PROVE  EditInvariant' /\ Kept
<1>1. PICK t \in Tables : tables' = [tables EXCEPT ![t] = None]
  BY DEF DeleteTable
<1>2. OthersKeep(w) /\ request'[w] = Idle
  BY WritesKeeps DEF DeleteTable
<1>3. Grounded(request[w])' /\ \A kind : ~Renaming(w, kind)' /\ ~Renaming(w, kind)
  BY <1>2 DEF Grounded, Renaming, Idle, InRename, DeleteTable, At
<1>4. Store("table")' = Store("table") \ {t} /\ Store("transport")' = Store("transport")
  BY <1>1 DEF Store, Present, DeleteTable, AdminInvariant, AdminTypeOK
<1>5. \A kind \in Kinds : IsFiniteSet(Store(kind)) /\ (kind = "table" \/ kind = "transport")
  BY DEF EditInvariant, Kinds
<1>6. ASSUME NEW kind \in Kinds
      PROVE  IsFiniteSet(Store(kind)') /\ Cardinality(Store(kind)') <= Cardinality(Store(kind))
  <2>1. CASE kind = "table"
    <3>1. IsFiniteSet(Store(kind)) /\ Store(kind)' = Store(kind) \ {t}
      BY <1>4, <1>5, <2>1
    <3>2. /\ IsFiniteSet(Store(kind)') /\ Cardinality(Store(kind)) \in Nat
          /\ Cardinality(Store(kind)') =
               IF t \in Store(kind) THEN Cardinality(Store(kind)) - 1 ELSE Cardinality(Store(kind))
      BY <3>1, OneLess, Zenon
    <3> QED BY <3>2
  <2>2. CASE kind = "transport"
    BY <1>4, <1>5, <2>2, FS_CardinalityType
  <2> QED BY <1>5, <2>1, <2>2
<1>7. EditInvariant' /\ \A kind \in Kinds : Held(kind)' <= Held(kind) /\ Held(kind) \in Nat /\ Held(kind)' \in Int
  BY <1>2, <1>3, <1>6, Balance
<1> QED BY <1>7 DEF Kept, NoCopy, NoLoss

(* A rename takes an entry out and remembers to put one back.                  *)
LEMMA DeleteKeeps ==
    ASSUME AdminInvariant, EditInvariant, NEW w \in Requests, Delete(w)
    PROVE  EditInvariant' /\ Kept
<1> DEFINE r == request[w]
<1>1. /\ r.step = "delete" /\ WellFormed(r) /\ Grounded(r) /\ ~At(w, "idle") /\ ~At(w, "upsert")
      /\ Acts(w) /\ r.stale \in BOOLEAN /\ ~InRename(r)
  BY DEF Delete, At, Acts, InRename, AdminInvariant, AdminTypeOK, EditInvariant, WellFormed, RequestType
<1>2. PICK k, x, n : k \in Kinds /\ k = r.kind /\ x = r.old /\ n = r.new
  BY <1>1 DEF WellFormed, RequestType
<1>3. PICK next : next = IF n = None THEN Idle ELSE Goes(w, "upsert")
  OBVIOUS
<1>4. OthersKeep(w) /\ request'[w] = next
  BY <1>2, <1>3, WritesKeeps DEF Delete
<1>5. /\ n # None => next.step = "upsert" /\ next.kind = k /\ next.old = x /\ next.new = n
      /\ n = None => next = Idle
  BY <1>1, <1>2, <1>3, GoesOn DEF Steps
<1>6. x \notin {None, n} /\ (n # None /\ ~r.stale => x \in Store(k))
  BY <1>1, <1>2 DEF Grounded
<1>7. Grounded(request[w])'
  <2>1. next.step # "delete" /\ (next.step = "idle" \/ next.old # next.new)
    BY <1>5, <1>6 DEF Idle
  <2>2. next.step \in {"idle", "upsert"}
    BY <1>5 DEF Idle
  <2> QED BY <1>4, <2>1, <2>2 DEF Grounded
<1>8. \A kind \in Kinds : Renaming(w, kind)' <=> kind = k /\ n # None
  BY <1>4, <1>5, <1>6 DEF Renaming, InRename, Idle
<1>9. \A kind : ~Renaming(w, kind)
  BY <1>1 DEF Renaming
<1>10. Store(k)' = Store(k) \ {x} /\ \A kind \in Kinds \ {k} : Store(kind)' = Store(kind)
  <2>1. CASE k = "transport"
    BY <1>2, <2>1 DEF Delete, Store, Present, Kinds
  <2>2. CASE k = "table"
    <3>1. tables' = [tables EXCEPT ![x] = None] /\ transports' = transports
      BY <1>2, <2>2 DEF Delete
    <3>2. \A u \in Tables : tables'[u] = IF u = x THEN None ELSE tables[u]
      BY <3>1 DEF AdminInvariant, AdminTypeOK
    <3> QED BY <2>2, <3>1, <3>2 DEF Store, Present, Kinds
  <2> QED BY <1>2, <2>1, <2>2 DEF Kinds
<1>11. /\ \A kind \in Kinds : IsFiniteSet(Store(kind)) /\ IsFiniteSet(Store(kind)')
       /\ Cardinality(Store(k)') - Cardinality(Store(k)) = IF x \in Store(k) THEN -1 ELSE 0
  <2>1. \A kind \in Kinds : IsFiniteSet(Store(kind))
    BY DEF EditInvariant
  <2>2. /\ IsFiniteSet(Store(k)') /\ Cardinality(Store(k)) \in Nat
        /\ Cardinality(Store(k)') =
             IF x \in Store(k) THEN Cardinality(Store(k)) - 1 ELSE Cardinality(Store(k))
    <3>1. IsFiniteSet(Store(k)) /\ Store(k)' = Store(k) \ {x}
      BY <1>2, <1>10, <2>1
    <3> QED BY <3>1, OneLess, Zenon
  <2> QED BY <1>10, <2>1, <2>2
<1>12. /\ EditInvariant'
       /\ \A kind \in Kinds : Held(kind) \in Nat
       /\ \A kind \in Kinds \ {k} : Held(kind)' = Held(kind)
       /\ Held(k)' = Held(k) + (IF n # None THEN 1 ELSE 0) - (IF x \in Store(k) THEN 1 ELSE 0)
  <2>1. /\ EditInvariant'
        /\ \A kind \in Kinds :
             /\ Cardinality(Store(kind)) \in Nat /\ Cardinality(Store(kind)') \in Nat
             /\ Held(kind) \in Nat
             /\ Held(kind)' = Held(kind) + (Cardinality(Store(kind)') - Cardinality(Store(kind)))
                                         + (IF Renaming(w, kind)' THEN 1 ELSE 0)
                                         - (IF Renaming(w, kind) THEN 1 ELSE 0)
    BY <1>4, <1>7, <1>11, Balance
  <2>2. \A kind \in Kinds \ {k} : Held(kind)' = Held(kind)
    BY <1>8, <1>9, <1>10, <2>1
  <2>3. Held(k)' = Held(k) + (IF n # None THEN 1 ELSE 0) - (IF x \in Store(k) THEN 1 ELSE 0)
    BY <1>2, <1>8, <1>9, <1>11, <2>1
  <2> QED BY <2>1, <2>2, <2>3
<1>13. Wrote(w)
  BY <1>1, <1>4, <1>5 DEF Wrote, Idle
<1> QED BY <1>2, <1>6, <1>12, <1>13 DEF Kept, NoCopy, NoLoss

LEMMA UpsertKeeps ==
    ASSUME AdminInvariant, EditInvariant, NEW w \in Requests, Upsert(w)
    PROVE  EditInvariant' /\ Kept
<1> DEFINE r == request[w]
<1>1. /\ r.step = "upsert" /\ WellFormed(r) /\ Grounded(r) /\ Acts(w) /\ r.stale \in BOOLEAN
  BY DEF Upsert, At, Acts, AdminInvariant, AdminTypeOK, EditInvariant, WellFormed, RequestType
<1>2. PICK k, n : k \in Kinds /\ k = r.kind /\ n = r.new
  BY <1>1 DEF WellFormed, RequestType
<1>3. PICK next \in Following(r) : Writes(w, next)
  BY DEF Upsert
<1>4. OthersKeep(w) /\ request'[w] = next
  BY <1>3, WritesKeeps
<1>5. next.old = None /\ next.step \in {"idle", "upsert"} /\ next.kind = "table"
      /\ (k = "table" => next.step = "idle")
  <2>1. CASE r.seed /\ r.kind = "transport"
    <3>1. PICK t \in Tables :
            next = [Idle EXCEPT !.step = "upsert", !.new = t, !.ref = r.new, !.seed = TRUE]
      BY <2>1 DEF Following
    <3> QED BY <1>2, <2>1, <3>1 DEF Idle
  <2>2. CASE ~(r.seed /\ r.kind = "transport")
    <3>1. next = Idle
      BY <2>2, Zenon DEF Following
    <3> QED BY <3>1 DEF Idle
  <2> QED BY <2>1, <2>2
<1>6. Grounded(request[w])' /\ \A kind : ~Renaming(w, kind)'
  BY <1>4, <1>5 DEF Grounded, Renaming, InRename
<1>7. \A kind \in Kinds : Renaming(w, kind) <=> kind = k /\ InRename(r)
  BY <1>2 DEF Renaming
<1>8. Store(k)' = Store(k) \cup {n} /\ \A kind \in Kinds \ {k} : Store(kind)' = Store(kind)
  <2>1. CASE k = "transport"
    BY <1>2, <2>1 DEF Upsert, Store, Present, Kinds
  <2>2. CASE k = "table"
    <3>1. tables' = [tables EXCEPT ![n] = r.ref] /\ transports' = transports
      BY <1>2, <2>2 DEF Upsert
    <3>2. n \in Tables /\ r.ref # None
      BY <1>1, <1>2, <2>2, AdminAssumption DEF WellFormed
    <3>3. \A u \in Tables : tables'[u] = IF u = n THEN r.ref ELSE tables[u]
      BY <3>1 DEF AdminInvariant, AdminTypeOK
    <3> HIDE DEF r
    <3> QED BY <2>2, <3>1, <3>2, <3>3 DEF Store, Present, Kinds
  <2> QED BY <1>2, <2>1, <2>2 DEF Kinds
<1>9. /\ \A kind \in Kinds : IsFiniteSet(Store(kind)) /\ IsFiniteSet(Store(kind)')
      /\ Cardinality(Store(k)') - Cardinality(Store(k)) = IF n \in Store(k) THEN 0 ELSE 1
  <2>1. \A kind \in Kinds : IsFiniteSet(Store(kind))
    BY DEF EditInvariant
  <2>2. /\ IsFiniteSet(Store(k)') /\ Cardinality(Store(k)) \in Nat
        /\ Cardinality(Store(k)') =
             IF n \in Store(k) THEN Cardinality(Store(k)) ELSE Cardinality(Store(k)) + 1
    <3>1. IsFiniteSet(Store(k)) /\ Store(k)' = Store(k) \cup {n}
      BY <1>2, <1>8, <2>1
    <3> QED BY <3>1, OneMore, Zenon
  <2>3. \A kind \in Kinds : IsFiniteSet(Store(kind)')
    BY <1>8, <2>1, <2>2
  <2> QED BY <2>1, <2>2, <2>3
<1>10. /\ EditInvariant'
       /\ \A kind \in Kinds : Held(kind) \in Nat
       /\ \A kind \in Kinds \ {k} : Held(kind)' = Held(kind)
       /\ Held(k)' = Held(k) + (IF n \in Store(k) THEN 0 ELSE 1) - (IF InRename(r) THEN 1 ELSE 0)
  <2>1. /\ EditInvariant'
        /\ \A kind \in Kinds :
             /\ Cardinality(Store(kind)) \in Nat /\ Cardinality(Store(kind)') \in Nat
             /\ Held(kind) \in Nat
             /\ Held(kind)' = Held(kind) + (Cardinality(Store(kind)') - Cardinality(Store(kind)))
                                         + (IF Renaming(w, kind)' THEN 1 ELSE 0)
                                         - (IF Renaming(w, kind) THEN 1 ELSE 0)
    BY <1>4, <1>6, <1>9, Balance
  <2>2. \A kind \in Kinds \ {k} : Held(kind)' = Held(kind)
    BY <1>6, <1>7, <1>8, <2>1
  <2>3. Held(k)' = Held(k) + (IF n \in Store(k) THEN 0 ELSE 1) - (IF InRename(r) THEN 1 ELSE 0)
    BY <1>2, <1>6, <1>7, <1>9, <2>1
  <2> QED BY <2>1, <2>2, <2>3
<1>11. Wrote(w)
  BY <1>1, <1>2, <1>4, <1>5 DEF Wrote, Kinds
<1>12. r.old = None \/ r.stale \/ InRename(r) \/ n \in Store(k)
  BY <1>1, <1>2 DEF Grounded, InRename
<1> QED BY <1>2, <1>10, <1>11, <1>12 DEF Kept, NoCopy, NoLoss

LEMMA EditStep ==
    ASSUME AdminInvariant, EditInvariant, [AdminNext]_adminVars
    PROVE  EditInvariant' /\ [Kept]_adminVars
<1>1. CASE UNCHANGED <<transports, tables, request>>
  <2>1. EditInvariant'
    BY <1>1 DEF EditInvariant, Grounded, Renames, Renaming, Store, Present
  <2>2. \A kind \in Kinds : Held(kind)' = Held(kind)
    BY <1>1 DEF Held, Store, Present
  <2>3. \A kind \in Kinds : Held(kind) \in Nat
    BY FS_CardinalityType DEF EditInvariant, Held, Renames, Renaming
  <2> QED BY <2>1, <2>2, <2>3 DEF Kept, NoCopy, NoLoss
<1>2. ASSUME NEW w \in Requests,
             \/ SubmitTransport(w) \/ SubmitTable(w) \/ RunSeed(w) \/ Find(w) \/ Check(w)
             \/ DeleteTransport(w) \/ DeleteTable(w)
             \/ Delete(w) \/ Upsert(w) \/ CallFails(w)
      PROVE  EditInvariant' /\ Kept
  BY <1>2, SubmitKeeps, FindKeeps, CheckKeeps, DeleteTableKeeps, DeleteKeeps, UpsertKeeps, FailureKeeps
<1> QED BY <1>1, <1>2 DEF AdminNext, LoadConfigs, adminVars

LEMMA EditStart == AdminInit => EditInvariant
<1> SUFFICES ASSUME AdminInit PROVE EditInvariant
  OBVIOUS
<1>1. \A w \in Requests : request[w] = Idle
  BY DEF AdminInit
<1>2. \A kind \in Kinds : Store(kind) = {} /\ Renames(kind) = {}
  BY <1>1 DEF AdminInit, Store, Present, Renames, Renaming, InRename, Idle
<1> QED BY <1>1, <1>2, FS_EmptySet, IdleGrounded DEF EditInvariant

(* However many requests edit entries at once, with or without a rename, there *)
(* come to be more of them only after the form of a new one, or when another   *)
(* request has overtaken the edit (app.py, _handle_transport_form,             *)
(* _handle_table_form).                                                        *)
THEOREM CopiesAreNewOrRaced == AdminSpec => EditsMakeNoCopies
<1>1. AdminInvariant /\ EditInvariant /\ [AdminNext]_adminVars =>
        AdminInvariant' /\ EditInvariant' /\
        [ \A kind \in Kinds : Held(kind)' > Held(kind) =>
            \E w \in Requests : /\ Wrote(w) /\ request[w].kind = kind
                                /\ request[w].old = None \/ request[w].stale ]_adminVars
  BY AdminStep, EditStep DEF Kept, NoCopy
<1> QED BY <1>1, AdminStart, EditStart, PTL DEF AdminSpec, EditsMakeNoCopies

(* However many requests there are, an entry that is not deleted is lost only  *)
(* by a rename of which a call failed after the delete, or which wrote over    *)
(* another entry (app.py, _handle_transport_form, _handle_table_form).         *)
THEOREM LossesAreRenames == AdminSpec => OnlyRenamesLose
<1>1. AdminInvariant /\ EditInvariant /\ [AdminNext]_adminVars =>
        AdminInvariant' /\ EditInvariant' /\
        [ \A kind \in Kinds : Held(kind)' < Held(kind) =>
            \E w \in Requests :
              \/ DeleteTable(w)
              \/ /\ Wrote(w) /\ request[w].kind = kind
                 /\ \/ request[w].new = None
                    \/ /\ InRename(request[w])
                       /\ faults' > faults \/ request[w].new \in Store(kind) ]_adminVars
  BY AdminStep, EditStep DEF Kept, NoLoss
<1> QED BY <1>1, AdminStart, EditStart, PTL DEF AdminSpec, OnlyRenamesLose

================================================================================
