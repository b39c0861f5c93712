------------------------------- MODULE AdminStore -------------------------------
(***************************************************************************)
(* The configuration in MongoDB (vortex/store/mongo.py), the forms of the  *)
(* admin GUI that write it (vortex/admin/app.py), the script that seeds it *)
(* (scripts/seed_mongo.py) and the server that reads it when it boots.     *)
(* Flask runs each request on a thread of its own and the store has no     *)
(* transactions, so every call of MongoStore is a step and requests        *)
(* interleave between them.  A form that its validation refuses writes     *)
(* nothing and is left out; of an entry the name and a table's             *)
(* transport_name are kept.                                                *)
(***************************************************************************)
EXTENDS Naturals, FiniteSets

CONSTANTS
    Transports, Tables,     \* names
    None,                   \* no name
    Requests,               \* threads that serve requests or run the script
    MaxFaults               \* bound: calls MongoDB fails

ASSUME AdminAssumption ==
    /\ None \notin Transports \cup Tables
    /\ MaxFaults \in Nat

VARIABLES
    transports, \* the entries of the collection transports
    tables,     \* for each entry of tables its transport_name, None for no entry
    request,    \* what each thread does
    boot,       \* the configuration of the server
    faults

adminVars == <<transports, tables, request, boot, faults>>

Present(ts) == { t \in Tables : ts[t] # None }

(* The names of the entries of a collection.                                   *)
Kinds == {"transport", "table"}
Store(kind) == IF kind = "transport" THEN transports ELSE Present(tables)

Steps == {"idle", "find", "check", "delete", "upsert"}

\* A request: the call it makes next, on which collection; the entry it edits
\* (None for a new one), the entry it writes (None for a deletion) and its
\* transport_name; has another request written since this one first read; is it
\* the seed script?
RequestType ==
    [step : Steps, kind : Kinds, old : Transports \cup Tables \cup {None},
     new : Transports \cup Tables \cup {None}, ref : Transports \cup {None}, stale : BOOLEAN, seed : BOOLEAN]

Idle == [step |-> "idle", kind |-> "table", old |-> None, new |-> None, ref |-> None,
         stale |-> FALSE, seed |-> FALSE]

\* The server: is it between its two reads, and what has the first one read;
\* the tables it serves whose transport it does not know; and, a history, the
\* transports written since the first read.
BootType ==
    [loading : BOOLEAN, read : SUBSET Transports, orphans : SUBSET Tables, added : SUBSET Transports]

(* A table's form names a table and a transport; an edit or a deletion has an  *)
(* entry to look up or delete, an edit or a write one to write.                *)
WellFormed(r) ==
    /\ r \in RequestType
    /\ r.step # "idle" /\ r.kind = "table" =>
         r.old \in Tables \cup {None} /\ r.new \in Tables /\ r.ref \in Transports
    /\ r.step # "idle" /\ r.kind = "transport" =>
         r.old \in Transports \cup {None} /\ r.new \in Transports \cup {None}
    /\ r.step \in {"find", "delete"} => r.old # None
    /\ r.step \in {"find", "upsert"} => r.new # None
    /\ r.step = "check" => r.kind = "table"
    /\ r.seed => r.step = "upsert" /\ r.old = None /\ r.new # None

AdminTypeOK ==
    /\ transports \subseteq Transports
    /\ tables \in [Tables -> Transports \cup {None}]
    /\ DOMAIN request = Requests
    /\ \A w \in Requests : WellFormed(request[w])
    /\ boot \in BootType
    /\ faults \in 0 .. MaxFaults

AdminInit ==
    /\ transports = {}
    /\ tables = [t \in Tables |-> None]
    /\ request = [w \in Requests |-> Idle]
    /\ boot = [loading |-> FALSE, read |-> {}, orphans |-> {}, added |-> {}]
    /\ faults = 0

--------------------------------------------------------------------------------

Reads(w, next) ==
    /\ request' = [request EXCEPT ![w] = next]
    /\ UNCHANGED <<transports, tables, boot, faults>>

HasRead(r) == r.step \in {"delete", "upsert"} \/ (r.step = "check" /\ r.old # None)

(* After a write, what the other requests have read is out of date.            *)
Writes(w, next) ==
    request' = [v \in Requests |->
                  IF v = w THEN next
                  ELSE [request[v] EXCEPT !.stale = HasRead(request[v])]]

At(w, step) == request[w].step = step

Goes(w, step) == [request[w] EXCEPT !.step = step]

\* Mutant: the form writes the new entry first and keeps the old one.
Save_KeepsOld(w) == "upsert"

\* Mutant: the form deletes the entry it edits also when the name stays.
Save_Deletes(w) == IF request[w].old = None THEN "upsert" ELSE "delete"

(* A form that renames deletes the old entry before it writes the new one.     *)
Save(w) == IF request[w].old \in {None, request[w].new} THEN "upsert" ELSE "delete"

(* POST to a form.  The edit page looks its entry up first, a new table goes   *)
(* to the check of its transport, a new transport to the write.                *)
SubmitTransport(w) ==
    /\ At(w, "idle")
    /\ \E new \in Transports, old \in Transports \cup {None} :
         Reads(w, [Idle EXCEPT !.step = IF old = None THEN "upsert" ELSE "find",
                               !.kind = "transport", !.old = old, !.new = new])

SubmitTable(w) ==
    /\ At(w, "idle")
    /\ \E new \in Tables, old \in Tables \cup {None}, ref \in Transports :
         Reads(w, [Idle EXCEPT !.step = IF old = None THEN "check" ELSE "find",
                               !.old = old, !.new = new, !.ref = ref])

(* main() of the seed script: its transports and then its tables, unchecked.   *)
RunSeed(w) ==
    /\ At(w, "idle")
    /\ \E n \in Transports :
         Reads(w, [Idle EXCEPT !.step = "upsert", !.kind = "transport", !.new = n, !.seed = TRUE])

Exists(w) == request[w].old \in Store(request[w].kind)

(* transport_edit and table_edit: 404 for an entry that is not there.          *)
Find(w) ==
    /\ At(w, "find")
    /\ Reads(w, IF ~Exists(w) THEN Idle
                ELSE Goes(w, IF request[w].kind = "table" THEN "check" ELSE Save(w)))

\* Mutant: the transport of a table is not looked up.
Check_Skipped(w) == At(w, "check") /\ Reads(w, Goes(w, Save(w)))

(* _handle_table_form: the transport of a table must exist.                    *)
Check(w) ==
    /\ At(w, "check")
    /\ Reads(w, IF request[w].ref \in transports THEN Goes(w, Save(w)) ELSE Idle)

(* transport_delete: refused while a table refers to the transport.            *)
DeleteTransport(w) ==
    /\ At(w, "idle")
    /\ \E n \in Transports :
         /\ \A t \in Tables : tables[t] # n
         /\ Reads(w, [Idle EXCEPT !.step = "delete", !.kind = "transport", !.old = n])

(* table_delete.                                                               *)
DeleteTable(w) ==
    /\ At(w, "idle")
    /\ \E t \in Tables : tables' = [tables EXCEPT ![t] = None]
    /\ Writes(w, Idle)
    /\ UNCHANGED <<transports, boot, faults>>

(* delete_one, of a deletion or of a rename.                                   *)
Delete(w) ==
    /\ At(w, "delete")
    /\ IF request[w].kind = "transport"
       THEN transports' = transports \ {request[w].old} /\ UNCHANGED tables
       ELSE tables' = [tables EXCEPT ![request[w].old] = None] /\ UNCHANGED transports
    /\ Writes(w, IF request[w].new = None THEN Idle ELSE Goes(w, "upsert"))
    /\ UNCHANGED <<boot, faults>>

(* What follows the write of an entry: of a transport of the script, a table   *)
(* that refers to it; nothing else.                                            *)
Following(r) ==
    IF r.seed /\ r.kind = "transport"
    THEN { [Idle EXCEPT !.step = "upsert", !.new = t, !.ref = r.new, !.seed = TRUE] : t \in Tables }
    ELSE {Idle}

(* replace_one with upsert: an entry of that name is overwritten.              *)
Upsert(w) ==
    /\ At(w, "upsert")
    /\ \E next \in Following(request[w]) : Writes(w, next)
    /\ IF request[w].kind = "transport"
       THEN /\ transports' = transports \cup {request[w].new}
            /\ boot' = IF boot.loading THEN [boot EXCEPT !.added = @ \cup {request[w].new}] ELSE boot
            /\ UNCHANGED tables
       ELSE /\ tables' = [tables EXCEPT ![request[w].new] = request[w].ref]
            /\ UNCHANGED <<transports, boot>>
    /\ UNCHANGED faults

(* A call raises: the request ends where it stands, with status 500.  One that *)
(* took effect before it raised is that call followed by this step.            *)
CallFails(w) ==
    /\ ~At(w, "idle") /\ faults < MaxFaults
    /\ faults' = faults + 1
    /\ request' = [request EXCEPT ![w] = Idle]
    /\ UNCHANGED <<transports, tables, boot>>

--------------------------------------------------------------------------------

(* Tables whose transport is not there.                                        *)
Dangling(ts, ns) == { t \in Present(ts) : ts[t] \notin ns }

\* Mutant: the server reads the tables first.
LoadConfigs_TablesFirst ==
    /\ IF boot.loading
       THEN boot' = [loading |-> FALSE, read |-> {}, orphans |-> Dangling(boot.read, transports), added |-> {}]
       ELSE boot' = [loading |-> TRUE, read |-> tables, orphans |-> {}, added |-> {}]
    /\ UNCHANGED <<transports, tables, request, faults>>

(* The server (re)starts: it reads the transports, and then the tables, which  *)
(* it serves whether or not it knows their transport.  The listing of the      *)
(* admin API makes the same two reads.                                         *)
LoadConfigs ==
    /\ IF boot.loading
       THEN boot' = [loading |-> FALSE, read |-> {}, orphans |-> Dangling(tables, boot.read), added |-> {}]
       ELSE boot' = [loading |-> TRUE, read |-> transports, orphans |-> {}, added |-> {}]
    /\ UNCHANGED <<transports, tables, request, faults>>

AdminNext ==
    \/ \E w \in Requests :
         \/ SubmitTransport(w) \/ SubmitTable(w) \/ RunSeed(w) \/ Find(w) \/ Check(w)
         \/ DeleteTransport(w) \/ DeleteTable(w)
         \/ Delete(w) \/ Upsert(w) \/ CallFails(w)
    \/ LoadConfigs

AdminSpec == AdminInit /\ [][AdminNext]_adminVars

--------------------------------------------------------------------------------
(* Properties *)

(* The transport of the table it saves is there, and no table refers to the    *)
(* transport it deletes.                                                       *)
CheckHolds(r) ==
    /\ r.step \in {"delete", "upsert"} /\ r.kind = "table" => r.ref \in transports
    /\ r.step = "delete" /\ r.kind = "transport" /\ r.new = None =>
         \A t \in Tables : tables[t] # r.old

(* A request that no other has overtaken writes on a check that still holds    *)
(* (app.py, transport_delete and _handle_table_form).                          *)
ChecksHold == \A w \in Requests : ~request[w].stale => CheckHolds(request[w])

(* The step is a write of the request w, not one that makes what w has read    *)
(* out of date.                                                                *)
Acts(w) == At(w, "delete") \/ At(w, "upsert")
Wrote(w) ==
    Acts(w) /\ (request'[w].step # request[w].step \/ request'[w].kind # request[w].kind)

(* A table comes to refer to a transport that is not there in two ways only:   *)
(* a write that rests on a check another request has overtaken, or the rename  *)
(* of a transport, which leaves its tables with the old name (app.py,          *)
(* transport_delete, _handle_transport_form, _handle_table_form).              *)
ReferencesBreakByRace ==
    [][ ~(Dangling(tables', transports') \subseteq Dangling(tables, transports)) =>
          \E w \in Requests :
            Wrote(w) /\ \/ request[w].stale
                        \/ request[w].kind = "transport" /\ request[w].new # None ]_adminVars

(* A request in a rename, between its delete and its write.                    *)
InRename(r) == r.step = "upsert" /\ r.old \notin {None, r.new}

(* Entries in the store, and those a rename has taken out and not yet put back.*)
Held(kind) ==
    Cardinality(Store(kind)) +
    Cardinality({ w \in Requests : request[w].kind = kind /\ InRename(request[w]) })

(* To edit entries, with or without a rename, makes no copies: there are more  *)
(* of them only after the form of a new one, or when another request has       *)
(* overtaken the edit (app.py, _handle_transport_form, _handle_table_form).    *)
EditsMakeNoCopies ==
    [][ \A kind \in Kinds : Held(kind)' > Held(kind) =>
          \E w \in Requests : /\ Wrote(w) /\ request[w].kind = kind
                              /\ request[w].old = None \/ request[w].stale ]_adminVars

(* An entry is lost only where it is deleted, or in a rename: when a call of   *)
(* it fails after the delete, or when the new name is that of another entry,   *)
(* which the rename writes over (app.py, _handle_transport_form,               *)
(* _handle_table_form).                                                        *)
OnlyRenamesLose ==
    [][ \A kind \in Kinds : Held(kind)' < Held(kind) =>
          \E w \in Requests :
            \/ DeleteTable(w)
            \/ /\ Wrote(w) /\ request[w].kind = kind
               /\ \/ request[w].new = None
                  \/ /\ InRename(request[w])
                     /\ faults' > faults \/ request[w].new \in Store(kind) ]_adminVars

(* A server comes up with a table it has no transport for only if the store    *)
(* has none either, or if the transport was written between its two reads: no  *)
(* deletion, of tables and then of their transport, can do that (server.py,    *)
(* main, which warns of such a table and serves it without a connector).       *)
OrphansAreNew ==
    [][ boot.loading /\ ~boot'.loading =>
          boot'.orphans \subseteq Dangling(tables, transports)
                                 \cup { t \in Tables : tables[t] \in boot.added } ]_adminVars

================================================================================
