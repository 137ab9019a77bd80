---------------------------- MODULE SpoolBudget ----------------------------
(***************************************************************************)
(* The spool's byte budget (internal/spool/spool.go, db.go): one SQLite    *)
(* table shared by the daemon and by the short-lived hook processes, each  *)
(* of which decides about eviction from a byte total in its OWN memory.    *)
(*                                                                         *)
(* A statement is atomic; Write, evictFor, Drain and Resync are several    *)
(* statements each, in no transaction.  totalMu makes Resync's SELECT and  *)
(* Store exclude the daemon's addBytes, and nothing else.                  *)
(*                                                                         *)
(* In the daemon two goroutines touch the spool: the worker, which writes  *)
(* (re-spools), and the sweep, which resyncs the total and drains.  What   *)
(* the rows are and where drained rows go is EnrichPipeline's subject.     *)
(***************************************************************************)
EXTENDS Integers, FiniteSets, FiniteSetsExt

CONSTANTS
  Keys,        \* row identities
  Hooks,       \* hook processes that may write at the same time
  Worker,      \* the daemon's writer; its total is the daemon's
  Sizes,       \* sizes of record bodies
  Limit,       \* maxBytes()
  EvictBatch,  \* rows per eviction
  DrainPage,   \* rows per page of a drain
  MaxWrites    \* bound: calls of Write

ASSUME BudgetAssumption ==
  /\ Worker \notin Hooks
  /\ Sizes \subseteq Nat \ {0} /\ Limit \in Nat \ {0}
  /\ EvictBatch \in Nat \ {0} /\ DrainPage \in Nat \ {0} /\ MaxWrites \in Nat

Writers == Hooks \cup {Worker}

VARIABLES
  table,   \* rows: [id, key, bytes], one per key
  lastId,  \* AUTOINCREMENT
  total,   \* each process's running byte total
  write,   \* the Write each process is in
  sweep,   \* the daemon's sweep
  writes   \* calls of Write so far

vars == <<table, lastId, total, write, sweep, writes>>

SizeOf(rows) == MapThenSumSet(LAMBDA r : r.bytes, rows)
Bytes == SizeOf(table)
RowsOf(k) == {r \in table : r.key = k}
Oldest(rows, n) == {r \in rows : Cardinality({s \in rows : s.id < r.id}) < n}
Without(rows) == {r \in table : \A s \in rows : r.id # s.id}

\* The table as SpoolRows sees it.
Rows == {r.key : r \in table}
ById == {p \in Rows \X Rows : \E r, s \in table : r.id < s.id /\ p = <<r.key, s.key>>}
Contract == INSTANCE SpoolRows WITH rows <- Rows, before <- ById

NoWrite == [pc |-> "idle", key |-> "none", gross |-> 0, old |-> 0, victims |-> {}]
NoSweep == [pc |-> "idle", sum |-> 0, past |-> 0, page |-> {}]
At(w, pc) == write[w].pc = pc
Go(w, pc) == [write EXCEPT ![w].pc = pc]
delta(w) == write[w].gross - write[w].old
-----------------------------------------------------------------------------
Init ==
  /\ table = {} /\ lastId = 0
  /\ total = [w \in Writers |-> 0]
  /\ write = [w \in Writers |-> NoWrite]
  /\ sweep = NoSweep
  /\ writes = 0

\* addBytes: under totalMu, which the daemon's Resync may be holding.
AddBytes(w, d) ==
  /\ w = Worker => sweep.pc # "summed"
  /\ total' = [total EXCEPT ![w] = @ + d]

\* Write begins.  A hook is a new process: open() seeds its total.
Begin(w) ==
  /\ At(w, "idle") /\ writes < MaxWrites
  /\ writes' = writes + 1
  /\ \E k \in Keys, n \in Sizes :
       write' = [write EXCEPT ![w] = [NoWrite EXCEPT !.pc = "lookup", !.key = k, !.gross = n]]
  /\ total' = IF w \in Hooks THEN [total EXCEPT ![w] = Bytes] ELSE total
  /\ UNCHANGED <<table, lastId, sweep>>

\* The old row's size; then evictFor rejects a record larger than the budget.
Lookup(w) ==
  /\ At(w, "lookup")
  /\ write' = IF write[w].gross > Limit THEN [write EXCEPT ![w] = NoWrite]
              ELSE [write EXCEPT ![w].pc = "check", ![w].old = SizeOf(RowsOf(write[w].key))]
  /\ UNCHANGED <<table, lastId, total, sweep, writes>>

\* evictFor's loop condition, on this process's total.
Check(w) ==
  /\ At(w, "check")
  /\ write' = Go(w, IF total[w] + delta(w) <= Limit THEN "upsert" ELSE "select")
  /\ UNCHANGED <<table, lastId, total, sweep, writes>>

\* Faulty variants ("mutants" of PROJECT.json), used by no specification.
SelectForever(w) ==
  /\ At(w, "select")
  /\ write' = [write EXCEPT ![w].pc = IF table = {} THEN "check" ELSE "delete",
                            ![w].victims = Oldest(table, EvictBatch)]
  /\ UNCHANGED <<table, lastId, total, sweep, writes>>

\* The oldest rows.  An empty table ends the loop, whatever the total says.
Select(w) ==
  /\ At(w, "select")
  /\ write' = [write EXCEPT ![w].pc = IF table = {} THEN "upsert" ELSE "delete",
                            ![w].victims = Oldest(table, EvictBatch)]
  /\ UNCHANGED <<table, lastId, total, sweep, writes>>

Evict(w) ==
  /\ At(w, "delete")
  /\ table' = Without(write[w].victims)
  /\ write' = Go(w, "freed")
  /\ UNCHANGED <<lastId, total, sweep, writes>>

\* The sizes selected are subtracted, whoever deleted the rows.
CountFreed(w) ==
  /\ At(w, "freed")
  /\ AddBytes(w, -SizeOf(write[w].victims))
  /\ write' = [write EXCEPT ![w].pc = "check", ![w].victims = {}]
  /\ UNCHANGED <<table, lastId, sweep, writes>>

UpsertInserting(w) ==
  /\ At(w, "upsert")
  /\ lastId' = lastId + 1
  /\ table' = table \cup {[id |-> lastId + 1, key |-> write[w].key, bytes |-> write[w].gross]}
  /\ write' = Go(w, "written")
  /\ UNCHANGED <<total, sweep, writes>>

UpsertReusingId(w) ==
  /\ At(w, "upsert")
  /\ LET old == RowsOf(write[w].key)
         id == IF old = {} THEN Max({r.id : r \in table} \cup {0}) + 1 ELSE (CHOOSE r \in old : TRUE).id
     IN  /\ table' = (table \ old) \cup {[id |-> id, key |-> write[w].key, bytes |-> write[w].gross]}
         /\ lastId' = IF old = {} THEN id ELSE lastId
  /\ write' = Go(w, "written")
  /\ UNCHANGED <<total, sweep, writes>>

UpsertMovingRow(w) ==
  /\ At(w, "upsert")
  /\ table' = (table \ RowsOf(write[w].key))
                \cup {[id |-> lastId + 1, key |-> write[w].key, bytes |-> write[w].gross]}
  /\ lastId' = lastId + 1
  /\ write' = Go(w, "written")
  /\ UNCHANGED <<total, sweep, writes>>

\* INSERT ... ON CONFLICT DO UPDATE: a row written again keeps its id.
Upsert(w) ==
  /\ At(w, "upsert")
  /\ LET old == RowsOf(write[w].key)
         id == IF old = {} THEN lastId + 1 ELSE (CHOOSE r \in old : TRUE).id
     IN  /\ table' = (table \ old) \cup {[id |-> id, key |-> write[w].key, bytes |-> write[w].gross]}
         /\ lastId' = IF old = {} THEN id ELSE lastId
  /\ write' = Go(w, "written")
  /\ UNCHANGED <<total, sweep, writes>>

CountWritten(w) ==
  /\ At(w, "written")
  /\ AddBytes(w, delta(w))
  /\ write' = [write EXCEPT ![w] = NoWrite]
  /\ UNCHANGED <<table, lastId, sweep, writes>>

\* A statement failed: Write returns the error, what it did so far stays.
Fail(w) ==
  /\ write[w].pc \in {"lookup", "select", "delete", "upsert"}
  /\ write' = [write EXCEPT ![w] = NoWrite]
  /\ UNCHANGED <<table, lastId, total, sweep, writes>>
-----------------------------------------------------------------------------
(* A tick of the sweep: Resync, then Drain (skipped while held unpaired).   *)

sweepUnchanged == <<lastId, write, writes>>

ResyncSum ==
  /\ sweep.pc = "idle"
  /\ sweep' = [sweep EXCEPT !.pc = "summed", !.sum = Bytes]
  /\ UNCHANGED <<table, total, sweepUnchanged>>

ResyncStoreMax ==
  /\ sweep.pc = "summed"
  /\ total' = [total EXCEPT ![Worker] = IF @ > sweep.sum THEN @ ELSE sweep.sum]
  /\ sweep' \in {[NoSweep EXCEPT !.pc = "read"], NoSweep}
  /\ UNCHANGED <<table, sweepUnchanged>>

ResyncStore ==
  /\ sweep.pc = "summed"
  /\ total' = [total EXCEPT ![Worker] = sweep.sum]
  /\ sweep' \in {[NoSweep EXCEPT !.pc = "read"], NoSweep}
  /\ UNCHANGED <<table, sweepUnchanged>>

DrainRead ==
  /\ sweep.pc = "read"
  /\ LET page == Oldest({r \in table : r.id > sweep.past}, DrainPage)
     IN  sweep' = IF page = {} THEN NoSweep
                  ELSE [sweep EXCEPT !.pc = "offered", !.page = page,
                                     !.past = Max({r.id : r \in page})]
  /\ UNCHANGED <<table, total, sweepUnchanged>>

\* The rows the queue took on are deleted by id, with the sizes they had when read.
DrainDelete ==
  /\ sweep.pc = "offered"
  /\ \E taken \in SUBSET sweep.page :
       /\ table' = Without(taken)
       /\ sweep' = [sweep EXCEPT !.pc = IF taken = {} THEN "read" ELSE "deleted", !.page = taken]
  /\ UNCHANGED <<total, sweepUnchanged>>

DrainCount ==
  /\ sweep.pc = "deleted"
  /\ AddBytes(Worker, -SizeOf(sweep.page))
  /\ sweep' = [sweep EXCEPT !.pc = "read", !.page = {}]
  /\ UNCHANGED <<table, sweepUnchanged>>

\* The daemon dies and starts again; open() seeds the new total.
Restart ==
  /\ total' = [total EXCEPT ![Worker] = Bytes]
  /\ write' = [write EXCEPT ![Worker] = NoWrite]
  /\ sweep' = NoSweep
  /\ UNCHANGED <<table, lastId, writes>>
-----------------------------------------------------------------------------
WriteStep(w) ==
  \/ Lookup(w) \/ Check(w) \/ Select(w) \/ Evict(w) \/ CountFreed(w)
  \/ Upsert(w) \/ CountWritten(w) \/ Fail(w)

Sweep == ResyncSum \/ ResyncStore \/ DrainRead \/ DrainDelete \/ DrainCount

Next ==
  \/ \E w \in Writers : Begin(w) \/ WriteStep(w)
  \/ Sweep
  \/ Restart

Spec == Init /\ [][Next]_vars

\* Every process runs on, and the ticker keeps ticking.  totalMu is a
\* sync.Mutex, which hands itself to a waiter that has waited long enough.
Fairness ==
  /\ WF_vars(Sweep)
  /\ \A w \in Writers : WF_vars(WriteStep(w))
  /\ SF_vars(CountFreed(Worker) \/ CountWritten(Worker))

FairSpec == Spec /\ Fairness
-----------------------------------------------------------------------------
SpoolTypeOK ==
  /\ table \subseteq [id : 1 .. lastId, key : Keys, bytes : Sizes]
  /\ \A r, s \in table : r.id = s.id \/ r.key = s.key => r = s
  /\ lastId \in 0 .. MaxWrites /\ writes \in 0 .. MaxWrites
  /\ total \in [Writers -> Int]
  /\ \A w \in Writers :
       /\ write[w].pc \in {"idle", "lookup", "check", "select", "delete", "freed", "upsert", "written"}
       /\ write[w].gross \in Sizes \cup {0}
       /\ write[w].pc # "idle" => write[w].key \in Keys
  /\ sweep.pc \in {"idle", "summed", "read", "offered", "deleted"}

\* Whoever writes, evicts or drains at the same time, and whatever fails in between,
\* the table changes only as SpoolRows says.
SpoolSpec == Contract!Spec

\* Whatever the interleavings of hooks, worker and sweep did to the daemon's
\* total, the drift ends with a sweep after the last write (Resync's reason to
\* be): rows are not evicted, or the budget overrun, on a wrong total for good.
DriftRepaired == <>[](total[Worker] = Bytes)

\* evictFor's loop ends although its total may be wrong and other processes
\* delete the rows it selected: a write always returns.
WriteEnds == \A w \in Writers : ~At(w, "idle") ~> At(w, "idle")

\* Between a SELECT and the DELETE by id that follows it other processes
\* delete and insert rows: a prompt loses its row only to a statement that
\* selected that prompt, because ids are never reused (AUTOINCREMENT).
DeletesWhatWasRead ==
  [][\A r \in table : RowsOf(r.key)' = {} =>
       \/ DrainDelete /\ \E s \in sweep.page : s.key = r.key
       \/ \E w \in Writers : Evict(w) /\ \E s \in write[w].victims : s.key = r.key]_vars
=============================================================================
