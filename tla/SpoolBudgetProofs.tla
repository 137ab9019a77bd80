------------------------- MODULE SpoolBudgetProofs -------------------------
(***************************************************************************)
(* Theorems about SpoolBudget, for any processes, budget and sizes of      *)
(* batch and page: a delete by id never hits a prompt but one that the     *)
(* statement before it had selected, and the types.                        *)
(*                                                                         *)
(* That the totals are numbers needs that a sum of sizes is one, which the *)
(* recursive definition of sums gives by the least counterexample (the     *)
(* number of its rows); that ids are bounded, that no pending write adds a *)
(* row that was not counted when it began.                                 *)
(*                                                                         *)
(* While nobody writes, a resync makes the daemon's total right for good:  *)
(* this rests on how a sum of sizes splits.                                *)
(*                                                                         *)
(* Last, the table implements SpoolRows, whose rows are in one order.      *)
(***************************************************************************)
EXTENDS SpoolBudget, FiniteSetTheorems, WellFoundedInduction, TLAPS

\* No two rows share a key or an id, and no id is above the last one given out.
RowsInv ==
  /\ lastId \in Nat
  /\ \A r \in table : r.id \in 1 .. lastId
  /\ \A r, s \in table : r.id = s.id \/ r.key = s.key => r = s

\* Rows that were read: whoever has one of their ids now is the same prompt.
Names(rows, tab, last) ==
  \A r \in rows : r.id \in 1 .. last /\ \A s \in tab : s.id = r.id => s.key = r.key

ReadInv ==
  /\ DOMAIN write = Writers
  /\ \A w \in Writers :
       DOMAIN write[w] = DOMAIN NoWrite /\ Names(write[w].victims, table, lastId)
  /\ DOMAIN sweep = DOMAIN NoSweep /\ Names(sweep.page, table, lastId)

SpoolInv == RowsInv /\ ReadInv

LEMMA NoneRead ==
  /\ NoWrite.victims = {} /\ NoSweep.page = {}
  /\ DOMAIN NoWrite = {"pc", "key", "gross", "old", "victims"}
  /\ DOMAIN NoSweep = {"pc", "sum", "past", "page"}
BY DEF NoWrite, NoSweep

LEMMA InitSpoolInv == Init => SpoolInv
BY NoneRead DEF Init, SpoolInv, RowsInv, ReadInv, Names

LEMMA OldestOf == \A rows, n : Oldest(rows, n) \subseteq rows
BY DEF Oldest

LEMMA NamesNone == \A tab, last : Names({}, tab, last)
BY DEF Names

\* What has just been selected.
LEMMA NamesRead ==
  ASSUME RowsInv, NEW rows \in SUBSET table PROVE Names(rows, table, lastId)
BY DEF RowsInv, Names

LEMMA NamesFewer ==
  ASSUME NEW rows, NEW some \in SUBSET rows, NEW tab, NEW left \in SUBSET tab, NEW last,
         Names(rows, tab, last)
  PROVE  Names(some, left, last)
BY DEF Names

\* A step that adds no row and gives out no id, in which each process keeps the
\* rows it has read, or drops some, or reads some.
LEMMA ReadStep ==
  ASSUME SpoolInv, table' \subseteq table, lastId' = lastId,
         DOMAIN write' = Writers, DOMAIN sweep' = DOMAIN NoSweep,
         \A w \in Writers :
           /\ DOMAIN write'[w] = DOMAIN NoWrite
           /\ \/ write'[w].victims \subseteq write[w].victims
              \/ write'[w].victims \subseteq table,
         sweep'.page \subseteq sweep.page \/ sweep'.page \subseteq table
  PROVE  SpoolInv'
<1>1. RowsInv'
  BY DEF SpoolInv, RowsInv
<1>2. \A w \in Writers : Names(write'[w].victims, table', lastId')
  <2> SUFFICES ASSUME NEW w \in Writers PROVE Names(write'[w].victims, table', lastId')
    OBVIOUS
  <2>1. Names(write[w].victims, table, lastId)
    BY DEF SpoolInv, ReadInv
  <2>2. CASE write'[w].victims \subseteq write[w].victims
    BY <2>1, <2>2, NamesFewer
  <2>3. CASE write'[w].victims \subseteq table
    <3>1. Names(write'[w].victims, table, lastId)
      BY <2>3, NamesRead DEF SpoolInv
    <3> QED BY <3>1, NamesFewer
  <2> QED BY <2>2, <2>3
<1>3. Names(sweep'.page, table', lastId')
  <2>1. Names(sweep.page, table, lastId)
    BY DEF SpoolInv, ReadInv
  <2>2. CASE sweep'.page \subseteq sweep.page
    BY <2>1, <2>2, NamesFewer
  <2>3. CASE sweep'.page \subseteq table
    <3>1. Names(sweep'.page, table, lastId)
      BY <2>3, NamesRead DEF SpoolInv
    <3> QED BY <3>1, NamesFewer
  <2> QED BY <2>2, <2>3
<1> QED BY <1>1, <1>2, <1>3 DEF SpoolInv, ReadInv

\* The same where the sweep's variables stay as they are, or the writers'.
LEMMA WriterStep ==
  ASSUME SpoolInv, NEW w \in Writers, table' \subseteq table, lastId' = lastId, sweep' = sweep,
         DOMAIN write' = Writers, \A v \in Writers \ {w} : write'[v] = write[v],
         DOMAIN write'[w] = DOMAIN NoWrite,
         write'[w].victims \subseteq write[w].victims \/ write'[w].victims \subseteq table
  PROVE  SpoolInv'
BY ReadStep DEF SpoolInv, ReadInv

LEMMA SweepStep ==
  ASSUME SpoolInv, table' \subseteq table, lastId' = lastId, write' = write,
         DOMAIN sweep' = DOMAIN NoSweep,
         sweep'.page \subseteq sweep.page \/ sweep'.page \subseteq table
  PROVE  SpoolInv'
BY ReadStep DEF SpoolInv, ReadInv

\* An upsert keeps the id of the key's row, or takes one never given out.
LEMMA UpsertInv ==
  ASSUME SpoolInv, NEW w \in Writers, Upsert(w)
  PROVE  SpoolInv' /\ \A r \in table : RowsOf(r.key)' # {}
<1> DEFINE k == write[w].key
           old == RowsOf(k)
           id == IF old = {} THEN lastId + 1 ELSE (CHOOSE r \in old : TRUE).id
           new == [id |-> id, key |-> k, bytes |-> write[w].gross]
<1>1. /\ table' = (table \ old) \cup {new} /\ lastId' = (IF old = {} THEN id ELSE lastId)
      /\ write' = [write EXCEPT ![w].pc = "written"] /\ sweep' = sweep
  BY DEF Upsert, Go
<1>2. new.id = id /\ new.key = k
  OBVIOUS
<1>3. \A r \in table : r \in old <=> r.key = k
  BY DEF RowsOf
<1>4. old \subseteq table
  BY DEF RowsOf
<1> HIDE DEF new, id, k, old
<1>5. \/ old = {} /\ id = lastId + 1 /\ lastId' = id
      \/ \E o \in old : id = o.id /\ lastId' = lastId
  BY <1>1 DEF id
<1>6. lastId \in Nat /\ lastId' \in Nat /\ lastId <= lastId' /\ id \in 1 .. lastId'
  BY <1>4, <1>5 DEF SpoolInv, RowsInv
<1>7. \A r \in table \ old : r.id # id /\ r.key # k
  BY <1>3, <1>4, <1>5 DEF SpoolInv, RowsInv
<1>8. RowsInv'
  BY <1>1, <1>2, <1>6, <1>7 DEF SpoolInv, RowsInv
<1>9. \A rows : Names(rows, table, lastId) => Names(rows, table', lastId')
  <2> SUFFICES ASSUME NEW rows, Names(rows, table, lastId), NEW r \in rows
               PROVE  r.id \in 1 .. lastId' /\ \A s \in table' : s.id = r.id => s.key = r.key
    BY DEF Names
  <2>1. r.id \in 1 .. lastId /\ \A s \in table : s.id = r.id => s.key = r.key
    BY DEF Names
  <2>2. id = r.id => k = r.key
    BY <1>3, <1>4, <1>5, <1>6, <2>1
  <2> QED BY <1>1, <1>2, <1>6, <2>1, <2>2
<1>10. ReadInv'
  <2>1. DOMAIN write' = Writers /\ \A v \in Writers : DOMAIN write'[v] = DOMAIN NoWrite
                                                     /\ write'[v].victims = write[v].victims
    <3>1. DOMAIN write = Writers /\ \A v \in Writers : DOMAIN write[v] = DOMAIN NoWrite
      BY DEF SpoolInv, ReadInv
    <3>2. DOMAIN write' = Writers /\ \A v \in Writers \ {w} : write'[v] = write[v]
      BY <1>1, <3>1
    <3>3. write'[w] = [write[w] EXCEPT !.pc = "written"]
      BY <1>1, <3>1
    <3>4. DOMAIN write'[w] = DOMAIN NoWrite /\ write'[w].victims = write[w].victims
      BY <3>1, <3>3, NoneRead
    <3> QED BY <3>1, <3>2, <3>4
  <2> QED BY <1>1, <1>9, <2>1 DEF SpoolInv, ReadInv
<1>11. \A r \in table : \E s \in table' : s.key = r.key
  BY <1>1, <1>2, <1>3
<1>12. \A r \in table : RowsOf(r.key)' # {}
  BY <1>11 DEF RowsOf
<1> QED BY <1>8, <1>10, <1>12 DEF SpoolInv

LEMMA WriteInv ==
  ASSUME SpoolInv, NEW w \in Writers, Begin(w) \/ WriteStep(w)
  PROVE  SpoolInv'
<1>0. /\ DOMAIN write = Writers /\ DOMAIN write[w] = DOMAIN NoWrite
      /\ NoWrite.victims = {} /\ DOMAIN NoWrite = {"pc", "key", "gross", "old", "victims"}
  BY NoneRead DEF SpoolInv, ReadInv
<1>1. CASE Begin(w)
  <2>1. PICK k \in Keys, n \in Sizes :
          write' = [write EXCEPT ![w] = [NoWrite EXCEPT !.pc = "lookup", !.key = k, !.gross = n]]
    BY <1>1 DEF Begin
  <2>2. DOMAIN write'[w] = DOMAIN NoWrite /\ write'[w].victims = {}
    BY <1>0, <2>1
  <2> QED BY <1>0, <1>1, <2>1, <2>2, WriterStep DEF Begin
<1>2. CASE Lookup(w)
  <2>1. DOMAIN write'[w] = DOMAIN NoWrite /\ write'[w].victims \subseteq write[w].victims
    BY <1>0, <1>2 DEF Lookup
  <2>2. DOMAIN write' = Writers /\ \A v \in Writers \ {w} : write'[v] = write[v]
    BY <1>0, <1>2 DEF Lookup
  <2> QED BY <1>2, <2>1, <2>2, WriterStep DEF Lookup
<1>3. CASE Check(w)
  BY <1>0, <1>3, WriterStep DEF Check, Go
<1>4. CASE Select(w)
  <2>1. DOMAIN write'[w] = DOMAIN NoWrite /\ write'[w].victims \subseteq table
    BY <1>0, <1>4, OldestOf DEF Select
  <2>2. DOMAIN write' = Writers /\ \A v \in Writers \ {w} : write'[v] = write[v]
    BY <1>0, <1>4 DEF Select
  <2> QED BY <1>4, <2>1, <2>2, WriterStep DEF Select
<1>5. CASE Evict(w)
  BY <1>0, <1>5, WriterStep DEF Evict, Go, Without
<1>6. CASE CountFreed(w)
  <2>1. DOMAIN write'[w] = DOMAIN NoWrite /\ write'[w].victims = {}
    BY <1>0, <1>6 DEF CountFreed
  <2>2. DOMAIN write' = Writers /\ \A v \in Writers \ {w} : write'[v] = write[v]
    BY <1>0, <1>6 DEF CountFreed
  <2> QED BY <1>6, <2>1, <2>2, WriterStep DEF CountFreed
<1>7. CASE Upsert(w)
  BY <1>7, UpsertInv
<1>8. CASE CountWritten(w)
  BY <1>0, <1>8, WriterStep DEF CountWritten
<1>9. CASE Fail(w)
  BY <1>0, <1>9, WriterStep DEF Fail
<1> QED BY <1>1, <1>2, <1>3, <1>4, <1>5, <1>6, <1>7, <1>8, <1>9 DEF WriteStep

LEMMA DaemonInv ==
  ASSUME SpoolInv, Sweep \/ Restart
  PROVE  SpoolInv'
<1>0. /\ DOMAIN write = Writers /\ DOMAIN sweep = DOMAIN NoSweep /\ NoWrite.victims = {}
      /\ NoSweep.page = {} /\ DOMAIN NoSweep = {"pc", "sum", "past", "page"}
  BY NoneRead DEF SpoolInv, ReadInv
<1>1. CASE ResyncSum
  BY <1>0, <1>1, SweepStep DEF ResyncSum, sweepUnchanged
<1>2. CASE ResyncStore
  <2>1. DOMAIN sweep' = DOMAIN NoSweep /\ sweep'.page = {}
    BY <1>0, <1>2 DEF ResyncStore
  <2> QED BY <1>2, <2>1, SweepStep DEF ResyncStore, sweepUnchanged
<1>3. CASE DrainRead
  <2> DEFINE page == Oldest({r \in table : r.id > sweep.past}, DrainPage)
  <2>1. page \subseteq table
    BY OldestOf
  <2>2. sweep' = IF page = {} THEN NoSweep
                 ELSE [sweep EXCEPT !.pc = "offered", !.page = page,
                                    !.past = Max({r.id : r \in page})]
    BY <1>3 DEF DrainRead
  <2> HIDE DEF page
  <2>3. DOMAIN sweep' = DOMAIN NoSweep /\ sweep'.page \subseteq table
    BY <1>0, <2>1, <2>2
  <2> QED BY <1>3, <2>3, SweepStep DEF DrainRead, sweepUnchanged
<1>4. CASE DrainDelete
  <2>1. PICK taken \in SUBSET sweep.page :
          /\ table' = Without(taken)
          /\ sweep' = [sweep EXCEPT !.pc = IF taken = {} THEN "read" ELSE "deleted", !.page = taken]
    BY <1>4 DEF DrainDelete
  <2>2. DOMAIN sweep' = DOMAIN NoSweep /\ sweep'.page \subseteq sweep.page
    BY <1>0, <2>1
  <2>3. table' \subseteq table
    BY <2>1 DEF Without
  <2> QED BY <1>4, <2>2, <2>3, SweepStep DEF DrainDelete, sweepUnchanged
<1>5. CASE DrainCount
  <2>1. DOMAIN sweep' = DOMAIN NoSweep /\ sweep'.page = {}
    BY <1>0, <1>5 DEF DrainCount
  <2> QED BY <1>5, <2>1, SweepStep DEF DrainCount, sweepUnchanged
<1>6. CASE Restart
  <2>1. /\ DOMAIN write' = Writers /\ sweep' = NoSweep /\ table' = table /\ lastId' = lastId
        /\ \A w \in Writers : write'[w] = write[w] \/ write'[w] = NoWrite
    BY <1>0, <1>6 DEF Restart
  <2> QED BY <1>0, <2>1, ReadStep DEF SpoolInv, ReadInv
<1> QED BY <1>1, <1>2, <1>3, <1>4, <1>5, <1>6 DEF Sweep

\* A delete by id takes a row only from a prompt whose row was selected.
LEMMA DeleteStep ==
  ASSUME SpoolInv, NEW rows, Names(rows, table, lastId), table' = Without(rows),
         NEW r \in table, RowsOf(r.key)' = {}
  PROVE  \E s \in rows : s.key = r.key
<1>1. r \notin table'
  BY DEF RowsOf
<1>2. PICK s \in rows : r.id = s.id
  BY <1>1 DEF Without
<1> QED BY <1>2 DEF Names

LEMMA LossStep ==
  ASSUME SpoolInv, [Next]_vars, NEW r \in table, RowsOf(r.key)' = {}
  PROVE  \/ DrainDelete /\ \E s \in sweep.page : s.key = r.key
         \/ \E w \in Writers : Evict(w) /\ \E s \in write[w].victims : s.key = r.key
<1>1. table' # table
  BY DEF RowsOf
<1>2. CASE DrainDelete
  <2>1. PICK taken \in SUBSET sweep.page : table' = Without(taken)
    BY <1>2 DEF DrainDelete
  <2>2. Names(taken, table, lastId)
    BY NamesFewer DEF SpoolInv, ReadInv
  <2>3. \E s \in taken : s.key = r.key
    BY <2>1, <2>2, DeleteStep
  <2> QED BY <1>2, <2>3
<1>3. CASE \E w \in Writers : Evict(w)
  <2>1. PICK w \in Writers : Evict(w)
    BY <1>3
  <2>2. table' = Without(write[w].victims)
    BY <2>1 DEF Evict
  <2>3. Names(write[w].victims, table, lastId)
    BY DEF SpoolInv, ReadInv
  <2>4. \E s \in write[w].victims : s.key = r.key
    BY <2>2, <2>3, DeleteStep
  <2> QED BY <2>1, <2>4
<1>4. CASE \E w \in Writers : Upsert(w)
  BY <1>4, UpsertInv
<1>5. CASE UNCHANGED table
  BY <1>1, <1>5
<1>6. \A w \in Writers : Begin(w) \/ WriteStep(w) => Evict(w) \/ Upsert(w) \/ UNCHANGED table
  BY DEF WriteStep, Begin, Lookup, Check, Select, CountFreed, CountWritten, Fail
<1>7. Sweep \/ Restart => DrainDelete \/ UNCHANGED table
  BY DEF Sweep, ResyncSum, ResyncStore, DrainRead, DrainCount, Restart
<1> QED BY <1>2, <1>3, <1>4, <1>5, <1>6, <1>7 DEF Next, vars
-----------------------------------------------------------------------------

\* Rows have ids of their own, none above lastId, and an id that some statement
\* has read still names the prompt it was read for, if any.
THEOREM SpoolInvariance == Spec => []SpoolInv
<1>1. SpoolInv /\ [Next]_vars => SpoolInv'
  <2> SUFFICES ASSUME SpoolInv, [Next]_vars PROVE SpoolInv'
    OBVIOUS
  <2>1. CASE UNCHANGED vars
    BY <2>1 DEF vars, SpoolInv, RowsInv, ReadInv
  <2> QED BY <2>1, WriteInv, DaemonInv DEF Next
<1> QED BY <1>1, InitSpoolInv, PTL DEF Spec

\* Whatever other processes delete, insert and rewrite between a SELECT and the
\* DELETE by id that follows it, a prompt loses its row only to a statement that
\* had selected that prompt.
THEOREM OnlyReadRowsDeleted == Spec => DeletesWhatWasRead
<1>1. SpoolInv /\ [Next]_vars =>
        [\A r \in table : RowsOf(r.key)' = {} =>
           \/ DrainDelete /\ \E s \in sweep.page : s.key = r.key
           \/ \E w \in Writers : Evict(w) /\ \E s \in write[w].victims : s.key = r.key]_vars
  BY LossStep
<1> QED BY <1>1, SpoolInvariance, PTL DEF Spec, DeletesWhatWasRead
-----------------------------------------------------------------------------
(* The types.                                                               *)

\* A set of numbers that is not empty has a least one.
LEMMA LeastNumber ==
  ASSUME NEW S \in SUBSET Nat, S # {}
  PROVE  \E n \in S : \A m \in S : n <= m
<1>1. \E n \in S : \A m \in S : ~(<<m, n>> \in OpToRel(<, Nat))
  BY WFMin, NatLessThanWellFounded
<1>2. \E n \in S : \A m \in S : ~(m < n)
  BY <1>1 DEF OpToRel
<1> QED BY <1>2

Pick(s) == CHOOSE x \in s : TRUE

\* The function that a sum of sizes computes, by the sizes of the sets it is given.
LEMMA SumIterates ==
  ASSUME NEW rows, IsFiniteSet(rows)
  PROVE  \E f : /\ SizeOf(rows) = f[rows]
                /\ \A s \in SUBSET rows :
                     f[s] = IF s = {} THEN 0 ELSE Pick(s).bytes + f[s \ {Pick(s)}]
<1> DEFINE Sum(f, s) == IF s = {} THEN 0 ELSE Pick(s).bytes + f[s \ {Pick(s)}]
           Upto(n) == {s \in SUBSET rows : Cardinality(s) <= n}
           Sums(f, D) == f = [s \in D |-> Sum(f, s)]
           sum == CHOOSE f : Sums(f, SUBSET rows)
<1>1. SizeOf(rows) = sum[rows]
  BY DEF SizeOf, MapThenSumSet, MapThenFoldSet, Pick
<1>2. \A s \in SUBSET rows : /\ Cardinality(s) \in Nat /\ Cardinality(s) <= Cardinality(rows)
                             /\ s = {} <=> Cardinality(s) = 0
                             /\ IsFiniteSet(s)
  BY FS_Subset, FS_CardinalityType, FS_EmptySet
<1>3. \A s \in SUBSET rows : s # {} => /\ Pick(s) \in s /\ s \ {Pick(s)} \in SUBSET rows
                                       /\ Cardinality(s \ {Pick(s)}) = Cardinality(s) - 1
  BY <1>2, FS_RemoveElement DEF Pick
<1>4. Cardinality(rows) \in Nat /\ Upto(Cardinality(rows)) = SUBSET rows
  BY <1>2
<1>5. \A n \in Nat : \E f : Sums(f, Upto(n))
  <2> DEFINE Wrong == {n \in Nat : ~ \E f : Sums(f, Upto(n))}
  <2> SUFFICES ASSUME Wrong # {} PROVE FALSE
    OBVIOUS
  <2>1. PICK n \in Wrong : \A m \in Wrong : n <= m
    <3> HIDE DEF Sums, Upto
    <3> QED BY LeastNumber
  <2>2. n # 0
    <3>1. \A s \in Upto(0) : s = {}
      BY <1>2
    <3>2. Sums([s \in Upto(0) |-> 0], Upto(0))
      <4> HIDE DEF Upto
      <4> QED BY <3>1
    <3> HIDE DEF Sums, Upto
    <3>3. 0 \notin Wrong
      BY <3>2
    <3> QED BY <3>3, <2>1
  <2>3. n \in Nat /\ n - 1 \in Nat /\ n - 1 \notin Wrong
    <3> HIDE DEF Sums, Upto
    <3>1. n \in Nat /\ n - 1 \in Nat /\ ~(n <= n - 1)
      BY <2>1, <2>2
    <3> QED BY <3>1, <2>1
  <2>4. PICK g : Sums(g, Upto(n - 1))
    BY <2>3
  <2> DEFINE h == [s \in Upto(n) |-> IF Cardinality(s) < n THEN g[s] ELSE Sum(g, s)]
  <2>5. ASSUME NEW s \in Upto(n) PROVE h[s] = Sum(h, s)
    <3>1. h[s] = Sum(g, s)
      <4>1. CASE Cardinality(s) < n
        <5>1. s \in Upto(n - 1) /\ h[s] = g[s]
          BY <1>2, <2>3, <4>1
        <5> HIDE DEF Sum, Upto
        <5> QED BY <2>4, <5>1
      <4>2. CASE ~(Cardinality(s) < n)
        <5> HIDE DEF Sum, Upto
        <5> QED BY <4>2
      <4> QED BY <4>1, <4>2
    <3>2. ASSUME s # {} PROVE g[s \ {Pick(s)}] = h[s \ {Pick(s)}]
      <4>1. s \ {Pick(s)} \in Upto(n) /\ Cardinality(s \ {Pick(s)}) < n
        BY <1>2, <1>3, <2>3, <3>2
      <4> HIDE DEF Upto, Sum
      <4> QED BY <4>1
    <3> HIDE DEF h
    <3> QED BY <3>1, <3>2
  <2>6. Sums(h, Upto(n))
    <3> HIDE DEF Sum, Upto
    <3> QED BY <2>5
  <2> QED BY <2>1, <2>6
<1>6. Sums(sum, SUBSET rows)
  <2> HIDE DEF Sums, Upto
  <2> QED BY <1>4, <1>5
<1>7. \A s \in SUBSET rows : sum[s] = Sum(sum, s)
  <2> HIDE DEF Sum, sum
  <2> QED BY <1>6
<1> HIDE DEF sum
<1> QED BY <1>1, <1>7

\* A sum takes one of its rows and then the sum of the others.
LEMMA SizeStep ==
  ASSUME NEW rows, IsFiniteSet(rows)
  PROVE  SizeOf(rows) = IF rows = {} THEN 0 ELSE Pick(rows).bytes + SizeOf(rows \ {Pick(rows)})
<1> DEFINE less == rows \ {Pick(rows)}
           Sum(f, s) == IF s = {} THEN 0 ELSE Pick(s).bytes + f[s \ {Pick(s)}]
<1>1. PICK f : SizeOf(rows) = f[rows] /\ \A s \in SUBSET rows : f[s] = Sum(f, s)
  BY SumIterates
<1>2. IsFiniteSet(less)
  BY FS_Subset
<1>3. PICK g : SizeOf(less) = g[less] /\ \A s \in SUBSET less : g[s] = Sum(g, s)
  <2> HIDE DEF less
  <2> QED BY <1>2, SumIterates
<1>4. \A s \in SUBSET less : /\ Cardinality(s) \in Nat
                             /\ s # {} => /\ s \ {Pick(s)} \in SUBSET less
                                          /\ Cardinality(s \ {Pick(s)}) = Cardinality(s) - 1
  BY <1>2, FS_Subset, FS_CardinalityType, FS_RemoveElement DEF Pick
<1>5. \A s \in SUBSET less : f[s] = g[s]
  <2> DEFINE Wrong == {Cardinality(s) : s \in {s \in SUBSET less : f[s] # g[s]}}
  <2> SUFFICES ASSUME Wrong # {} PROVE FALSE
    OBVIOUS
  <2> HIDE DEF less
  <2>1. PICK n \in Wrong : \A m \in Wrong : n <= m
    <3>1. Wrong \in SUBSET Nat
      BY <1>4
    <3> QED BY <3>1, LeastNumber
  <2>2. PICK s \in SUBSET less : f[s] # g[s] /\ Cardinality(s) = n
    BY <2>1
  <2>3. f[s] = Sum(f, s) /\ g[s] = Sum(g, s)
    BY <1>1, <1>3 DEF less
  <2>4. s # {} /\ f[s \ {Pick(s)}] # g[s \ {Pick(s)}]
    BY <2>2, <2>3
  <2>5. n - 1 \in Wrong /\ n \in Nat
    BY <1>4, <2>2, <2>4
  <2> QED BY <2>1, <2>5
<1>6. rows = {} => SizeOf(rows) = 0
  BY <1>1
<1>7. rows # {} => SizeOf(rows) = Pick(rows).bytes + f[less]
  BY <1>1
<1> QED BY <1>3, <1>5, <1>6, <1>7

\* A sum of sizes is a number.
LEMMA SizeIsNumber ==
  ASSUME NEW rows, IsFiniteSet(rows), \A r \in rows : r.bytes \in Nat
  PROVE  SizeOf(rows) \in Nat
<1>1. \A s \in SUBSET rows :
        /\ IsFiniteSet(s) /\ Cardinality(s) \in Nat
        /\ s # {} => /\ Pick(s) \in s /\ s \ {Pick(s)} \in SUBSET rows
                     /\ Cardinality(s \ {Pick(s)}) = Cardinality(s) - 1
  BY FS_Subset, FS_CardinalityType, FS_RemoveElement DEF Pick
<1> DEFINE Wrong == {Cardinality(s) : s \in {s \in SUBSET rows : SizeOf(s) \notin Nat}}
<1>2. SUFFICES ASSUME Wrong # {} PROVE FALSE
  OBVIOUS
<1>3. PICK n \in Wrong : \A m \in Wrong : n <= m
  <2>1. Wrong \in SUBSET Nat
    BY <1>1
  <2> QED BY <1>2, <2>1, LeastNumber
<1>4. PICK s \in SUBSET rows : SizeOf(s) \notin Nat /\ Cardinality(s) = n
  BY <1>3
<1>5. s # {} /\ SizeOf(s \ {Pick(s)}) \notin Nat
  <2>1. SizeOf(s) = IF s = {} THEN 0 ELSE Pick(s).bytes + SizeOf(s \ {Pick(s)})
    BY <1>1, SizeStep
  <2>2. s # {}
    BY <1>4, <2>1
  <2>3. Pick(s).bytes \in Nat
    BY <1>1, <2>2
  <2>4. SizeOf(s) = Pick(s).bytes + SizeOf(s \ {Pick(s)})
    BY <2>1, <2>2
  <2> QED BY <1>4, <2>2, <2>3, <2>4
<1>6. n - 1 \in Wrong /\ n \in Nat
  BY <1>1, <1>4, <1>5
<1> QED BY <1>3, <1>6

\* It does not matter which row a sum takes first.
LEMMA SizeRemove ==
  ASSUME NEW rows, IsFiniteSet(rows), \A r \in rows : r.bytes \in Nat, NEW r \in rows
  PROVE  SizeOf(rows) = r.bytes + SizeOf(rows \ {r})
<1>1. \A s \in SUBSET rows :
        /\ IsFiniteSet(s) /\ Cardinality(s) \in Nat /\ SizeOf(s) \in Nat
        /\ s # {} => Pick(s) \in s
        /\ \A x \in s : /\ s \ {x} \in SUBSET rows /\ Cardinality(s \ {x}) = Cardinality(s) - 1
  BY FS_Subset, FS_CardinalityType, FS_RemoveElement, SizeIsNumber DEF Pick
<1> DEFINE Right(s) == \A x \in s : SizeOf(s) = x.bytes + SizeOf(s \ {x})
           Wrong == {Cardinality(s) : s \in {s \in SUBSET rows : ~Right(s)}}
<1>2. SUFFICES ASSUME Wrong # {} PROVE FALSE
  OBVIOUS
<1>3. PICK n \in Wrong : \A m \in Wrong : n <= m
  <2>1. Wrong \in SUBSET Nat
    BY <1>1
  <2> HIDE DEF Wrong
  <2> QED BY <1>2, <2>1, LeastNumber
<1>4. PICK s \in SUBSET rows : ~Right(s) /\ Cardinality(s) = n
  BY <1>3
<1>5. PICK x \in s : SizeOf(s) # x.bytes + SizeOf(s \ {x})
  BY <1>4
<1> DEFINE p == Pick(s)
<1>6. p \in s /\ SizeOf(s) = p.bytes + SizeOf(s \ {p})
  BY <1>1, <1>5, SizeStep
<1> HIDE DEF p
<1>7. x # p /\ x \in s \ {p} /\ p \in s \ {x}
  BY <1>5, <1>6
<1>8. ASSUME NEW y \in s PROVE Right(s \ {y})
  <2>1. s \ {y} \in SUBSET rows /\ Cardinality(s \ {y}) = n - 1 /\ n \in Nat
    BY <1>1, <1>4
  <2>2. ~(n <= n - 1)
    BY <2>1
  <2>3. n - 1 \notin Wrong
    BY <1>3, <2>2
  <2> HIDE DEF Right
  <2> QED BY <2>1, <2>3
<1>9. /\ SizeOf(s \ {p}) = x.bytes + SizeOf((s \ {p}) \ {x})
      /\ SizeOf(s \ {x}) = p.bytes + SizeOf((s \ {x}) \ {p})
  BY <1>6, <1>7, <1>8
<1>10. (s \ {p}) \ {x} = (s \ {x}) \ {p} /\ (s \ {x}) \ {p} \in SUBSET rows
  OBVIOUS
<1>11. SizeOf((s \ {x}) \ {p}) \in Nat /\ x.bytes \in Nat /\ p.bytes \in Nat
  BY <1>1, <1>6, <1>10
<1>12. SizeOf(s \ {p}) = x.bytes + SizeOf((s \ {x}) \ {p})
  BY <1>9, <1>10
<1>13. p.bytes + (x.bytes + SizeOf((s \ {x}) \ {p})) = x.bytes + (p.bytes + SizeOf((s \ {x}) \ {p}))
  BY <1>11
<1> QED BY <1>5, <1>6, <1>9, <1>12, <1>13

\* What a part of the rows weighs and what the others weigh.
LEMMA SizeSplit ==
  ASSUME NEW rows, IsFiniteSet(rows), \A r \in rows : r.bytes \in Nat, NEW part \in SUBSET rows
  PROVE  SizeOf(rows) = SizeOf(rows \ part) + SizeOf(part)
<1>1. \A s \in SUBSET rows : /\ IsFiniteSet(s) /\ Cardinality(s) \in Nat /\ SizeOf(s) \in Nat
                             /\ \A x \in s : Cardinality(s \ {x}) = Cardinality(s) - 1
  BY FS_Subset, FS_CardinalityType, FS_RemoveElement, SizeIsNumber
<1> DEFINE Right(s) == SizeOf(rows) = SizeOf(rows \ s) + SizeOf(s)
           Wrong == {Cardinality(s) : s \in {s \in SUBSET rows : ~Right(s)}}
<1>2. SUFFICES ASSUME Wrong # {} PROVE FALSE
  OBVIOUS
<1>3. PICK n \in Wrong : \A m \in Wrong : n <= m
  <2>1. Wrong \in SUBSET Nat
    BY <1>1
  <2> HIDE DEF Wrong
  <2> QED BY <1>2, <2>1, LeastNumber
<1>4. PICK s \in SUBSET rows : ~Right(s) /\ Cardinality(s) = n
  BY <1>3
<1>5. s # {}
  <2>1. rows \ {} = rows /\ IsFiniteSet({}) /\ SizeOf(rows) \in Nat
    BY <1>1
  <2>2. SizeOf({}) = 0
    BY <2>1, SizeStep
  <2>3. Right({})
    BY <2>1, <2>2
  <2> HIDE DEF Right
  <2> QED BY <1>4, <2>3
<1>6. PICK x \in s : TRUE
  BY <1>5
<1> DEFINE t == s \ {x}
<1>7. t \in SUBSET rows /\ Cardinality(t) = n - 1 /\ n \in Nat
  BY <1>1, <1>4
<1>8. Right(t)
  <2>1. ~(n <= n - 1)
    BY <1>7
  <2>2. n - 1 \notin Wrong
    BY <1>3, <2>1
  <2> HIDE DEF Right, t
  <2> QED BY <1>7, <2>2
<1>9. SizeOf(s) = x.bytes + SizeOf(t)
  BY <1>1, SizeRemove
<1>10. SizeOf(rows \ t) = x.bytes + SizeOf(rows \ s)
  <2>1. rows \ t \in SUBSET rows /\ x \in rows \ t /\ (rows \ t) \ {x} = rows \ s
    BY <1>6
  <2> HIDE DEF t
  <2>2. IsFiniteSet(rows \ t) /\ \A r \in rows \ t : r.bytes \in Nat
    BY <1>1, <2>1
  <2>3. SizeOf(rows \ t) = x.bytes + SizeOf((rows \ t) \ {x})
    BY <2>1, <2>2, SizeRemove
  <2> QED BY <2>1, <2>3
<1>11. x.bytes \in Nat /\ SizeOf(t) \in Nat /\ SizeOf(rows \ s) \in Nat
  BY <1>1, <1>7
<1> QED BY <1>4, <1>8, <1>9, <1>10, <1>11

\* A finite set of rows with sizes, of which sums can be taken.
Sized(rows) == IsFiniteSet(rows) /\ \A r \in rows : r.bytes \in Nat

\* What holds of the write that a process is in.
WriterTyped(r) ==
  /\ r.pc \in {"idle", "lookup", "check", "select", "delete", "freed", "upsert", "written"}
  /\ r.gross \in Sizes \cup {0} /\ r.old \in Nat
  /\ r.pc # "idle" => r.key \in Keys /\ r.gross \in Sizes
  /\ Sized(r.victims)

\* The writes that may still add a row: each has been counted, and no other may
\* give out an id.
Over == {"idle", "written"}
Pending == {w \in Writers : write[w].pc \notin Over}
Counted == IsFiniteSet(Pending) /\ lastId + Cardinality(Pending) <= writes

Typed ==
  /\ table \subseteq [id : 1 .. lastId, key : Keys, bytes : Sizes] /\ IsFiniteSet(table)
  /\ lastId \in Nat /\ writes \in 0 .. MaxWrites /\ Counted
  /\ total \in [Writers -> Int]
  /\ \A w \in Writers : WriterTyped(write[w])
  /\ sweep.pc \in {"idle", "summed", "read", "offered", "deleted"}
  /\ sweep.sum \in Nat /\ Sized(sweep.page)

LEMMA SizesAreNumbers == Sizes \subseteq Nat \ {0} /\ MaxWrites \in Nat
BY BudgetAssumption

LEMMA IdleTyped == WriterTyped(NoWrite) /\ NoWrite.pc = "idle" /\ Sized({})
BY NoneRead, FS_EmptySet DEF NoWrite, WriterTyped, Sized

LEMMA WriterNumbers ==
  ASSUME NEW r, WriterTyped(r)
  PROVE  r.gross \in Int /\ r.old \in Int
<1>1. \A n \in Sizes \cup {0} : n \in Int
  BY SizesAreNumbers
<1> QED BY <1>1 DEF WriterTyped

LEMMA NewTotal ==
  ASSUME NEW f \in [Writers -> Int], NEW n \in Int
  PROVE  /\ [f EXCEPT ![Worker] = n] \in [Writers -> Int]
         /\ [f EXCEPT ![Worker] = @ + n] \in [Writers -> Int]
<1>1. \A w \in Writers : f[w] \in Int /\ f[w] + n \in Int
  OBVIOUS
<1>2. [f EXCEPT ![Worker] = n] \in [Writers -> Int]
  OBVIOUS
<1>3. [f EXCEPT ![Worker] = @ + n] \in [Writers -> Int]
  BY <1>1
<1> QED BY <1>2, <1>3

LEMMA InitTyped == Init => Typed
<1> SUFFICES ASSUME Init PROVE Typed
  OBVIOUS
<1>1. Pending = {} /\ \A w \in Writers : write[w] = NoWrite
  BY IdleTyped DEF Init, Pending, Over
<1>2. Counted
  BY <1>1, FS_EmptySet DEF Init, Counted
<1>3. IsFiniteSet(table) /\ table = {}
  BY FS_EmptySet DEF Init
<1> QED BY <1>1, <1>2, <1>3, IdleTyped, SizesAreNumbers DEF Init, Typed, NoSweep

\* Some of the rows; and their sum.
LEMMA SomeSized ==
  ASSUME NEW rows, Sized(rows), NEW some \in SUBSET rows
  PROVE  Sized(some) /\ SizeOf(some) \in Nat
<1>1. Sized(some)
  BY FS_Subset DEF Sized
<1> QED BY <1>1, SizeIsNumber DEF Sized

LEMMA TableSized == Typed => Sized(table)
BY SizesAreNumbers DEF Typed, Sized

\* One process goes on in its write, without a new row.
LEMMA WriterTypes ==
  ASSUME Typed, NEW w \in Writers, table' \subseteq table, lastId' = lastId,
         writes' = writes, sweep' = sweep, total' \in [Writers -> Int],
         \A v \in Writers \ {w} : write'[v] = write[v],
         WriterTyped(write'[w]), write[w].pc \in Over => write'[w].pc \in Over
  PROVE  Typed'
<1>1. Pending' \subseteq Pending
  BY DEF Pending
<1>2. IsFiniteSet(Pending') /\ Cardinality(Pending') <= Cardinality(Pending)
      /\ Cardinality(Pending') \in Nat /\ Cardinality(Pending) \in Nat
  BY <1>1, FS_Subset, FS_CardinalityType DEF Typed, Counted
<1>3. Counted'
  BY <1>2, SizesAreNumbers DEF Typed, Counted
<1>4. IsFiniteSet(table')
  BY FS_Subset DEF Typed
<1>5. \A v \in Writers : WriterTyped(write'[v])
  BY DEF Typed
<1> QED BY <1>3, <1>4, <1>5 DEF Typed

\* A write begins: it is counted before it is pending.
LEMMA BeginTypes ==
  ASSUME SpoolInv, Typed, NEW w \in Writers, Begin(w)
  PROVE  Typed'
<1>1. PICK k \in Keys, n \in Sizes :
        write' = [write EXCEPT ![w] = [NoWrite EXCEPT !.pc = "lookup", !.key = k, !.gross = n]]
  BY DEF Begin
<1>2. /\ write'[w] = [pc |-> "lookup", key |-> k, gross |-> n, old |-> 0, victims |-> {}]
      /\ \A v \in Writers \ {w} : write'[v] = write[v]
  BY <1>1 DEF SpoolInv, ReadInv, NoWrite
<1>3. \A v \in Writers : WriterTyped(write'[v])
  <2>1. WriterTyped(write'[w])
    BY <1>2, IdleTyped DEF WriterTyped
  <2> QED BY <1>2, <2>1 DEF Typed
<1>4. Pending' = Pending \cup {w} /\ w \notin Pending
  BY <1>2 DEF Begin, At, Pending, Over
<1>5. IsFiniteSet(Pending') /\ Cardinality(Pending') = Cardinality(Pending) + 1
      /\ Cardinality(Pending) \in Nat
  BY <1>4, FS_AddElement, FS_CardinalityType DEF Typed, Counted
<1>6. Counted' /\ writes' \in 0 .. MaxWrites
  BY <1>5, SizesAreNumbers DEF Begin, Typed, Counted
<1>7. total' \in [Writers -> Int]
  BY TableSized, SomeSized DEF Begin, Typed, Bytes
<1> QED BY <1>3, <1>6, <1>7 DEF Begin, Typed

\* The write that is upserted leaves the pending ones, and may give out one id.
LEMMA UpsertTypes ==
  ASSUME SpoolInv, Typed, NEW w \in Writers, Upsert(w)
  PROVE  Typed'
<1> DEFINE k == write[w].key
           old == RowsOf(k)
           id == IF old = {} THEN lastId + 1 ELSE (CHOOSE r \in old : TRUE).id
           new == [id |-> id, key |-> k, bytes |-> write[w].gross]
<1>1. /\ table' = (table \ old) \cup {new} /\ lastId' = (IF old = {} THEN id ELSE lastId)
      /\ write' = [write EXCEPT ![w].pc = "written"]
      /\ UNCHANGED <<total, sweep, writes>> /\ write[w].pc = "upsert"
  BY DEF Upsert, Go, At
<1>2. k \in Keys /\ write[w].gross \in Sizes /\ WriterTyped(write[w])
  BY <1>1 DEF Typed, WriterTyped
<1>3. lastId \in Nat /\ lastId' \in {lastId, lastId + 1} /\ id \in 1 .. lastId'
  <2>1. CASE old = {}
    BY <1>1, <2>1 DEF Typed
  <2>2. CASE old # {}
    <3>1. PICK r \in table : id = r.id
      BY <2>2 DEF RowsOf
    <3> QED BY <1>1, <2>2, <3>1 DEF Typed
  <2> QED BY <2>1, <2>2
<1>4. new \in [id : 1 .. lastId', key : Keys, bytes : Sizes]
  BY <1>2, <1>3
<1> HIDE DEF new
<1>5. table' \subseteq [id : 1 .. lastId', key : Keys, bytes : Sizes]
  <2>1. ASSUME NEW r \in table PROVE r \in [id : 1 .. lastId', key : Keys, bytes : Sizes]
    BY <1>3 DEF Typed
  <2> QED BY <1>1, <1>4, <2>1
<1>6. IsFiniteSet(table')
  <2>1. IsFiniteSet(table \ old)
    BY FS_Subset DEF Typed
  <2> QED BY <1>1, <2>1, FS_AddElement
<1>7. /\ \A v \in Writers \ {w} : write'[v] = write[v]
      /\ write'[w] = [write[w] EXCEPT !.pc = "written"]
  BY <1>1 DEF SpoolInv, ReadInv
<1>8. WriterTyped(write'[w]) /\ write'[w].pc = "written"
  BY <1>1, <1>2, <1>7, NoneRead DEF WriterTyped, SpoolInv, ReadInv
<1>9. Pending' = Pending \ {w} /\ w \in Pending
  BY <1>1, <1>7, <1>8 DEF Pending, Over
<1>10. IsFiniteSet(Pending') /\ Cardinality(Pending') = Cardinality(Pending) - 1
       /\ Cardinality(Pending) \in Nat
  BY <1>9, FS_RemoveElement, FS_CardinalityType DEF Typed, Counted
<1>11. Counted'
  BY <1>1, <1>3, <1>10, SizesAreNumbers DEF Typed, Counted
<1>12. \A v \in Writers : WriterTyped(write'[v])
  BY <1>7, <1>8 DEF Typed
<1> QED BY <1>1, <1>3, <1>5, <1>6, <1>11, <1>12 DEF Typed
LEMMA WriteTypes ==
  ASSUME SpoolInv, Typed, NEW w \in Writers, Begin(w) \/ WriteStep(w)
  PROVE  Typed'
<1>0. /\ DOMAIN write = Writers
      /\ DOMAIN write[w] = {"pc", "key", "gross", "old", "victims"}
      /\ WriterTyped(write[w]) /\ total \in [Writers -> Int]
  BY NoneRead DEF SpoolInv, ReadInv, Typed
<1>1. CASE Begin(w)
  BY <1>1, BeginTypes
<1>2. CASE Lookup(w)
  <2>1. \A v \in Writers \ {w} : write'[v] = write[v]
    BY <1>0, <1>2 DEF Lookup
  <2>2. SizeOf(RowsOf(write[w].key)) \in Nat
    BY TableSized, SomeSized DEF RowsOf
  <2>3. \/ write'[w] = NoWrite
        \/ write'[w] = [write[w] EXCEPT !.pc = "check", !.old = SizeOf(RowsOf(write[w].key))]
    BY <1>0, <1>2 DEF Lookup
  <2>4. WriterTyped(write'[w]) /\ write[w].pc = "lookup"
    BY <1>0, <1>2, <2>2, <2>3, IdleTyped DEF WriterTyped, Lookup, At
  <2> QED BY <1>0, <1>2, <2>1, <2>4, WriterTypes DEF Lookup, Over
<1>3. CASE Check(w)
  <2>1. \A v \in Writers \ {w} : write'[v] = write[v]
    BY <1>0, <1>3 DEF Check, Go
  <2>2. \E pc \in {"upsert", "select"} : write'[w] = [write[w] EXCEPT !.pc = pc]
    BY <1>0, <1>3 DEF Check, Go
  <2>3. WriterTyped(write'[w]) /\ write[w].pc = "check"
    BY <1>0, <1>3, <2>2 DEF WriterTyped, Check, At
  <2> QED BY <1>0, <1>3, <2>1, <2>3, WriterTypes DEF Check, Over
<1>4. CASE Select(w)
  <2>1. \A v \in Writers \ {w} : write'[v] = write[v]
    BY <1>0, <1>4 DEF Select
  <2>2. \E pc \in {"upsert", "delete"} :
          write'[w] = [write[w] EXCEPT !.pc = pc, !.victims = Oldest(table, EvictBatch)]
    BY <1>0, <1>4 DEF Select
  <2>3. Sized(Oldest(table, EvictBatch))
    BY TableSized, SomeSized, OldestOf
  <2>4. WriterTyped(write'[w]) /\ write[w].pc = "select"
    BY <1>0, <1>4, <2>2, <2>3 DEF WriterTyped, Select, At
  <2> QED BY <1>0, <1>4, <2>1, <2>4, WriterTypes DEF Select, Over
<1>5. CASE Evict(w)
  <2>1. \A v \in Writers \ {w} : write'[v] = write[v]
    BY <1>0, <1>5 DEF Evict, Go
  <2>2. write'[w] = [write[w] EXCEPT !.pc = "freed"]
    BY <1>0, <1>5 DEF Evict, Go
  <2>3. WriterTyped(write'[w]) /\ write[w].pc = "delete"
    BY <1>0, <1>5, <2>2 DEF WriterTyped, Evict, At
  <2> QED BY <1>0, <1>5, <2>1, <2>3, WriterTypes DEF Evict, Without, Over
<1>6. CASE CountFreed(w)
  <2>1. \A v \in Writers \ {w} : write'[v] = write[v]
    BY <1>0, <1>6 DEF CountFreed
  <2>2. write'[w] = [write[w] EXCEPT !.pc = "check", !.victims = {}]
    BY <1>0, <1>6 DEF CountFreed
  <2>3. WriterTyped(write'[w]) /\ write[w].pc = "freed"
    BY <1>0, <1>6, <2>2, IdleTyped DEF WriterTyped, CountFreed, At
  <2>4. SizeOf(write[w].victims) \in Nat
    BY <1>0, SomeSized DEF WriterTyped
  <2>5. total' \in [Writers -> Int]
    BY <1>0, <1>6, <2>4 DEF CountFreed, AddBytes
  <2> QED BY <1>6, <2>1, <2>3, <2>5, WriterTypes DEF CountFreed, Over
<1>7. CASE Upsert(w)
  BY <1>7, UpsertTypes
<1>8. CASE CountWritten(w)
  <2>1. write'[w] = NoWrite /\ \A v \in Writers \ {w} : write'[v] = write[v]
    BY <1>0, <1>8 DEF CountWritten
  <2>2. delta(w) \in Int
    BY <1>0, WriterNumbers DEF delta
  <2>3. total' \in [Writers -> Int]
    BY <1>0, <1>8, <2>2 DEF CountWritten, AddBytes
  <2> QED BY <1>8, <2>1, <2>3, IdleTyped, WriterTypes DEF CountWritten, Over
<1>9. CASE Fail(w)
  <2>1. write'[w] = NoWrite /\ \A v \in Writers \ {w} : write'[v] = write[v]
    BY <1>0, <1>9 DEF Fail
  <2> QED BY <1>0, <1>9, <2>1, IdleTyped, WriterTypes DEF Fail, Over
<1> QED BY <1>1, <1>2, <1>3, <1>4, <1>5, <1>6, <1>7, <1>8, <1>9 DEF WriteStep

\* The sweep goes on, beside all writes.
LEMMA SweepTypes ==
  ASSUME Typed, table' \subseteq table, UNCHANGED sweepUnchanged, total' \in [Writers -> Int],
         sweep'.pc \in {"idle", "summed", "read", "offered", "deleted"},
         sweep'.sum \in Nat, Sized(sweep'.page)
  PROVE  Typed'
<1>1. Pending' = Pending /\ lastId' = lastId /\ write' = write /\ writes' = writes
  BY DEF Pending, sweepUnchanged
<1>2. IsFiniteSet(table') /\ Counted'
  BY <1>1, FS_Subset DEF Typed, Counted
<1> QED BY <1>1, <1>2 DEF Typed

LEMMA DaemonTypes ==
  ASSUME SpoolInv, Typed, Sweep \/ Restart
  PROVE  Typed'
<1>0. /\ DOMAIN sweep = {"pc", "sum", "past", "page"} /\ DOMAIN write = Writers
      /\ total \in [Writers -> Int] /\ Sized(table) /\ Bytes \in Nat
      /\ sweep.sum \in Nat /\ Sized(sweep.page)
      /\ NoSweep = [pc |-> "idle", sum |-> 0, past |-> 0, page |-> {}]
  BY NoneRead, TableSized, SomeSized DEF SpoolInv, ReadInv, Typed, Bytes, NoSweep
<1>1. CASE ResyncSum
  <2>1. sweep'.pc = "summed" /\ sweep'.sum = Bytes /\ sweep'.page = sweep.page
    BY <1>0, <1>1 DEF ResyncSum
  <2> QED BY <1>0, <1>1, <2>1, SweepTypes DEF ResyncSum
<1>2. CASE ResyncStore
  <2>1. sweep'.pc \in {"idle", "read"} /\ sweep'.sum = 0 /\ sweep'.page = {}
    BY <1>0, <1>2 DEF ResyncStore
  <2>2. total' \in [Writers -> Int]
    <3>1. total' = [total EXCEPT ![Worker] = sweep.sum]
      BY <1>2 DEF ResyncStore
    <3> QED BY <1>0, <3>1, NewTotal
  <2> QED BY <1>2, <2>1, <2>2, IdleTyped, SweepTypes DEF ResyncStore
<1>3. CASE DrainRead
  <2> DEFINE page == Oldest({r \in table : r.id > sweep.past}, DrainPage)
  <2>1. Sized(page)
    <3>1. page \subseteq table
      BY OldestOf
    <3> QED BY <1>0, <3>1, SomeSized
  <2>2. sweep' = IF page = {} THEN NoSweep
                 ELSE [sweep EXCEPT !.pc = "offered", !.page = page,
                                    !.past = Max({r.id : r \in page})]
    BY <1>3 DEF DrainRead
  <2> HIDE DEF page
  <2>3. sweep'.pc \in {"idle", "offered"} /\ sweep'.sum \in Nat /\ Sized(sweep'.page)
    BY <1>0, <2>1, <2>2, IdleTyped
  <2> QED BY <1>0, <1>3, <2>3, SweepTypes DEF DrainRead
<1>4. CASE DrainDelete
  <2>1. PICK taken \in SUBSET sweep.page :
          /\ table' = Without(taken)
          /\ sweep' = [sweep EXCEPT !.pc = IF taken = {} THEN "read" ELSE "deleted", !.page = taken]
    BY <1>4 DEF DrainDelete
  <2>2. sweep'.pc \in {"read", "deleted"} /\ sweep'.sum \in Nat /\ Sized(sweep'.page)
    BY <1>0, <2>1, SomeSized
  <2>3. table' \subseteq table
    BY <2>1 DEF Without
  <2> QED BY <1>0, <1>4, <2>2, <2>3, SweepTypes DEF DrainDelete
<1>5. CASE DrainCount
  <2>1. sweep'.pc = "read" /\ sweep'.sum \in Nat /\ sweep'.page = {}
    BY <1>0, <1>5 DEF DrainCount
  <2>2. SizeOf(sweep.page) \in Nat
    BY <1>0, SomeSized
  <2>3. total' \in [Writers -> Int]
    <3>1. total' = [total EXCEPT ![Worker] = @ + (-SizeOf(sweep.page))]
      BY <1>5 DEF DrainCount, AddBytes
    <3>2. -SizeOf(sweep.page) \in Int
      BY <2>2
    <3> QED BY <1>0, <3>1, <3>2, NewTotal
  <2> QED BY <1>5, <2>1, <2>3, IdleTyped, SweepTypes DEF DrainCount
<1>6. CASE Restart
  <2>1. /\ table' = table /\ lastId' = lastId /\ writes' = writes /\ sweep' = NoSweep
        /\ \A w \in Writers : write'[w] = write[w] \/ write'[w] = NoWrite
    BY <1>0, <1>6 DEF Restart
  <2>2. total' \in [Writers -> Int]
    <3>1. total' = [total EXCEPT ![Worker] = Bytes]
      BY <1>6 DEF Restart
    <3> QED BY <1>0, <3>1, NewTotal
  <2>3. \A w \in Writers : WriterTyped(write'[w])
    BY <2>1, IdleTyped DEF Typed
  <2>4. Pending' \subseteq Pending
    BY <2>1, IdleTyped DEF Pending, Over
  <2>5. Counted'
    <3>1. IsFiniteSet(Pending') /\ Cardinality(Pending') <= Cardinality(Pending)
          /\ Cardinality(Pending') \in Nat /\ Cardinality(Pending) \in Nat
      BY <2>4, FS_Subset, FS_CardinalityType DEF Typed, Counted
    <3> QED BY <2>1, <3>1, SizesAreNumbers DEF Typed, Counted
  <2> QED BY <1>0, <2>1, <2>2, <2>3, <2>5, IdleTyped DEF Typed
<1> QED BY <1>1, <1>2, <1>3, <1>4, <1>5, <1>6 DEF Sweep

LEMMA TypesGiveOK ==
  ASSUME SpoolInv, Typed PROVE SpoolTypeOK
<1>1. lastId \in 0 .. MaxWrites
  BY SizesAreNumbers, FS_CardinalityType DEF Typed, Counted
<1>2. \A r, s \in table : r.id = s.id \/ r.key = s.key => r = s
  BY DEF SpoolInv, RowsInv
<1> QED BY <1>1, <1>2 DEF Typed, SpoolTypeOK, WriterTyped

\* Types and ids, for the steps of other proofs.
LEMMA TypesInvariance == Spec => [](SpoolInv /\ Typed)
<1>1. Init => SpoolInv /\ Typed
  BY InitSpoolInv, InitTyped
<1>2. SpoolInv /\ Typed /\ [Next]_vars => (SpoolInv /\ Typed)'
  <2> SUFFICES ASSUME SpoolInv, Typed, [Next]_vars PROVE SpoolInv' /\ Typed'
    OBVIOUS
  <2>1. CASE UNCHANGED vars
    BY <2>1 DEF vars, SpoolInv, RowsInv, ReadInv, Typed, Counted, Pending
  <2> QED BY <2>1, WriteInv, DaemonInv, WriteTypes, DaemonTypes DEF Next
<1> QED BY <1>1, <1>2, PTL DEF Spec

\* The spool's types, with any drift of the totals: rows are one per key and per id,
\* and no more ids are given out than writes have begun.
THEOREM SpoolTypeCorrect == Spec => []SpoolTypeOK
<1>1. SpoolInv /\ Typed => SpoolTypeOK
  BY TypesGiveOK
<1> QED BY <1>1, TypesInvariance, PTL
-----------------------------------------------------------------------------
(* The daemon's total while nobody writes.                                  *)

Quiet == \A w \in Writers : At(w, "idle")

\* What the drain has deleted and not yet subtracted.
Uncounted == IF sweep.pc = "deleted" THEN SizeOf(sweep.page) ELSE 0

\* The resync has summed up the table as it is.
Fresh == sweep.pc = "summed" /\ sweep.sum = Bytes

\* The daemon's total is right, and what the sweep knows of the table is too.
Exact ==
  /\ total[Worker] = Bytes + Uncounted
  /\ sweep.pc = "summed" => sweep.sum = Bytes
  /\ sweep.pc = "offered" => sweep.page \subseteq table

\* While nobody writes, a resync makes the daemon's total right, and neither the
\* drain's deletes nor a restart make it wrong again (Resync, addBytes, Drain).
QuietRepairs ==
  [][Quiet /\ Quiet' => /\ ResyncSum => Fresh'
                        /\ Fresh => Fresh' \/ Exact'
                        /\ Exact => Exact']_vars

LEMMA QuietSteps ==
  ASSUME SpoolInv, [Next]_vars, Quiet, Quiet' PROVE Sweep \/ Restart \/ UNCHANGED vars
<1>1. ASSUME NEW w \in Writers, Begin(w) PROVE FALSE
  <2>1. write'[w].pc = "lookup"
    BY <1>1 DEF Begin, SpoolInv, ReadInv, NoWrite
  <2> QED BY <2>1 DEF Quiet, At
<1>2. ASSUME NEW w \in Writers, WriteStep(w) PROVE FALSE
  BY <1>2 DEF WriteStep, Lookup, Check, Select, Evict, CountFreed, Upsert, CountWritten, Fail,
              Quiet, At
<1> QED BY <1>1, <1>2 DEF Next

LEMMA SumNow == Typed => Bytes \in Nat /\ total \in [Writers -> Int] /\ Worker \in Writers
BY TableSized, SomeSized DEF Bytes, Typed, Writers

LEMMA ResyncQuiet ==
  ASSUME SpoolInv, Typed, ResyncSum \/ ResyncStore
  PROVE  /\ ResyncSum => Fresh'
         /\ Fresh => Fresh' \/ Exact'
         /\ Exact => Exact'
<1>1. Bytes' = Bytes
  BY DEF ResyncSum, ResyncStore, Bytes
<1>2. CASE ResyncSum
  <2>1. sweep'.pc = "summed" /\ sweep'.sum = Bytes /\ sweep.pc = "idle" /\ total' = total
    BY <1>2 DEF ResyncSum, SpoolInv, ReadInv, NoSweep
  <2> QED BY <1>1, <2>1 DEF Fresh, Exact, Uncounted
<1>3. CASE ResyncStore
  <2>1. sweep.pc = "summed" /\ sweep'.pc \in {"idle", "read"}
    BY <1>3 DEF ResyncStore, NoSweep
  <2>2. total'[Worker] = sweep.sum
    BY <1>3, SumNow DEF ResyncStore
  <2>3. sweep.sum = Bytes => Exact'
    BY <1>1, <2>1, <2>2, SumNow DEF Exact, Uncounted
  <2> QED BY <2>1, <2>3 DEF Fresh, Exact, ResyncSum
<1> QED BY <1>2, <1>3

\* The rows that were taken on are in the table still: what is deleted is what will
\* be subtracted.
LEMMA DrainQuiet ==
  ASSUME SpoolInv, Typed, Exact, DrainRead \/ DrainDelete \/ DrainCount
  PROVE  Exact'
<1>1. DOMAIN sweep = {"pc", "sum", "past", "page"}
  BY NoneRead DEF SpoolInv, ReadInv
<1>2. CASE DrainRead
  <2>1. Bytes' = Bytes /\ total' = total /\ table' = table /\ sweep.pc = "read"
    BY <1>2 DEF DrainRead, Bytes
  <2>2. \/ sweep'.pc = "idle"
        \/ sweep'.pc = "offered" /\ sweep'.page \subseteq table
    BY <1>1, <1>2, OldestOf DEF DrainRead, NoSweep
  <2> QED BY <2>1, <2>2 DEF Exact, Uncounted
<1>3. CASE DrainDelete
  <2>1. PICK taken \in SUBSET sweep.page :
          /\ table' = Without(taken)
          /\ sweep' = [sweep EXCEPT !.pc = IF taken = {} THEN "read" ELSE "deleted", !.page = taken]
    BY <1>3 DEF DrainDelete
  <2>2. taken \subseteq table /\ total' = total /\ sweep.pc = "offered"
    BY <1>3, <2>1 DEF DrainDelete, Exact
  <2>3. table' = table \ taken
    BY <2>1, <2>2 DEF Without, SpoolInv, RowsInv
  <2>4. IsFiniteSet(table) /\ \A r \in table : r.bytes \in Nat
    BY TableSized DEF Sized
  <2>5. Bytes = Bytes' + SizeOf(taken)
    BY <2>2, <2>3, <2>4, SizeSplit DEF Bytes
  <2>6. CASE taken = {}
    <3>1. Bytes' = Bytes /\ sweep'.pc = "read"
      BY <1>1, <2>1, <2>3, <2>6 DEF Bytes
    <3> QED BY <2>2, <3>1 DEF Exact, Uncounted
  <2>7. CASE taken # {}
    <3>1. sweep'.pc = "deleted" /\ sweep'.page = taken
      BY <1>1, <2>1, <2>7
    <3> QED BY <2>2, <2>5, <3>1, SumNow DEF Exact, Uncounted
  <2> QED BY <2>6, <2>7
<1>4. CASE DrainCount
  <2>1. Bytes' = Bytes /\ sweep.pc = "deleted" /\ sweep'.pc = "read"
    BY <1>1, <1>4 DEF DrainCount, Bytes
  <2>2. SizeOf(sweep.page) \in Nat
    BY SomeSized DEF Typed
  <2>3. total'[Worker] = total[Worker] - SizeOf(sweep.page)
    BY <1>4, <2>2, SumNow DEF DrainCount, AddBytes
  <2> QED BY <2>1, <2>2, <2>3, SumNow DEF Exact, Uncounted
<1> QED BY <1>2, <1>3, <1>4

\* Once the writes are over, the daemon's total comes right with the next resync and
\* stays right: all of the drift's repair that is not a matter of time.
THEOREM RepairedWhenQuiet == Spec => QuietRepairs
<1> DEFINE Repairs == Quiet /\ Quiet' => /\ ResyncSum => Fresh'
                                         /\ Fresh => Fresh' \/ Exact'
                                         /\ Exact => Exact'
<1>1. SpoolInv /\ Typed /\ [Next]_vars => [Repairs]_vars
  <2> SUFFICES ASSUME SpoolInv, Typed, Next, Quiet, Quiet'
               PROVE  (ResyncSum => Fresh') /\ (Fresh => Fresh' \/ Exact') /\ (Exact => Exact')
    OBVIOUS
  <2>1. CASE ResyncSum \/ ResyncStore
    BY <2>1, ResyncQuiet
  <2>2. CASE DrainRead \/ DrainDelete \/ DrainCount
    <3>1. ~Fresh /\ ~ResyncSum
      BY <2>2 DEF DrainRead, DrainDelete, DrainCount, Fresh, ResyncSum
    <3> QED BY <2>2, <3>1, DrainQuiet
  <2>3. CASE Restart
    <3>1. Bytes' = Bytes /\ total'[Worker] = Bytes /\ sweep'.pc = "idle"
      BY <2>3, SumNow DEF Restart, Bytes, NoSweep
    <3>2. Exact' /\ ~ResyncSum
      <4>1. Exact'
        BY <3>1, SumNow DEF Exact, Uncounted
      <4>2. ResyncSum => sweep'.pc = "summed"
        BY DEF ResyncSum, SpoolInv, ReadInv, NoSweep
      <4> QED BY <3>1, <4>1, <4>2
    <3> QED BY <3>2
  <2>4. CASE UNCHANGED vars
    <3>1. ~ResyncSum
      <4>1. ResyncSum => sweep.pc = "idle" /\ sweep'.pc = "summed"
        BY DEF ResyncSum, SpoolInv, ReadInv, NoSweep
      <4> QED BY <2>4, <4>1 DEF vars
    <3>2. (Fresh => Fresh') /\ (Exact => Exact')
      BY <2>4 DEF vars, Fresh, Exact, Uncounted, Bytes
    <3> QED BY <3>1, <3>2
  <2> QED BY <2>1, <2>2, <2>3, <2>4, QuietSteps DEF Sweep
<1> QED BY <1>1, TypesInvariance, PTL DEF Spec, QuietRepairs
-----------------------------------------------------------------------------
(* The table implements SpoolRows.                                          *)

\* Rows of two prompts are in the order of their ids, which are their own.
LEMMA ByIdOf ==
  ASSUME SpoolInv, NEW r \in table, NEW s \in table
  PROVE  /\ r.key \in Rows /\ s.key \in Rows
         /\ <<r.key, s.key>> \in ById <=> r.id < s.id
<1>1. r.key \in Rows /\ s.key \in Rows
  BY DEF Rows
<1>2. ASSUME <<r.key, s.key>> \in ById PROVE r.id < s.id
  <2>1. PICK t, u \in table : t.id < u.id /\ <<r.key, s.key>> = <<t.key, u.key>>
    BY <1>2 DEF ById
  <2>2. t = r /\ u = s
    BY <2>1 DEF SpoolInv, RowsInv
  <2> QED BY <2>1, <2>2
<1>3. ASSUME r.id < s.id PROVE <<r.key, s.key>> \in ById
  BY <1>1, <1>3 DEF ById
<1> QED BY <1>1, <1>2, <1>3

\* Any step that only takes rows away.
LEMMA RowsDeleted ==
  ASSUME SpoolInv, SpoolInv', table' \subseteq table
  PROVE  Contract!Next
<1> DEFINE gone == Rows \ Rows'
<1>1. Rows' \subseteq Rows
  BY DEF Rows
<1>2. ById' = ById \cap (Rows' \X Rows')
  <2>1. ASSUME NEW p \in ById' PROVE p \in ById \cap (Rows' \X Rows')
    <3>1. PICK r, s \in table' : r.id < s.id /\ p = <<r.key, s.key>>
      BY <2>1 DEF ById
    <3>2. p \in ById
      BY <3>1, ByIdOf
    <3>3. p \in Rows' \X Rows'
      BY <2>1 DEF ById
    <3> QED BY <3>2, <3>3
  <2>2. ASSUME NEW p \in ById, p \in Rows' \X Rows' PROVE p \in ById'
    <3>1. PICK r, s \in table : r.id < s.id /\ p = <<r.key, s.key>>
      BY <2>2 DEF ById
    <3>2. r.key \in Rows' /\ s.key \in Rows'
      BY <2>2, <3>1
    <3>3. PICK t \in table', u \in table' : t.key = r.key /\ u.key = s.key
      BY <3>2 DEF Rows
    <3>4. t = r /\ u = s
      BY <3>3 DEF SpoolInv, RowsInv
    <3> QED BY <2>2, <3>1, <3>3, <3>4 DEF ById
  <2> QED BY <2>1, <2>2
<1>3. Contract!Delete(gone)
  BY <1>1, <1>2 DEF Contract!Delete
<1> QED BY <1>3 DEF Contract!Next

\* An upsert adds the last row, or changes no row's place.
LEMMA RowUpserted ==
  ASSUME SpoolInv, SpoolInv', NEW w \in Writers, write[w].key \in Keys, Upsert(w)
  PROVE  Contract!Next
<1> DEFINE k == write[w].key
           old == RowsOf(k)
           id == IF old = {} THEN lastId + 1 ELSE (CHOOSE r \in old : TRUE).id
           new == [id |-> id, key |-> k, bytes |-> write[w].gross]
<1>1. table' = (table \ old) \cup {new}
  BY DEF Upsert
<1>2. new.id = id /\ new.key = k
  OBVIOUS
<1>3. old \subseteq table /\ \A r \in table : r \in old <=> r.key = k
  BY DEF RowsOf
<1>4. old # {} => \E o \in old : id = o.id
  OBVIOUS
<1>5. old = {} => id = lastId + 1
  OBVIOUS
<1> HIDE DEF new, id, k, old
<1>6. Rows' = Rows \cup {k}
  <2>1. Rows' = {r.key : r \in table'}
    BY DEF Rows
  <2> QED BY <1>1, <1>2, <1>3, <2>1 DEF Rows
<1>7. new \in table'
  BY <1>1
<1>8. CASE old = {}
  <2>1. k \notin Rows /\ table' = table \cup {new}
    BY <1>1, <1>3, <1>8 DEF Rows
  <2>2. \A r \in table : r.id \in Nat /\ r.id < new.id
    BY <1>2, <1>5, <1>8 DEF SpoolInv, RowsInv
  <2>3. ASSUME NEW p \in ById' PROVE p \in ById \cup Rows \X {k}
    <3>1. PICK r, s \in table' : r.id < s.id /\ p = <<r.key, s.key>>
      BY <2>3 DEF ById
    <3>2. new.id \in Nat
      BY <1>2, <1>5, <1>8 DEF SpoolInv, RowsInv
    <3>3. r \in table
      BY <2>1, <2>2, <3>1, <3>2
    <3>4. CASE s \in table
      BY <3>1, <3>3, <3>4, ByIdOf
    <3>5. CASE s = new
      BY <1>2, <3>1, <3>3, <3>5 DEF Rows
    <3> QED BY <2>1, <3>4, <3>5
  <2>4. ASSUME NEW p \in ById PROVE p \in ById'
    <3>1. PICK r, s \in table : r.id < s.id /\ p = <<r.key, s.key>>
      BY <2>4 DEF ById
    <3>2. r.key \in Rows' /\ s.key \in Rows'
      BY <1>6 DEF Rows
    <3> QED BY <2>1, <3>1, <3>2 DEF ById
  <2>5. ASSUME NEW p \in Rows \X {k} PROVE p \in ById'
    <3>1. PICK r \in table : p = <<r.key, k>>
      BY <2>5 DEF Rows
    <3>2. r.key \in Rows' /\ k \in Rows'
      BY <1>6 DEF Rows
    <3> QED BY <1>2, <1>7, <2>1, <2>2, <3>1, <3>2 DEF ById
  <2>6. ById' = ById \cup Rows \X {k}
    BY <2>3, <2>4, <2>5
  <2>7. Contract!Write(k)
    BY <1>6, <2>1, <2>6 DEF Contract!Write
  <2> QED BY <2>7 DEF Contract!Next, k
<1>9. CASE old # {}
  <2>1. PICK o \in old : id = o.id
    BY <1>4, <1>9
  <2>2. o \in table /\ o.key = k /\ k \in Rows /\ Rows' = Rows
    BY <1>3, <1>6, <2>1 DEF Rows
  <2>3. \A r \in table : \E s \in table' : s.key = r.key /\ s.id = r.id
    <3>1. \A r \in old : r.key = new.key /\ r.id = new.id
      BY <1>2, <1>3, <2>1, <2>2 DEF SpoolInv, RowsInv
    <3> QED BY <1>1, <1>7, <3>1
  <2>4. \A s \in table' : \E r \in table : s.key = r.key /\ s.id = r.id
    BY <1>1, <1>2, <2>1, <2>2
  <2>5. ById \subseteq ById'
    <3> SUFFICES ASSUME NEW p \in ById PROVE p \in ById'
      OBVIOUS
    <3>1. PICK r, s \in table : r.id < s.id /\ p = <<r.key, s.key>>
      BY DEF ById
    <3>2. PICK t, u \in table' : t.key = r.key /\ t.id = r.id /\ u.key = s.key /\ u.id = s.id
      BY <2>3
    <3>3. p \in Rows' \X Rows'
      BY <2>2 DEF ById
    <3> QED BY <3>1, <3>2, <3>3 DEF ById
  <2>6. ById' \subseteq ById
    <3> SUFFICES ASSUME NEW p \in ById' PROVE p \in ById
      OBVIOUS
    <3>1. PICK t, u \in table' : t.id < u.id /\ p = <<t.key, u.key>>
      BY DEF ById
    <3>2. PICK r, s \in table : t.key = r.key /\ t.id = r.id /\ u.key = s.key /\ u.id = s.id
      BY <2>4
    <3> QED BY <3>1, <3>2, ByIdOf
  <2>7. Contract!Write(k)
    BY <2>2, <2>5, <2>6 DEF Contract!Write
  <2> QED BY <2>7 DEF Contract!Next, k
<1> QED BY <1>8, <1>9

\* Statement by statement, among any writers, evictions, drains, failures and
\* restarts, the table does what SpoolRows says: one row per prompt, a new one
\* behind all others, none moved by an upsert or a delete (Write, Drain, evictFor).
THEOREM BudgetImplementsRows == Spec => SpoolSpec
<1>1. Init => Contract!Init
  BY DEF Init, Contract!Init, Rows, ById
<1>2. SpoolInv /\ SpoolInv' /\ SpoolTypeOK /\ [Next]_vars => [Contract!Next]_(Contract!rowVars)
  <2> SUFFICES ASSUME SpoolInv, SpoolInv', SpoolTypeOK, [Next]_vars PROVE [Contract!Next]_(Contract!rowVars)
    OBVIOUS
  <2>1. CASE \E w \in Writers : Upsert(w)
    <3>1. PICK w \in Writers : Upsert(w)
      BY <2>1
    <3>2. write[w].key \in Keys
      BY <3>1 DEF Upsert, At, SpoolTypeOK
    <3> QED BY <3>1, <3>2, RowUpserted
  <2>2. CASE table' \subseteq table
    BY <2>2, RowsDeleted
  <2>3. \A w \in Writers : Begin(w) \/ WriteStep(w) => Upsert(w) \/ table' \subseteq table
    BY DEF WriteStep, Begin, Lookup, Check, Select, Evict, Without, CountFreed, CountWritten, Fail
  <2>4. Sweep \/ Restart => table' \subseteq table
    BY DEF Sweep, ResyncSum, ResyncStore, DrainRead, DrainDelete, Without, DrainCount, Restart
  <2> QED BY <2>1, <2>2, <2>3, <2>4 DEF Next, vars
<1> QED BY <1>1, <1>2, SpoolInvariance, SpoolTypeCorrect, PTL DEF Spec, SpoolSpec, Contract!Spec

\* A pass of the drain, which reads on behind the last id it saw, meets a row that
\* stays exactly once: the rows are in one strict and total order.
THEOREM RowsInOneOrder == Spec => []Contract!OneOrder
<1>1. Contract!Init => Contract!OneOrder
  BY DEF Contract!Init, Contract!OneOrder
<1>2. Contract!OneOrder /\ [Contract!Next]_(Contract!rowVars) => Contract!OneOrder'
  <2> SUFFICES ASSUME Contract!OneOrder, [Contract!Next]_(Contract!rowVars) PROVE Contract!OneOrder'
    OBVIOUS
  <2>1. ASSUME NEW k \in Keys, Contract!Write(k) PROVE Contract!OneOrder'
    BY <2>1 DEF Contract!Write, Contract!OneOrder
  <2>2. ASSUME NEW gone \in SUBSET Rows, Contract!Delete(gone) PROVE Contract!OneOrder'
    BY <2>2 DEF Contract!Delete, Contract!OneOrder
  <2>3. CASE UNCHANGED Contract!rowVars
    BY <2>3 DEF Contract!rowVars, Contract!OneOrder
  <2> QED BY <2>1, <2>2, <2>3 DEF Contract!Next
<1> QED BY <1>1, <1>2, BudgetImplementsRows, PTL DEF SpoolSpec, Contract!Spec
=============================================================================
