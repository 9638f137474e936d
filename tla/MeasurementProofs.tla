-------------------------- MODULE MeasurementProofs --------------------------
(***************************************************************************)
(* Proofs about Measurement, for any workers, transactions, calls and      *)
(* ticks: the summary counts every call, the raw-samples file only grows,  *)
(* goes on to have the rows of the operations it has had, even when they   *)
(* were idle, and has no sample twice.                                     *)
(***************************************************************************)
EXTENDS Measurement, SumTheorems

(* A tick of the file, with the type TLC cannot enumerate. *)
Tick == [interval : 1..MaxTicks, rows : UNION {[ks -> Nat] : ks \in SUBSET Keys}]

(* TypeOK by its parts. *)
HistTyped == /\ count \in [Maps -> [Keys -> Nat]]
             /\ ops \in [Maps -> SUBSET Keys]
             /\ current \in 1..(MaxTicks + 1)

Counted == \A n \in Maps, k \in Keys : count[n][k] > 0 => k \in ops[n]

WorkersTyped == /\ pc \in [Workers -> {"idle", "lookup", "create", "record", "ended"}]
                /\ key \in [Workers -> Keys]
                /\ total \in [Workers -> BOOLEAN]
                /\ ref \in [Workers -> Maps]

TickerTyped == /\ tpc \in {"wait", "open", "rows", "ended"}
               /\ unread \subseteq Keys
               /\ writer \in BOOLEAN
               /\ file \in Seq(Tick)
               /\ tpc \in {"open", "rows"} => current > 1
               /\ tpc = "rows" => file # <<>>

MainTyped == /\ mpc \in {"wait", "stop", "done", "failed"}
             /\ cancelled \in BOOLEAN
             /\ calls \in [Keys -> Nat]
             /\ seen \in [Maps -> SUBSET Keys]
             /\ between \in [Maps -> SUBSET Keys]

(* What a worker holds is the histogram of the sum, or of an interval that is open *)
(* or was; the map has its key.  Later intervals have no keys.                     *)
RefInv == \A w \in Workers : pc[w] = "record" =>
             /\ ref[w] <= current
             /\ ref[w] = 0 <=> total[w]
             /\ key[w] \in ops[ref[w]]

LaterEmpty == \A n \in Maps : n > current => ops[n] = {}

TypeInv == /\ HistTyped /\ Counted /\ WorkersTyped /\ TickerTyped /\ MainTyped
           /\ RefInv /\ LaterEmpty

LEMMA ConstantTypes == /\ MaxTicks \in Nat /\ IsFiniteSet(Workers)
                       /\ Maps = 0..(MaxTicks + 1)
                       /\ \E k : k \in Keys
<1>1. PICK o : o \in Ops
  BY MeasurementAssumption DEF MeasurementAssumption
<1>2. <<o, "ok">> \in Keys
  BY <1>1 DEF Keys
<1>3. QED
  BY <1>2, MeasurementAssumption DEF MeasurementAssumption, Maps

LEMMA TwinIsKey == \A k \in Keys : Twin(k) \in Keys
  BY DEF Keys, Twin

LEMMA MapIsMap == ASSUME HistTyped, NEW w \in Workers
                  PROVE  MapOf(w) \in Maps /\ MapOf(w) <= current /\ (WorkersTyped => (MapOf(w) = 0 <=> total[w]))
  BY ConstantTypes DEF HistTyped, MapOf, WorkersTyped

LEMMA TypeInit == Init => TypeInv
<1> SUFFICES ASSUME Init  PROVE TypeInv
  OBVIOUS
<1>1. HistTyped /\ Counted
  BY ConstantTypes DEF Init, HistTyped, Counted
<1>2. (CHOOSE k \in Keys : TRUE) \in Keys /\ 0 \in Maps
  BY ConstantTypes
<1>3. WorkersTyped
  BY <1>2 DEF Init, WorkersTyped
<1>4. TickerTyped
  <2>1. tpc = "wait" /\ unread = {} /\ writer = FALSE /\ file = <<>>
    BY DEF Init
  <2>2. file \in Seq(Tick)
    BY <2>1
  <2>3. QED
    BY <2>1, <2>2 DEF TickerTyped
<1>5. MainTyped
  BY DEF Init, MainTyped
<1>6. RefInv /\ LaterEmpty
  BY DEF Init, RefInv, LaterEmpty
<1>7. QED
  BY <1>1, <1>3, <1>4, <1>5, <1>6 DEF TypeInv

LEMMA HistStep == TypeInv /\ [Next]_vars => HistTyped' /\ Counted' /\ RefInv' /\ LaterEmpty'
<1> SUFFICES ASSUME TypeInv, [Next]_vars  PROVE HistTyped' /\ Counted' /\ RefInv' /\ LaterEmpty'
  OBVIOUS
<1>0. HistTyped /\ Counted /\ RefInv /\ LaterEmpty /\ WorkersTyped
  BY DEF TypeInv
<1>1. ASSUME NEW w \in Workers, Measure(w) \/ LookupMiss(w) \/ WorkerEnds(w)
      PROVE  HistTyped' /\ Counted' /\ RefInv' /\ LaterEmpty'
  <2>1. UNCHANGED <<count, ops, current>>
    BY <1>1 DEF Measure, LookupMiss, WorkerEnds
  <2>2. RefInv'
    BY <1>0, <1>1 DEF Measure, LookupMiss, WorkerEnds, RefInv, WorkersTyped
  <2>3. QED
    BY <2>1, <2>2, <1>0 DEF HistTyped, Counted, LaterEmpty
<1>2. ASSUME NEW w \in Workers, LookupHit(w) \/ CreateHit(w)
      PROVE  HistTyped' /\ Counted' /\ RefInv' /\ LaterEmpty'
  <2>1. /\ UNCHANGED <<count, ops, current, key, total>> /\ key[w] \in ops[MapOf(w)]
        /\ ref' = [ref EXCEPT ![w] = MapOf(w)] /\ pc' = [pc EXCEPT ![w] = "record"]
    BY <1>2 DEF LookupHit, CreateHit, Found
  <2>2. RefInv'
    BY <2>1, <1>0, MapIsMap DEF RefInv, WorkersTyped
  <2>3. QED
    BY <2>1, <2>2, <1>0 DEF HistTyped, Counted, LaterEmpty
<1>3. ASSUME NEW w \in Workers, CreateNew(w)
      PROVE  HistTyped' /\ Counted' /\ RefInv' /\ LaterEmpty'
  <2> DEFINE n == MapOf(w)
             ks == {key[w], Twin(key[w])}
  <2>1. n \in Maps /\ n <= current /\ (n = 0 <=> total[w]) /\ ks \subseteq Keys /\ key[w] \in ks
    BY <1>0, MapIsMap, TwinIsKey DEF WorkersTyped
  <2>2. /\ count' = [count EXCEPT ![n][key[w]] = 0] /\ ops' = [ops EXCEPT ![n] = @ \cup ks]
        /\ ref' = [ref EXCEPT ![w] = n] /\ pc' = [pc EXCEPT ![w] = "record"]
        /\ UNCHANGED <<current, key, total>>
    BY <1>3 DEF CreateNew, PutNew
  <2> HIDE DEF n, ks
  <2>3. HistTyped'
    BY <2>1, <2>2, <1>0 DEF HistTyped, WorkersTyped
  <2>4. Counted'
    BY <2>1, <2>2, <1>0 DEF HistTyped, Counted, WorkersTyped
  <2>5. RefInv'
    BY <2>1, <2>2, <1>0 DEF HistTyped, RefInv, WorkersTyped
  <2>6. LaterEmpty'
    BY <2>1, <2>2, <1>0, ConstantTypes DEF HistTyped, LaterEmpty
  <2>7. QED
    BY <2>3, <2>4, <2>5, <2>6
<1>4. ASSUME NEW w \in Workers, Record(w)
      PROVE  HistTyped' /\ Counted' /\ RefInv' /\ LaterEmpty'
  <2>1. /\ count' = [count EXCEPT ![ref[w]][key[w]] = @ + 1]
        /\ pc' = [pc EXCEPT ![w] = IF total[w] THEN "idle" ELSE "lookup"]
        /\ total' = [total EXCEPT ![w] = TRUE] /\ UNCHANGED <<ops, current, key, ref>>
    BY <1>4 DEF Record
  <2>2. ref[w] \in Maps /\ key[w] \in Keys /\ key[w] \in ops[ref[w]]
    BY <1>0, <1>4 DEF Record, RefInv, WorkersTyped
  <2>3. HistTyped'
    BY <2>1, <2>2, <1>0 DEF HistTyped
  <2>4. Counted'
    BY <2>1, <2>2, <1>0 DEF HistTyped, Counted
  <2>5. RefInv'
    BY <2>1, <1>0 DEF RefInv, WorkersTyped
  <2>6. QED
    BY <2>1, <2>3, <2>4, <2>5, <1>0 DEF LaterEmpty
<1>5. CASE Take
  <2>1. /\ current <= MaxTicks /\ current' = current + 1
        /\ ops' = [ops EXCEPT ![current + 1] = ops[0]] /\ UNCHANGED <<count, pc, key, total, ref>>
    BY <1>5 DEF Take, Detach, worker
  <2>2. current + 1 \in Maps /\ current \in Nat /\ 0 \in Maps
    BY <2>1, <1>0, ConstantTypes DEF HistTyped
  <2>3. HistTyped'
    BY <2>1, <2>2, <1>0, ConstantTypes DEF HistTyped
  <2>4. \A k \in Keys : ~(count[current + 1][k] > 0)
    BY <2>2, <1>0 DEF HistTyped, Counted, LaterEmpty
  <2>5. Counted'
    BY <2>1, <2>2, <2>4, <1>0 DEF HistTyped, Counted
  <2>6. RefInv'
    BY <2>1, <2>2, <1>0, ConstantTypes DEF HistTyped, RefInv, WorkersTyped
  <2>7. LaterEmpty'
    BY <2>1, <2>2, <1>0, ConstantTypes DEF HistTyped, LaterEmpty
  <2>8. QED
    BY <2>3, <2>5, <2>6, <2>7
<1>6. CASE UNCHANGED <<count, ops, current, worker>>
  BY <1>0, <1>6 DEF HistTyped, Counted, RefInv, LaterEmpty, worker
<1>7. QED
  BY <1>1, <1>2, <1>3, <1>4, <1>5, <1>6
  DEF Next, Worker, Ticker, CreateFile, CreateFileFails, FileIsOpen, AddTick, AppendRow, TickDone,
      TickerEnds, Stop, Report, PrintSummary, ReturnError, Deadline, Finished, vars

LEMMA WorkersStep == TypeInv /\ [Next]_vars => WorkersTyped'
<1> SUFFICES ASSUME TypeInv, [Next]_vars  PROVE WorkersTyped'
  OBVIOUS
<1>0. WorkersTyped /\ HistTyped
  BY DEF TypeInv
<1>1. ASSUME NEW w \in Workers, Worker(w)  PROVE WorkersTyped'
  <2>1. CASE Measure(w) \/ LookupMiss(w) \/ WorkerEnds(w) \/ Record(w)
    <3>1. /\ key' \in [Workers -> Keys] /\ ref' \in [Workers -> Maps]
          /\ pc' \in [Workers -> {"idle", "lookup", "create", "record", "ended"}]
      BY <2>1, <1>0 DEF Measure, LookupMiss, WorkerEnds, Record, WorkersTyped
    <3>2. total' \in [Workers -> BOOLEAN]
      BY <2>1, <1>0 DEF Measure, LookupMiss, WorkerEnds, Record, WorkersTyped
    <3>3. QED
      BY <3>1, <3>2 DEF WorkersTyped
  <2>2. CASE LookupHit(w) \/ CreateHit(w) \/ CreateNew(w)
    <3>1. ref' = [ref EXCEPT ![w] = MapOf(w)] /\ pc' = [pc EXCEPT ![w] = "record"]
          /\ UNCHANGED <<key, total>>
      BY <2>2 DEF LookupHit, CreateHit, CreateNew, Found, PutNew
    <3>2. QED
      BY <3>1, <1>0, MapIsMap DEF WorkersTyped
  <2>3. QED
    BY <2>1, <2>2, <1>1 DEF Worker
<1>2. CASE UNCHANGED worker
  BY <1>0, <1>2 DEF WorkersTyped, worker
<1>3. QED
  BY <1>1, <1>2
  DEF Next, Ticker, Take, Detach, CreateFile, CreateFileFails, FileIsOpen, AddTick, AppendRow,
      TickDone, TickerEnds, Stop, Report, PrintSummary, ReturnError, Deadline, Finished, vars

(* A row is added to the last tick. *)
LEMMA RowAdded ==
  ASSUME TypeInv, NEW k \in Keys, AppendRow(k)
  PROVE  LET n == Len(file)
         IN /\ n \in DOMAIN file /\ file' \in Seq(Tick) /\ Len(file') = n
            /\ \A t \in DOMAIN file : t # n => file'[t] = file[t]
            /\ \A j \in DOMAIN file[n].rows :
                 j # k => j \in DOMAIN file'[n].rows /\ file'[n].rows[j] = file[n].rows[j]
            /\ DOMAIN file'[n].rows = DOMAIN file[n].rows \cup {k}
            /\ file'[n].rows[k] = count[current - 1][k]
<1> DEFINE n == Len(file)
           v == count[current - 1][k]
           tick == [file[n] EXCEPT !.rows = WithRow(@, k, v)]
<1>1. n \in 1..Len(file) /\ file \in Seq(Tick) /\ DOMAIN file = 1..Len(file)
  BY DEF TypeInv, TickerTyped, AppendRow
<1>2. file[n] \in Tick
  BY <1>1, ElementOfSeq
<1>3. v \in Nat
  BY ConstantTypes DEF TypeInv, HistTyped, TickerTyped, AppendRow
<1>4. PICK ks \in SUBSET Keys : file[n].rows \in [ks -> Nat]
  BY <1>2 DEF Tick
<1>5. WithRow(file[n].rows, k, v) \in [ks \cup {k} -> Nat]
  BY <1>3, <1>4 DEF WithRow
<1>6. tick \in Tick
  BY <1>2, <1>5 DEF Tick
<1>7. file' = [file EXCEPT ![n] = tick]
  BY DEF AppendRow
<1>8. \A j \in DOMAIN file[n].rows : j # k => /\ j \in DOMAIN tick.rows
                                             /\ tick.rows[j] = file[n].rows[j]
  BY <1>2, <1>4 DEF WithRow, Tick
<1>9. DOMAIN tick.rows = DOMAIN file[n].rows \cup {k} /\ tick.rows[k] = v
  BY <1>2 DEF WithRow, Tick
<1> HIDE DEF tick
<1>10. QED
  BY <1>1, <1>6, <1>7, <1>8, <1>9, ExceptSeq

LEMMA TickerStep == TypeInv /\ [Next]_vars => TickerTyped'
<1> SUFFICES ASSUME TypeInv, [Next]_vars  PROVE TickerTyped'
  OBVIOUS
<1>0. TickerTyped /\ HistTyped /\ MaxTicks \in Nat /\ current \in Nat
  BY ConstantTypes DEF TypeInv, HistTyped
<1>1. CASE Take
  BY <1>0, <1>1, ConstantTypes DEF Take, Detach, TickerTyped, HistTyped
<1>2. CASE CreateFile \/ FileIsOpen
  <2> DEFINE tick == [interval |-> current - 1, rows |-> <<>>]
  <2>1. current - 1 \in 1..MaxTicks
    BY <1>0, <1>2 DEF CreateFile, FileIsOpen, TickerTyped, HistTyped
  <2>2. <<>> \in [{} -> Nat] /\ {} \in SUBSET Keys
    OBVIOUS
  <2>3. tick \in Tick
    BY <2>1, <2>2 DEF Tick
  <2> HIDE DEF tick
  <2>4. PICK old \in Seq(Tick) : file' = Append(old, tick)
    <3>1. <<>> \in Seq(Tick) /\ file \in Seq(Tick)
      BY <1>0 DEF TickerTyped
    <3>2. CASE CreateFile
      BY <3>1, <3>2 DEF CreateFile, AddTick, tick
    <3>3. CASE FileIsOpen
      BY <3>1, <3>3 DEF FileIsOpen, AddTick, tick
    <3>4. QED
      BY <3>2, <3>3, <1>2
  <2>5. file' \in Seq(Tick) /\ file' # <<>>
    BY <2>3, <2>4, AppendProperties
  <2>6. writer' = TRUE /\ tpc' = "rows" /\ UNCHANGED <<unread, current>> /\ current > 1
    BY <1>0, <1>2 DEF CreateFile, FileIsOpen, AddTick, TickerTyped
  <2>7. QED
    BY <2>5, <2>6, <1>0 DEF TickerTyped
<1>3. ASSUME NEW k \in Keys, AppendRow(k)  PROVE TickerTyped'
  <2>1. file' \in Seq(Tick) /\ file' # <<>>
    <3>1. file' \in Seq(Tick) /\ Len(file') = Len(file) /\ Len(file) \in DOMAIN file
      BY <1>3, RowAdded
    <3>2. DOMAIN file = 1..Len(file)
      BY <1>0 DEF TickerTyped
    <3>3. QED
      BY <3>1, <3>2
  <2>2. unread' = unread \ {k} /\ UNCHANGED <<tpc, writer, current>>
    BY <1>3 DEF AppendRow
  <2>3. QED
    BY <2>1, <2>2, <1>0 DEF TickerTyped
<1>4. CASE CreateFileFails \/ TickDone \/ TickerEnds
  <2>1. /\ UNCHANGED <<current, writer, file>> /\ tpc' \in {"wait", "ended"}
        /\ unread' \in {{}, unread}
    BY <1>4 DEF CreateFileFails, TickDone, TickerEnds
  <2>2. QED
    BY <2>1, <1>0 DEF TickerTyped
<1>5. CASE Report
  <2>1. UNCHANGED <<tpc, unread, file, current>> /\ writer' = FALSE
    BY <1>5 DEF Report, PrintSummary
  <2>2. QED
    BY <2>1, <1>0 DEF TickerTyped
<1>6. CASE UNCHANGED <<ticker, current>>
  BY <1>0, <1>6 DEF TickerTyped, ticker
<1>7. QED
  BY <1>1, <1>2, <1>3, <1>4, <1>5, <1>6
  DEF Next, Worker, Ticker, Measure, LookupHit, LookupMiss, CreateHit, CreateNew, Found, PutNew,
      Record, WorkerEnds, Stop, ReturnError, Deadline, Finished, vars

LEMMA MainStep == TypeInv /\ [Next]_vars => MainTyped'
<1> SUFFICES ASSUME TypeInv, [Next]_vars  PROVE MainTyped'
  OBVIOUS
<1>0. MainTyped /\ HistTyped
  BY DEF TypeInv
<1>1. ASSUME NEW w \in Workers, Measure(w)  PROVE MainTyped'
  <2>1. PICK k \in Keys : calls' = [calls EXCEPT ![k] = @ + 1]
    BY <1>1 DEF Measure
  <2>2. UNCHANGED <<mpc, cancelled, seen, between>>
    BY <1>1 DEF Measure, main
  <2>3. QED
    BY <2>1, <2>2, <1>0 DEF MainTyped
<1>2. CASE Take
  <2>1. Returned \subseteq Keys /\ BetweenMaps \subseteq Keys
    BY DEF Returned, BetweenMaps
  <2>2. /\ UNCHANGED <<mpc, cancelled, calls>>
        /\ seen' = [seen EXCEPT ![current + 1] = Returned]
        /\ between' = [between EXCEPT ![current + 1] = BetweenMaps]
    BY <1>2 DEF Take, Detach, main
  <2>3. QED
    BY <2>1, <2>2, <1>0 DEF MainTyped
<1>3. CASE Stop \/ Report \/ ReturnError \/ Deadline
  <2>1. UNCHANGED <<calls, seen, between>> /\ mpc' \in {mpc, "stop", "done", "failed"}
        /\ cancelled' \in {cancelled, TRUE}
    BY <1>3 DEF Stop, Report, PrintSummary, ReturnError, Deadline
  <2>2. QED
    BY <2>1, <1>0 DEF MainTyped
<1>4. CASE UNCHANGED <<mpc, cancelled, calls, seen, between>>
  BY <1>0, <1>4 DEF MainTyped
<1>5. QED
  BY <1>1, <1>2, <1>3, <1>4
  DEF Next, Worker, Ticker, LookupHit, LookupMiss, CreateHit, CreateNew, Found, PutNew,
      Record, WorkerEnds, CreateFile, CreateFileFails, FileIsOpen, AddTick, AppendRow, TickDone,
      TickerEnds, Finished, main, vars

LEMMA TypeStep == TypeInv /\ [Next]_vars => TypeInv'
  BY HistStep, WorkersStep, TickerStep, MainStep DEF TypeInv

LEMMA TypeInvImpliesTypeOK == TypeInv => TypeOK
<1>1. ASSUME TypeInv, NEW t \in DOMAIN file  PROVE file[t].interval \in 1..MaxTicks
  <2>1. file \in Seq(Tick) /\ DOMAIN file = 1..Len(file)
    BY <1>1 DEF TypeInv, TickerTyped
  <2>2. file[t] \in Tick
    BY <2>1, <1>1, ElementOfSeq
  <2>3. QED
    BY <2>2 DEF Tick
<1>2. QED
  BY <1>1 DEF TypeInv, HistTyped, Counted, WorkersTyped, TickerTyped, MainTyped, TypeOK

-------------------------------------------------------------------------------

(* A worker joins those that have a sample pending, or leaves them. *)
LEMMA PendingIsFinite == \A k : IsFiniteSet(Pending(k)) /\ Cardinality(Pending(k)) \in Nat
<1>1. ASSUME NEW k  PROVE IsFiniteSet(Pending(k))
  BY ConstantTypes, FS_Subset DEF Pending
<1>2. QED
  BY <1>1, FS_CardinalityType

(* While workers run, each call is in the sum or pending; the summary is the sum, *)
(* which does not change once all workers have ended.                             *)
EndInv == /\ mpc # "wait" => \A w \in Workers : pc[w] = "ended"
          /\ mpc = "done" => summary = [k \in ops[0] |-> count[0][k]]

LEMMA SumStep == TypeInv /\ SumIsExact /\ [Next]_vars => SumIsExact'
<1> SUFFICES ASSUME TypeInv, SumIsExact, [Next]_vars  PROVE SumIsExact'
  OBVIOUS
<1>0. HistTyped /\ WorkersTyped /\ RefInv /\ Counted /\ calls \in [Keys -> Nat] /\ 0 \in Maps
  BY ConstantTypes DEF TypeInv, MainTyped
<1>b. ASSUME NEW w \in Workers, NEW l \in {"lookup", "create", "record"},
             pc' = [pc EXCEPT ![w] = l], pc[w] \in {"lookup", "create", "record"}, UNCHANGED key
      PROVE  \A k \in Keys : Pending(k)' = Pending(k)
  BY <1>0, <1>b DEF Pending, WorkersTyped
<1>1. ASSUME NEW w \in Workers, Measure(w)  PROVE SumIsExact'
  <2>1. PICK k \in Keys : key' = [key EXCEPT ![w] = k] /\ calls' = [calls EXCEPT ![k] = @ + 1]
    BY <1>1 DEF Measure
  <2>2. pc[w] = "idle" /\ pc' = [pc EXCEPT ![w] = "lookup"] /\ UNCHANGED count
    BY <1>1 DEF Measure
  <2>3. \A j \in Keys : w \notin Pending(j)
    BY <2>2 DEF Pending
  <2>4. Pending(k)' = Pending(k) \cup {w}
    BY <2>1, <2>2, <1>0 DEF Pending, WorkersTyped
  <2>5. Cardinality(Pending(k)') = Cardinality(Pending(k)) + 1
    BY <2>3, <2>4, PendingIsFinite, FS_AddElement
  <2>6. \A j \in Keys : j # k => Pending(j)' = Pending(j)
    BY <2>1, <2>2, <2>3, <1>0 DEF Pending, WorkersTyped
  <2>7. calls'[k] = count[0][k] + Cardinality(Pending(k)')
    BY <2>1, <2>5, <1>0, PendingIsFinite DEF SumIsExact, HistTyped
  <2>8. \A j \in Keys : j # k => calls'[j] = count[0][j] + Cardinality(Pending(j)')
    BY <2>1, <2>6, <1>0 DEF SumIsExact
  <2>9. QED
    BY <2>2, <2>7, <2>8 DEF SumIsExact
<1>2. ASSUME NEW w \in Workers, LookupHit(w) \/ LookupMiss(w) \/ CreateHit(w)  PROVE SumIsExact'
  <2>1. \A k \in Keys : Pending(k)' = Pending(k)
    BY <1>2, <1>b DEF LookupHit, LookupMiss, CreateHit, Found
  <2>2. UNCHANGED <<count, calls>>
    BY <1>2 DEF LookupHit, LookupMiss, CreateHit, Found
  <2>3. QED
    BY <2>1, <2>2 DEF SumIsExact
<1>3. ASSUME NEW w \in Workers, CreateNew(w)  PROVE SumIsExact'
  <2>1. \A k \in Keys : Pending(k)' = Pending(k)
    BY <1>3, <1>b DEF CreateNew, PutNew
  <2>2. /\ UNCHANGED calls /\ key[w] \notin ops[MapOf(w)]
        /\ count' = [count EXCEPT ![MapOf(w)][key[w]] = 0]
    BY <1>3 DEF CreateNew, PutNew
  <2>3. MapOf(w) \in Maps /\ key[w] \in Keys
    BY <1>0, MapIsMap DEF WorkersTyped
  <2>4. count[MapOf(w)][key[w]] = 0
    BY <2>2, <2>3, <1>0 DEF Counted, HistTyped
  <2>5. \A k \in Keys : count'[0][k] = count[0][k]
    BY <2>2, <2>3, <2>4, <1>0 DEF HistTyped
  <2>6. QED
    BY <2>1, <2>2, <2>5 DEF SumIsExact
<1>4. ASSUME NEW w \in Workers, Record(w)  PROVE SumIsExact'
  <2>1. /\ pc[w] = "record" /\ count' = [count EXCEPT ![ref[w]][key[w]] = @ + 1]
        /\ pc' = [pc EXCEPT ![w] = IF total[w] THEN "idle" ELSE "lookup"]
        /\ UNCHANGED <<key, calls>>
    BY <1>4 DEF Record
  <2>2. ref[w] \in Maps /\ key[w] \in Keys /\ (ref[w] = 0 <=> total[w])
    BY <2>1, <1>0 DEF RefInv, WorkersTyped
  <2>3. CASE total[w]
    <3> DEFINE k == key[w]
    <3>1. Pending(k)' = Pending(k) \ {w} /\ w \in Pending(k)
      BY <2>1, <2>3, <1>0 DEF Pending, WorkersTyped
    <3>2. Cardinality(Pending(k)') = Cardinality(Pending(k)) - 1
      BY <3>1, PendingIsFinite, FS_RemoveElement
    <3>3. \A j \in Keys : j # k => Pending(j)' = Pending(j)
      BY <2>1, <2>3, <1>0 DEF Pending, WorkersTyped
    <3>4. count'[0][k] = count[0][k] + 1 /\ \A j \in Keys : j # k => count'[0][j] = count[0][j]
      BY <2>1, <2>2, <2>3, <1>0 DEF HistTyped
    <3>5. calls[k] = count'[0][k] + Cardinality(Pending(k)')
      BY <3>2, <3>4, <2>2, <1>0, PendingIsFinite DEF SumIsExact, HistTyped
    <3>6. \A j \in Keys : j # k => calls[j] = count'[0][j] + Cardinality(Pending(j)')
      BY <3>3, <3>4 DEF SumIsExact
    <3>7. QED
      BY <3>5, <3>6, <2>1 DEF SumIsExact
  <2>4. CASE ~total[w]
    <3>1. \A k \in Keys : Pending(k)' = Pending(k)
      BY <2>1, <2>4, <1>b
    <3>2. \A k \in Keys : count'[0][k] = count[0][k]
      BY <2>1, <2>2, <2>4, <1>0 DEF HistTyped
    <3>3. QED
      BY <3>1, <3>2, <2>1 DEF SumIsExact
  <2>5. QED
    BY <2>3, <2>4
<1>5. ASSUME NEW w \in Workers, WorkerEnds(w)  PROVE SumIsExact'
  <2>1. \A k \in Keys : Pending(k)' = Pending(k)
    BY <1>5, <1>0 DEF WorkerEnds, Pending, WorkersTyped
  <2>2. QED
    BY <2>1, <1>5 DEF WorkerEnds, SumIsExact
<1>6. CASE UNCHANGED <<count, worker, calls>>
  BY <1>6 DEF SumIsExact, Pending, worker
<1>7. QED
  BY <1>1, <1>2, <1>3, <1>4, <1>5, <1>6
  DEF Next, Worker, Ticker, Take, Detach, CreateFile, CreateFileFails, FileIsOpen, AddTick,
      AppendRow, TickDone, TickerEnds, Stop, Report, PrintSummary, ReturnError, Deadline, Finished,
      vars

LEMMA EndStep == TypeInv /\ EndInv /\ [Next]_vars => EndInv'
<1> SUFFICES ASSUME TypeInv, EndInv, [Next]_vars  PROVE EndInv'
  OBVIOUS
<1>0. HistTyped /\ MaxTicks \in Nat /\ Maps = 0..(MaxTicks + 1)
  BY ConstantTypes DEF TypeInv
<1>1. ASSUME NEW w \in Workers, Worker(w)  PROVE EndInv'
  <2>1. pc[w] # "ended" /\ UNCHANGED mpc
    BY <1>1 DEF Worker, Measure, LookupHit, LookupMiss, CreateHit, CreateNew, Found, PutNew,
                Record, WorkerEnds, main
  <2>2. QED
    BY <2>1 DEF EndInv
<1>2. CASE Take
  <2>1. current + 1 # 0 /\ UNCHANGED <<pc, mpc, summary, count>>
        /\ ops' = [ops EXCEPT ![current + 1] = ops[0]]
    BY <1>0, <1>2 DEF Take, Detach, worker, main, HistTyped
  <2>2. ops'[0] = ops[0]
    BY <2>1, <1>0 DEF HistTyped
  <2>3. QED
    BY <2>1, <2>2 DEF EndInv
<1>3. CASE Stop
  BY <1>3 DEF Stop, WorkersEnded, EndInv, worker
<1>4. CASE Report
  BY <1>4 DEF Report, PrintSummary, EndInv, worker
<1>5. CASE ReturnError
  BY <1>5 DEF ReturnError, EndInv, worker
<1>6. CASE UNCHANGED <<count, ops, worker, mpc, summary>>
  BY <1>6 DEF EndInv, worker
<1>7. QED
  BY <1>1, <1>2, <1>3, <1>4, <1>5, <1>6
  DEF Next, Ticker, CreateFile, CreateFileFails, FileIsOpen, AddTick, AppendRow, TickDone,
      TickerEnds, Deadline, Finished, main, vars

(* The file is empty, or open, until the ticker's goroutine has ended. *)
WriterInv == file # <<>> => writer \/ tpc = "ended"

LEMMA WriterStep == TypeInv /\ WriterInv /\ [Next]_vars => WriterInv'
<1> SUFFICES ASSUME TypeInv, WriterInv, [Next]_vars  PROVE WriterInv'
  OBVIOUS
<1>1. CASE Ticker
  <2>1. CASE CreateFile \/ FileIsOpen
    BY <2>1 DEF CreateFile, FileIsOpen, AddTick, WriterInv
  <2>2. ASSUME NEW k \in Keys, AppendRow(k)  PROVE WriterInv'
    BY <2>2 DEF AppendRow, WriterInv, TypeInv, TickerTyped
  <2>3. CASE Take \/ CreateFileFails \/ TickDone \/ TickerEnds
    BY <2>3 DEF Take, Detach, CreateFileFails, TickDone, TickerEnds, WriterInv
  <2>4. QED
    BY <2>1, <2>2, <2>3, <1>1 DEF Ticker
<1>2. CASE Report
  BY <1>2 DEF Report, PrintSummary, WriterInv
<1>3. CASE UNCHANGED ticker
  BY <1>3 DEF ticker, WriterInv
<1>4. QED
  BY <1>1, <1>2, <1>3
  DEF Next, Worker, Measure, LookupHit, LookupMiss, CreateHit, CreateNew, Found, PutNew, Record,
      WorkerEnds, Stop, ReturnError, Deadline, Finished, vars

(* A key that is still unread has no row in the last tick. *)
UnreadInv == tpc = "rows" => DOMAIN file[Len(file)].rows \cap unread = {}

LEMMA UnreadStep == TypeInv /\ UnreadInv /\ [Next]_vars => UnreadInv'
<1> SUFFICES ASSUME TypeInv, UnreadInv, [Next]_vars  PROVE UnreadInv'
  OBVIOUS
<1>1. CASE CreateFile \/ FileIsOpen
  <2> DEFINE tick == [interval |-> current - 1, rows |-> <<>>]
  <2>1. file \in Seq(Tick) /\ DOMAIN tick.rows = {}
    BY DEF TypeInv, TickerTyped
  <2>2. file' \in {<<tick>>, Append(file, tick)}
    BY <1>1 DEF CreateFile, FileIsOpen, AddTick
  <2> HIDE DEF tick
  <2>3. file'[Len(file')] = tick
    BY <2>1, <2>2
  <2>4. QED
    BY <2>1, <2>3 DEF UnreadInv
<1>2. ASSUME NEW k \in Keys, AppendRow(k)  PROVE UnreadInv'
  <2>1. /\ Len(file') = Len(file)
        /\ DOMAIN file'[Len(file)].rows = DOMAIN file[Len(file)].rows \cup {k}
    BY <1>2, RowAdded
  <2>2. tpc = "rows" /\ unread' = unread \ {k}
    BY <1>2 DEF AppendRow
  <2>3. QED
    BY <2>1, <2>2 DEF UnreadInv
<1>3. CASE tpc' # "rows"
  BY <1>3 DEF UnreadInv
<1>4. CASE UNCHANGED <<tpc, unread, file>>
  BY <1>4 DEF UnreadInv
<1>5. QED
  BY <1>1, <1>2, <1>3, <1>4
  DEF Next, Worker, Measure, LookupHit, LookupMiss, CreateHit, CreateNew, Found, PutNew, Record,
      WorkerEnds, Ticker, Take, Detach, CreateFileFails, TickDone, TickerEnds, Stop, Report,
      PrintSummary, ReturnError, Deadline, Finished, ticker, vars

IInv == TypeInv /\ SumIsExact /\ EndInv /\ WriterInv /\ UnreadInv

LEMMA InvInit == Init => IInv
<1> SUFFICES ASSUME Init  PROVE IInv
  OBVIOUS
<1>1. \A k \in Keys : Pending(k) = {}
  BY DEF Init, Pending
<1>2. SumIsExact
  <2>1. \A k \in Keys : Cardinality(Pending(k)) = 0
    BY <1>1, FS_EmptySet
  <2>2. 0 \in Maps
    BY ConstantTypes
  <2>3. QED
    BY <2>1, <2>2 DEF Init, SumIsExact
<1>3. EndInv /\ WriterInv /\ UnreadInv
  BY DEF Init, EndInv, WriterInv, UnreadInv
<1>4. QED
  BY <1>2, <1>3, TypeInit DEF IInv

LEMMA Invariance == Spec => []IInv
<1>1. IInv /\ [Next]_vars => IInv'
  BY TypeStep, SumStep, EndStep, WriterStep, UnreadStep DEF IInv
<1>2. QED
  BY <1>1, InvInit, PTL DEF Spec

(* Types, and samples only under keys of their map. *)
THEOREM TypeCorrect == Spec => []TypeOK
<1>1. IInv => TypeOK
  BY TypeInvImpliesTypeOK DEF IInv
<1>2. QED
  BY <1>1, Invariance, PTL

(* Workers that create the same histogram at once lose no sample, and the summary  *)
(* counts every call (measure.go:110-118, misc.go:340-366).                        *)
THEOREM SummaryExact == Spec => []SummaryIsExact
<1>1. ASSUME IInv, mpc = "done", NEW k \in Keys
      PROVE  IF k \in DOMAIN summary THEN summary[k] = calls[k] ELSE calls[k] = 0
  <2>1. Pending(k) = {}
    BY <1>1 DEF IInv, EndInv, Pending
  <2>2. 0 \in Maps /\ count[0][k] \in Nat
    BY <1>1, ConstantTypes DEF IInv, TypeInv, HistTyped
  <2>3. calls[k] = count[0][k]
    <3>1. Cardinality(Pending(k)) = 0
      BY <2>1, FS_EmptySet
    <3>2. calls[k] = count[0][k] + Cardinality(Pending(k))
      BY <1>1 DEF IInv, SumIsExact
    <3>3. QED
      BY <3>1, <3>2, <2>2
  <2>4. summary = [j \in ops[0] |-> count[0][j]]
    BY <1>1 DEF IInv, EndInv
  <2>5. k \notin ops[0] => count[0][k] = 0
    BY <2>2, <1>1 DEF IInv, TypeInv, Counted
  <2>6. QED
    BY <2>3, <2>4, <2>5
<1>2. IInv => SummaryIsExact
  BY <1>1 DEF IInv, SummaryIsExact, SummaryIsComplete
<1>3. QED
  BY <1>2, Invariance, PTL

(* What FileOnlyGrows says of a step. *)
RowsKept == \A t \in DOMAIN file : \A k \in DOMAIN file[t].rows :
              /\ t \in DOMAIN file' /\ k \in DOMAIN file'[t].rows
              /\ file'[t].rows[k] = file[t].rows[k]

LEMMA StepKeepsRows == IInv /\ [Next]_vars => RowsKept
<1> SUFFICES ASSUME IInv, [Next]_vars  PROVE RowsKept
  OBVIOUS
<1>0. file \in Seq(Tick) /\ DOMAIN file = 1..Len(file)
  BY DEF IInv, TypeInv, TickerTyped
<1>1. CASE CreateFile
  <2>1. file = <<>>
    BY <1>1 DEF CreateFile, IInv, WriterInv
  <2>2. QED
    BY <2>1 DEF RowsKept
<1>2. CASE FileIsOpen
  <2>1. PICK tick : file' = Append(file, tick)
    BY <1>2 DEF FileIsOpen, AddTick
  <2>2. \A t \in DOMAIN file : t \in DOMAIN file' /\ file'[t] = file[t]
    BY <2>1, <1>0
  <2>3. QED
    BY <2>2 DEF RowsKept
<1>3. ASSUME NEW k \in Keys, AppendRow(k)  PROVE RowsKept
  <2> DEFINE n == Len(file)
  <2>1. /\ n \in DOMAIN file /\ file' \in Seq(Tick) /\ Len(file') = n
        /\ \A t \in DOMAIN file : t # n => file'[t] = file[t]
        /\ \A j \in DOMAIN file[n].rows :
             j # k => j \in DOMAIN file'[n].rows /\ file'[n].rows[j] = file[n].rows[j]
    BY <1>3, RowAdded DEF IInv
  <2>2. k \notin DOMAIN file[n].rows
    BY <1>3 DEF AppendRow, IInv, UnreadInv
  <2>3. DOMAIN file' = DOMAIN file
    BY <2>1, <1>0
  <2>4. QED
    BY <2>1, <2>2, <2>3 DEF RowsKept
<1>4. CASE UNCHANGED file
  BY <1>4 DEF RowsKept
<1>5. QED
  BY <1>1, <1>2, <1>3, <1>4
  DEF Next, Worker, Measure, LookupHit, LookupMiss, CreateHit, CreateNew, Found, PutNew, Record,
      WorkerEnds, Ticker, Take, Detach, CreateFileFails, TickDone, TickerEnds, Stop, Report,
      PrintSummary, ReturnError, Deadline, Finished, ticker, vars

(* No tick empties the raw-samples file, or changes a row of it, once it has rows  *)
(* (measure.go:252-296).                                                           *)
THEOREM FileKept == Spec => FileOnlyGrows
<1>1. IInv /\ [Next]_vars => [RowsKept]_vars
  BY StepKeepsRows
<1>2. Spec => [][RowsKept]_vars
  BY <1>1, Invariance, PTL DEF Spec
<1>3. QED
  BY <1>2 DEF FileOnlyGrows, RowsKept

-------------------------------------------------------------------------------
(* The keys of the maps, and what the ticks have of them. *)

(* A key is created with its twin; what returned before an interval has its key in it. *)
TwinsInv == \A n \in Maps : \A k \in ops[n] : Twin(k) \in ops[n]
SeenInv == \A n \in Maps : seen[n] \subseteq ops[n]

(* A key of an interval is the sum's too, but for calls between the maps; so it is  *)
(* in later intervals, but for those of which that was true when they opened.       *)
SumKeysInv == \A n \in Maps : ops[n] \subseteq ops[0] \cup BetweenMaps
LaterKeysInv == \A m, n \in Maps : 0 < m /\ m < n /\ n <= current => ops[m] \subseteq ops[n] \cup between[n]

(* The rows of a tick are the keys of its interval, the last with those to come. *)
TickInv == /\ tpc \in {"wait", "ended"} => unread = {}
           /\ tpc = "open" => unread = ops[current - 1]
           /\ tpc = "rows" => file[Len(file)].interval = current - 1
           /\ \A t \in DOMAIN file :
                 /\ file[t].interval < current
                 /\ DOMAIN file[t].rows \cup (IF Written(t) THEN {} ELSE unread)
                       = ops[file[t].interval]

(* Ticks are written in the order of their intervals. *)
OrderInv == /\ tpc = "open" => \A t \in DOMAIN file : file[t].interval < current - 1
            /\ \A t, u \in DOMAIN file : t < u => file[t].interval < file[u].interval

KeysInv == TwinsInv /\ SeenInv /\ SumKeysInv /\ LaterKeysInv /\ TickInv /\ OrderInv

LEMMA TwinOfTwin == \A k \in Keys : Twin(Twin(k)) = k
<1>1. ASSUME NEW o \in Ops, NEW s \in {"ok", "error"}  PROVE Twin(Twin(<<o, s>>)) = <<o, s>>
  BY DEF Twin
<1>2. ASSUME NEW k \in Keys  PROVE \E o \in Ops, s \in {"ok", "error"} : k = <<o, s>>
  BY DEF Keys
<1>3. QED
  BY <1>1, <1>2

(* Maps gain keys only while they are the sum's or the open interval's. *)
LEMMA OpsStep ==
  ASSUME TypeInv, [Next]_vars, NEW n \in Maps
  PROVE  /\ ops[n] \subseteq ops'[n]
         /\ 0 < n /\ n < current => ops'[n] = ops[n]
<1>0. HistTyped /\ LaterEmpty /\ current \in Nat
  BY DEF TypeInv, HistTyped
<1>1. CASE Take
  <2>1. current + 1 \in Maps /\ ops' = [ops EXCEPT ![current + 1] = ops[0]]
    BY <1>0, <1>1, ConstantTypes DEF Take, Detach, HistTyped
  <2>2. QED
    BY <2>1, <1>0, ConstantTypes DEF HistTyped, LaterEmpty
<1>2. ASSUME NEW w \in Workers, CreateNew(w)
      PROVE  ops[n] \subseteq ops'[n] /\ (0 < n /\ n < current => ops'[n] = ops[n])
  <2>1. MapOf(w) \in {0, current} /\ MapOf(w) \in Maps
    BY <1>0, MapIsMap DEF MapOf
  <2>2. ops' = [ops EXCEPT ![MapOf(w)] = @ \cup {key[w], Twin(key[w])}]
    BY <1>2 DEF CreateNew, PutNew
  <2>3. QED
    BY <2>1, <2>2, <1>0, ConstantTypes DEF HistTyped
<1>3. CASE UNCHANGED ops
  BY <1>3
<1>4. QED
  BY <1>1, <1>2, <1>3
  DEF Next, Worker, Measure, LookupHit, LookupMiss, CreateHit, Found, Record, WorkerEnds, Ticker,
      CreateFile, CreateFileFails, FileIsOpen, AddTick, AppendRow, TickDone, TickerEnds, Stop,
      Report, PrintSummary, ReturnError, Deadline, Finished, vars

LEMMA TwinsStep == TypeInv /\ TwinsInv /\ [Next]_vars => TwinsInv'
<1> SUFFICES ASSUME TypeInv, TwinsInv, [Next]_vars  PROVE TwinsInv'
  OBVIOUS
<1>0. HistTyped /\ WorkersTyped /\ 0 \in Maps
  BY ConstantTypes DEF TypeInv
<1>1. CASE Take
  BY <1>0, <1>1 DEF Take, Detach, TwinsInv, HistTyped
<1>2. ASSUME NEW w \in Workers, CreateNew(w)  PROVE TwinsInv'
  <2>1. MapOf(w) \in Maps /\ key[w] \in Keys /\ Twin(Twin(key[w])) = key[w]
    BY <1>0, MapIsMap, TwinOfTwin DEF WorkersTyped
  <2>2. ops' = [ops EXCEPT ![MapOf(w)] = @ \cup {key[w], Twin(key[w])}]
    BY <1>2 DEF CreateNew, PutNew
  <2>3. QED
    BY <2>1, <2>2, <1>0 DEF TwinsInv, HistTyped
<1>3. CASE UNCHANGED ops
  BY <1>3 DEF TwinsInv
<1>4. QED
  BY <1>1, <1>2, <1>3
  DEF Next, Worker, Measure, LookupHit, LookupMiss, CreateHit, Found, Record, WorkerEnds, Ticker,
      CreateFile, CreateFileFails, FileIsOpen, AddTick, AppendRow, TickDone, TickerEnds, Stop,
      Report, PrintSummary, ReturnError, Deadline, Finished, vars

(* A call that has returned has left a sample, or its twin has. *)
LEMMA ReturnedIsKnown ==
  ASSUME TypeInv, SumIsExact, TwinsInv  PROVE Returned \subseteq ops[0]
<1>1. ASSUME NEW k \in Keys, calls[k] > Cardinality(Pending(k))  PROVE k \in ops[0]
  <2>1. 0 \in Maps /\ count[0][k] \in Nat /\ Cardinality(Pending(k)) \in Nat
    BY ConstantTypes, PendingIsFinite DEF TypeInv, HistTyped
  <2>2. count[0][k] > 0
    BY <2>1, <1>1 DEF SumIsExact
  <2>3. QED
    BY <2>1, <2>2 DEF TypeInv, Counted
<1>2. \A k \in Keys : Twin(k) \in ops[0] => k \in ops[0]
  BY TwinOfTwin, ConstantTypes DEF TwinsInv
<1>3. QED
  BY <1>1, <1>2, TwinIsKey DEF Returned

LEMMA SeenStep == TypeInv /\ SumIsExact /\ TwinsInv /\ SeenInv /\ [Next]_vars => SeenInv'
<1> SUFFICES ASSUME TypeInv, SumIsExact, TwinsInv, SeenInv, [Next]_vars, NEW n \in Maps
             PROVE  seen'[n] \subseteq ops'[n]
  BY DEF SeenInv
<1>0. seen \in [Maps -> SUBSET Keys] /\ HistTyped
  BY DEF TypeInv, MainTyped
<1>1. CASE Take
  <2>1. seen' = [seen EXCEPT ![current + 1] = Returned] /\ ops' = [ops EXCEPT ![current + 1] = ops[0]]
    BY <1>1 DEF Take, Detach
  <2>2. Returned \subseteq ops[0] /\ seen[n] \subseteq ops[n]
    BY ReturnedIsKnown DEF SeenInv
  <2>3. QED
    BY <2>1, <2>2, <1>0 DEF HistTyped
<1>2. CASE UNCHANGED seen
  BY <1>2, OpsStep DEF SeenInv
<1>3. QED
  BY <1>1, <1>2
  DEF Next, Worker, Measure, LookupHit, LookupMiss, CreateHit, CreateNew, PutNew, Found, Record,
      WorkerEnds, Ticker, CreateFile, CreateFileFails, FileIsOpen, AddTick, AppendRow, TickDone,
      TickerEnds, Stop, Report, PrintSummary, ReturnError, Deadline, Finished, vars

(* A call leaves the place between the maps only with its keys in the sum's. *)
LEMMA BetweenStep ==
  ASSUME TypeInv, TwinsInv, TwinsInv', [Next]_vars, NEW k \in BetweenMaps
  PROVE  k \in BetweenMaps' \/ k \in ops'[0]
<1>0. HistTyped /\ WorkersTyped /\ RefInv /\ 0 \in Maps /\ k \in Keys
  BY ConstantTypes DEF TypeInv, BetweenMaps
<1>1. PICK w \in Workers : HasIntervalOnly(w) /\ key[w] \in {k, Twin(k)}
  BY DEF BetweenMaps
<1>2. Twin(Twin(k)) = k
  BY <1>0, TwinOfTwin
<1>3. CASE UNCHANGED <<pc[w], key[w], total[w]>>
  BY <1>0, <1>1, <1>3 DEF BetweenMaps, HasIntervalOnly
<1>4. CASE key'[w] = key[w] /\ key[w] \in ops'[0]
  BY <1>0, <1>1, <1>2, <1>4 DEF TwinsInv
<1>5. CASE HasIntervalOnly(w)' /\ key'[w] = key[w]
  BY <1>0, <1>1, <1>5 DEF BetweenMaps
<1>6. ASSUME NEW v \in Workers, Worker(v), v # w
      PROVE  UNCHANGED <<pc[w], key[w], total[w]>>
  BY <1>0, <1>6 DEF Worker, Measure, LookupHit, LookupMiss, CreateHit, CreateNew, PutNew, Found, Record,
                    WorkerEnds, WorkersTyped
<1>7. CASE Record(w) \/ LookupMiss(w)
  <2>1. pc'[w] \in {"lookup", "create"} /\ total'[w] /\ key' = key
    BY <1>0, <1>1, <1>7 DEF Record, LookupMiss, HasIntervalOnly, WorkersTyped
  <2>2. QED
    BY <1>5, <2>1 DEF HasIntervalOnly
<1>8. CASE LookupHit(w) \/ CreateHit(w)
  <2>1. total[w] /\ MapOf(w) = 0
    BY <1>1, <1>8 DEF LookupHit, CreateHit, HasIntervalOnly, MapOf
  <2>2. key[w] \in ops'[0] /\ key' = key
    BY <1>8, <2>1 DEF LookupHit, CreateHit, Found
  <2>3. QED
    BY <1>4, <2>2
<1>9. CASE CreateNew(w)
  <2>1. total[w] /\ MapOf(w) = 0
    BY <1>1, <1>9 DEF CreateNew, HasIntervalOnly, MapOf
  <2>2. ops' = [ops EXCEPT ![0] = @ \cup {key[w], Twin(key[w])}] /\ key' = key
    BY <1>9, <2>1 DEF CreateNew, PutNew
  <2>3. key[w] \in ops'[0]
    BY <1>0, <2>2 DEF HistTyped
  <2>4. QED
    BY <1>4, <2>2, <2>3
<1>10. ~Measure(w) /\ ~WorkerEnds(w)
  BY <1>1 DEF Measure, WorkerEnds, HasIntervalOnly
<1>11. CASE UNCHANGED worker
  BY <1>3, <1>11 DEF worker
<1>12. QED
  BY <1>3, <1>6, <1>7, <1>8, <1>9, <1>10, <1>11
  DEF Next, Worker, Ticker, Take, Detach, CreateFile, CreateFileFails, FileIsOpen, AddTick, AppendRow,
      TickDone, TickerEnds, Stop, Report, PrintSummary, ReturnError, Deadline, Finished, vars

LEMMA SumKeysStep == TypeInv /\ TwinsInv /\ TwinsInv' /\ SumKeysInv /\ [Next]_vars => SumKeysInv'
<1> SUFFICES ASSUME TypeInv, TwinsInv, TwinsInv', SumKeysInv, [Next]_vars, NEW n \in Maps, NEW k \in ops'[n]
             PROVE  k \in ops'[0] \cup BetweenMaps'
  BY DEF SumKeysInv
<1>0. HistTyped /\ WorkersTyped /\ 0 \in Maps
  BY ConstantTypes DEF TypeInv
<1>1. ASSUME k \in ops[n]  PROVE k \in ops'[0] \cup BetweenMaps'
  <2>1. k \in ops[0] \/ k \in BetweenMaps
    BY <1>1 DEF SumKeysInv
  <2>2. QED
    BY <1>0, <2>1, OpsStep, BetweenStep
<1>2. CASE Take
  <2>1. ops' = [ops EXCEPT ![current + 1] = ops[0]]
    BY <1>2 DEF Take, Detach
  <2>2. k \in ops[n] \/ k \in ops[0]
    BY <1>0, <2>1 DEF HistTyped
  <2>3. QED
    BY <1>0, <1>1, <2>2, OpsStep
<1>3. ASSUME NEW w \in Workers, CreateNew(w)  PROVE k \in ops'[0] \cup BetweenMaps'
  <2>1. /\ ops' = [ops EXCEPT ![MapOf(w)] = @ \cup {key[w], Twin(key[w])}]
        /\ pc' = [pc EXCEPT ![w] = "record"] /\ UNCHANGED <<key, total>>
    BY <1>3 DEF CreateNew, PutNew
  <2>2. key[w] \in Keys /\ Twin(key[w]) \in Keys /\ Twin(Twin(key[w])) = key[w]
    BY <1>0, TwinIsKey, TwinOfTwin DEF WorkersTyped
  <2>3. SUFFICES ASSUME k \notin ops[n]  PROVE k \in ops'[0] \cup BetweenMaps'
    BY <1>1
  <2>4. n = MapOf(w) /\ k \in {key[w], Twin(key[w])}
    BY <1>0, <2>1, <2>3 DEF HistTyped
  <2>5. CASE total[w]
    <3>1. n = 0
      BY <2>4, <2>5 DEF MapOf
    <3>2. QED
      BY <3>1
  <2>6. CASE ~total[w]
    <3>1. pc'[w] = "record" /\ ~total'[w] /\ key'[w] = key[w]
      BY <1>0, <2>1, <2>6 DEF WorkersTyped
    <3>2. HasIntervalOnly(w)' /\ key'[w] \in {k, Twin(k)} /\ k \in Keys
      BY <2>2, <2>4, <3>1 DEF HasIntervalOnly
    <3>3. QED
      BY <3>2 DEF BetweenMaps
  <2>7. QED
    BY <2>5, <2>6
<1>4. CASE UNCHANGED ops
  BY <1>1, <1>4
<1>5. QED
  BY <1>2, <1>3, <1>4
  DEF Next, Worker, Measure, LookupHit, LookupMiss, CreateHit, Found, Record, WorkerEnds, Ticker,
      CreateFile, CreateFileFails, FileIsOpen, AddTick, AppendRow, TickDone, TickerEnds, Stop,
      Report, PrintSummary, ReturnError, Deadline, Finished, vars

LEMMA LaterKeysStep == TypeInv /\ SumKeysInv /\ LaterKeysInv /\ [Next]_vars => LaterKeysInv'
<1> SUFFICES ASSUME TypeInv, SumKeysInv, LaterKeysInv, [Next]_vars,
                    NEW m \in Maps, NEW n \in Maps, 0 < m, m < n, n <= current'
             PROVE  ops'[m] \subseteq ops'[n] \cup between'[n]
  BY DEF LaterKeysInv
<1>0. /\ HistTyped /\ between \in [Maps -> SUBSET Keys]
      /\ m \in Int /\ n \in Int /\ current \in Int
  BY ConstantTypes DEF TypeInv, HistTyped, MainTyped
<1>1. ASSUME n <= current, between'[n] = between[n]
      PROVE  ops'[m] \subseteq ops'[n] \cup between'[n]
  <2>1. ops'[m] = ops[m] /\ ops[n] \subseteq ops'[n]
    BY <1>0, <1>1, OpsStep
  <2>2. ops[m] \subseteq ops[n] \cup between[n]
    BY <1>0, <1>1 DEF LaterKeysInv
  <2>3. QED
    BY <1>1, <2>1, <2>2
<1>2. CASE Take
  <2>1. /\ ops' = [ops EXCEPT ![current + 1] = ops[0]] /\ current' = current + 1
        /\ between' = [between EXCEPT ![current + 1] = BetweenMaps]
    BY <1>2 DEF Take, Detach
  <2>2. CASE n = current + 1
    <3>1. ops'[n] = ops[0] /\ between'[n] = BetweenMaps /\ ops'[m] = ops[m]
      BY <1>0, <2>1, <2>2 DEF HistTyped
    <3>2. QED
      BY <3>1 DEF SumKeysInv
  <2>3. CASE n # current + 1
    <3>1. n <= current /\ between'[n] = between[n]
      BY <1>0, <2>1, <2>3
    <3>2. QED
      BY <1>1, <3>1
  <2>4. QED
    BY <2>2, <2>3
<1>3. CASE UNCHANGED <<current, between>>
  BY <1>1, <1>3
<1>4. QED
  BY <1>2, <1>3
  DEF Next, Worker, Measure, LookupHit, LookupMiss, CreateHit, CreateNew, PutNew, Found, Record,
      WorkerEnds, Ticker, CreateFile, CreateFileFails, FileIsOpen, AddTick, AppendRow, TickDone,
      TickerEnds, Stop, Report, PrintSummary, ReturnError, Deadline, Finished, vars

(* Every tick of the file is one. *)
LEMMA TickIsTick ==
  ASSUME TypeInv, NEW t \in DOMAIN file
  PROVE  /\ file[t] \in Tick /\ t \in 1..Len(file) /\ Len(file) \in Nat
         /\ file[t].interval \in Maps /\ 0 < file[t].interval
<1>1. file \in Seq(Tick) /\ t \in 1..Len(file) /\ Len(file) \in Nat
  BY DEF TypeInv, TickerTyped
<1>2. file[t] \in Tick
  BY <1>1, ElementOfSeq
<1>3. QED
  BY <1>1, <1>2, ConstantTypes DEF Tick

LEMMA TickStep == IInv /\ TickInv /\ [Next]_vars => TickInv'
<1> SUFFICES ASSUME IInv, TickInv, [Next]_vars  PROVE TickInv'
  OBVIOUS
<1>0. /\ TypeInv /\ WriterInv /\ UnreadInv /\ HistTyped /\ TickerTyped
      /\ file \in Seq(Tick) /\ DOMAIN file = 1..Len(file) /\ Len(file) \in Nat
      /\ current \in Nat /\ MaxTicks \in Nat /\ Maps = 0..(MaxTicks + 1) /\ current \in Maps
  BY ConstantTypes DEF IInv, TypeInv, TickerTyped, HistTyped
<1>f. \A t \in DOMAIN file : ops'[file[t].interval] = ops[file[t].interval]
  BY <1>0, TickIsTick, OpsStep DEF TickInv
<1>1. CASE Take
  <2>1. /\ tpc = "wait" /\ tpc' = "open" /\ unread' = ops[current] /\ current' = current + 1
        /\ UNCHANGED <<file, writer>> /\ ops' = [ops EXCEPT ![current + 1] = ops[0]]
    BY <1>1 DEF Take, Detach
  <2>2. ops'[current] = ops[current]
    BY <2>1, <1>0
  <2>3. \A t \in DOMAIN file : Written(t) /\ Written(t)'
    BY <2>1 DEF Written
  <2>4. \A t \in DOMAIN file : /\ file[t].interval < current'
                              /\ DOMAIN file[t].rows = ops'[file[t].interval]
    <3>1. \A t \in DOMAIN file : file[t].interval \in Int
      BY <1>0, TickIsTick
    <3>2. \A t \in DOMAIN file : /\ file[t].interval < current
                                /\ DOMAIN file[t].rows = ops[file[t].interval]
      BY <2>3 DEF TickInv
    <3>3. \A i \in Int : i < current => i < current'
      BY <2>1, <1>0
    <3>4. QED
      BY <3>1, <3>2, <3>3, <1>f
  <2>5. current' - 1 = current
    BY <2>1, <1>0
  <2>6. QED
    BY <2>1, <2>2, <2>3, <2>4, <2>5 DEF TickInv
<1>2. CASE CreateFile \/ FileIsOpen
  <2> DEFINE tick == [interval |-> current - 1, rows |-> <<>>]
  <2>1. /\ tick.interval = current - 1 /\ DOMAIN tick.rows = {}
        /\ tpc = "open" /\ tpc' = "rows" /\ UNCHANGED <<unread, current, ops>>
    BY <1>2 DEF CreateFile, FileIsOpen, AddTick
  <2>2. file' = Append(file, tick)
    <3>1. CASE CreateFile
      <4>1. file = <<>>
        BY <3>1, <1>0 DEF CreateFile, WriterInv
      <4>2. file' = Append(<<>>, tick)
        BY <3>1 DEF CreateFile, AddTick
      <4>3. QED
        BY <4>1, <4>2
    <3>2. CASE FileIsOpen
      BY <3>2 DEF FileIsOpen, AddTick
    <3>3. QED
      BY <3>1, <3>2, <1>2
  <2> HIDE DEF tick
  <2>3. /\ Len(file') = Len(file) + 1 /\ file'[Len(file) + 1] = tick
        /\ \A t \in DOMAIN file : file'[t] = file[t]
        /\ DOMAIN file' = 1..(Len(file) + 1)
    BY <2>2, <1>0
  <2>4. ASSUME NEW t \in DOMAIN file'
        PROVE  /\ file'[t].interval < current'
               /\ DOMAIN file'[t].rows \cup (IF Written(t)' THEN {} ELSE unread')
                     = ops'[file'[t].interval]
    <3>1. CASE t = Len(file) + 1
      <4>1. ~Written(t)' /\ unread = ops[current - 1]
        BY <2>1, <2>3, <3>1, <1>0 DEF Written, TickInv
      <4>2. QED
        BY <2>1, <2>3, <3>1, <4>1, <1>0
    <3>2. CASE t \in 1..Len(file)
      <4>1. Written(t)' /\ Written(t) /\ t \in DOMAIN file
        BY <2>1, <2>3, <3>2, <1>0 DEF Written
      <4>2. QED
        BY <2>1, <2>3, <4>1, <1>0 DEF TickInv
    <3>3. QED
      BY <3>1, <3>2, <2>3, <1>0
  <2>5. file'[Len(file')].interval = current' - 1
    BY <2>1, <2>3
  <2>6. QED
    BY <2>1, <2>4, <2>5 DEF TickInv
<1>3. ASSUME NEW k \in Keys, AppendRow(k)  PROVE TickInv'
  <2> DEFINE n == Len(file)
  <2>1. /\ n \in DOMAIN file /\ Len(file') = n /\ file' \in Seq(Tick)
        /\ \A t \in DOMAIN file : t # n => file'[t] = file[t]
        /\ DOMAIN file'[n].rows = DOMAIN file[n].rows \cup {k}
    BY <1>0, <1>3, RowAdded
  <2>2. /\ tpc = "rows" /\ tpc' = "rows" /\ k \in unread /\ unread' = unread \ {k}
        /\ UNCHANGED <<current, ops>>
    BY <1>3 DEF AppendRow
  <2>3. file'[n].interval = file[n].interval /\ DOMAIN file' = DOMAIN file
    <3>1. /\ file' = [file EXCEPT ![n] = [file[n] EXCEPT !.rows = WithRow(@, k, count[current - 1][k])]]
          /\ file[n] \in Tick
      BY <1>0, <1>3, <2>1, TickIsTick DEF AppendRow
    <3>2. file'[n].interval = file[n].interval
      BY <2>1, <3>1 DEF Tick
    <3>3. QED
      BY <2>1, <3>2, <1>0
  <2>4. ASSUME NEW t \in DOMAIN file
        PROVE  /\ file'[t].interval < current
               /\ DOMAIN file'[t].rows \cup (IF Written(t)' THEN {} ELSE unread')
                     = ops[file'[t].interval]
    <3>1. Written(t)' <=> Written(t)
      BY <2>1, <2>2 DEF Written
    <3>2. CASE t = n
      <4>1. ~Written(t)
        BY <2>2, <3>2, <1>0 DEF Written
      <4>2. QED
        BY <2>1, <2>2, <2>3, <3>1, <3>2, <4>1 DEF TickInv
    <3>3. CASE t # n
      <4>1. t < n
        BY <3>3, <1>0
      <4>2. Written(t)
        BY <4>1 DEF Written
      <4>3. QED
        BY <2>1, <3>1, <3>3, <4>2 DEF TickInv
    <3>4. QED
      BY <3>2, <3>3
  <2>5. QED
    BY <2>1, <2>2, <2>3, <2>4 DEF TickInv
<1>4. CASE CreateFileFails
  <2>1. /\ tpc = "open" /\ tpc' = "wait" /\ unread' = {} /\ UNCHANGED <<file, current, ops>>
    BY <1>4 DEF CreateFileFails
  <2>2. \A t \in DOMAIN file : Written(t) /\ Written(t)'
    BY <2>1 DEF Written
  <2>3. QED
    BY <2>1, <2>2 DEF TickInv
<1>5. CASE TickDone
  <2>1. tpc' = "wait" /\ unread = {} /\ unread' = {} /\ UNCHANGED <<file, current, ops>>
    BY <1>5 DEF TickDone
  <2>2. QED
    BY <2>1 DEF TickInv
<1>6. CASE TickerEnds
  <2>1. /\ tpc = "wait" /\ tpc' = "ended" /\ UNCHANGED <<unread, file, current, ops>>
    BY <1>6 DEF TickerEnds
  <2>2. \A t \in DOMAIN file : Written(t) /\ Written(t)'
    BY <2>1 DEF Written
  <2>3. QED
    BY <2>1, <2>2 DEF TickInv
<1>7. CASE UNCHANGED <<tpc, unread, file, current>>
  <2>1. \A t \in DOMAIN file : Written(t)' <=> Written(t)
    BY <1>7 DEF Written
  <2>2. tpc = "open" => ops'[current - 1] = ops[current - 1]
    <3>1. tpc = "open" => current - 1 \in Maps /\ 0 < current - 1 /\ current - 1 < current
      BY <1>0 DEF TickerTyped
    <3>2. QED
      BY <3>1, <1>0, OpsStep
  <2>3. QED
    BY <1>7, <2>1, <2>2, <1>f DEF TickInv
<1>8. QED
  BY <1>1, <1>2, <1>3, <1>4, <1>5, <1>6, <1>7
  DEF Next, Worker, Measure, LookupHit, LookupMiss, CreateHit, CreateNew, PutNew, Found, Record,
      WorkerEnds, Ticker, Stop, Report, PrintSummary, ReturnError, Deadline, Finished, ticker, vars

LEMMA OrderStep == IInv /\ TickInv /\ OrderInv /\ [Next]_vars => OrderInv'
<1> SUFFICES ASSUME IInv, TickInv, OrderInv, [Next]_vars  PROVE OrderInv'
  OBVIOUS
<1>0. /\ TypeInv /\ WriterInv /\ UnreadInv
      /\ file \in Seq(Tick) /\ DOMAIN file = 1..Len(file) /\ Len(file) \in Nat
      /\ current \in Nat
  BY ConstantTypes DEF IInv, TypeInv, TickerTyped, HistTyped
<1>1. CASE Take
  <2>1. tpc' = "open" /\ current' = current + 1 /\ UNCHANGED file
    BY <1>1 DEF Take, Detach
  <2>2. current' - 1 = current
    BY <1>0, <2>1
  <2>3. \A t \in DOMAIN file : file[t].interval < current
    BY DEF TickInv
  <2>4. QED
    BY <2>1, <2>2, <2>3 DEF OrderInv
<1>2. CASE CreateFile \/ FileIsOpen
  <2> DEFINE tick == [interval |-> current - 1, rows |-> <<>>]
  <2>1. tick.interval = current - 1 /\ tpc = "open" /\ tpc' = "rows"
    BY <1>2 DEF CreateFile, FileIsOpen, AddTick
  <2>2. file' = Append(file, tick)
    <3>1. CASE CreateFile
      <4>1. file = <<>>
        BY <3>1, <1>0 DEF CreateFile, WriterInv
      <4>2. file' = Append(<<>>, tick)
        BY <3>1 DEF CreateFile, AddTick
      <4>3. QED
        BY <4>1, <4>2
    <3>2. CASE FileIsOpen
      BY <3>2 DEF FileIsOpen, AddTick
    <3>3. QED
      BY <3>1, <3>2, <1>2
  <2> HIDE DEF tick
  <2>3. /\ file'[Len(file) + 1] = tick /\ \A t \in DOMAIN file : file'[t] = file[t]
        /\ DOMAIN file' = 1..(Len(file) + 1)
    BY <2>2, <1>0
  <2>4. ASSUME NEW t \in DOMAIN file', NEW u \in DOMAIN file', t < u
        PROVE  file'[t].interval < file'[u].interval
    <3>1. t \in DOMAIN file /\ (u \in DOMAIN file \/ u = Len(file) + 1)
      BY <1>0, <2>3, <2>4
    <3>2. QED
      BY <2>1, <2>3, <2>4, <3>1 DEF OrderInv
  <2>5. QED
    BY <2>1, <2>4 DEF OrderInv
<1>3. ASSUME NEW k \in Keys, AppendRow(k)  PROVE OrderInv'
  <2> DEFINE n == Len(file)
  <2>1. /\ n \in DOMAIN file /\ Len(file') = n /\ file' \in Seq(Tick)
        /\ \A t \in DOMAIN file : t # n => file'[t] = file[t]
    BY <1>0, <1>3, RowAdded
  <2>2. /\ file' = [file EXCEPT ![n] = [file[n] EXCEPT !.rows = WithRow(@, k, count[current - 1][k])]]
        /\ file[n] \in Tick /\ tpc' = "rows"
    BY <1>0, <1>3, <2>1, TickIsTick DEF AppendRow
  <2>3. file'[n].interval = file[n].interval /\ DOMAIN file' = DOMAIN file
    BY <2>1, <2>2, <1>0 DEF Tick
  <2>4. \A t \in DOMAIN file : file'[t].interval = file[t].interval
    BY <2>1, <2>3
  <2>5. QED
    BY <2>2, <2>3, <2>4 DEF OrderInv
<1>4. CASE UNCHANGED <<file, current>> /\ (tpc' = "open" => tpc = "open")
  BY <1>4 DEF OrderInv
<1>5. QED
  BY <1>1, <1>2, <1>3, <1>4
  DEF Next, Worker, Measure, LookupHit, LookupMiss, CreateHit, CreateNew, PutNew, Found, Record,
      WorkerEnds, Ticker, CreateFileFails, TickDone, TickerEnds, Stop, Report, PrintSummary, ReturnError,
      Deadline, Finished, ticker, vars

LEMMA KeysInvImpliesSeries == TypeInv /\ KeysInv => RowsFromFirstTick
<1> SUFFICES ASSUME TypeInv, KeysInv, NEW t \in DOMAIN file, NEW u \in DOMAIN file, t < u, Written(u)
             PROVE  DOMAIN file[t].rows \subseteq DOMAIN file[u].rows \cup between[file[u].interval]
  BY DEF RowsFromFirstTick
<1> DEFINE m == file[t].interval
           n == file[u].interval
<1>1. m \in Maps /\ n \in Maps /\ 0 < m /\ m < n /\ n < current
  BY TickIsTick DEF KeysInv, TickInv, OrderInv
<1>2. DOMAIN file[t].rows \subseteq ops[m] /\ DOMAIN file[u].rows = ops[n]
  BY DEF KeysInv, TickInv
<1>3. n <= current
  BY <1>1, ConstantTypes DEF TypeInv, HistTyped
<1>4. ops[m] \subseteq ops[n] \cup between[n]
  <2> HIDE DEF m, n
  <2> QED
    BY <1>1, <1>3 DEF KeysInv, LaterKeysInv
<1>5. QED
  BY <1>2, <1>4

LEMMA KeysInvImpliesRows == TypeInv /\ KeysInv => ReturnedHaveRows
<1> SUFFICES ASSUME TypeInv, KeysInv, NEW t \in DOMAIN file, Written(t)
             PROVE  /\ seen[file[t].interval] \subseteq DOMAIN file[t].rows
                    /\ \A k \in DOMAIN file[t].rows : Twin(k) \in DOMAIN file[t].rows
  BY DEF ReturnedHaveRows
<1>1. DOMAIN file[t].rows = ops[file[t].interval] /\ file[t].interval \in Maps
  BY TickIsTick DEF KeysInv, TickInv
<1>2. QED
  BY <1>1 DEF KeysInv, TwinsInv, SeenInv

-------------------------------------------------------------------------------
(* The samples of the intervals, and what the file has of them. *)

Intervals == 1..(MaxTicks + 1)
Samples(k) == [n \in Maps |-> count[n][k]]

(* Calls that have recorded in no map yet. *)
Early(k) == {w \in Pending(k) : ~total[w]}

IntervalsExact == \A k \in Keys :
    calls[k] = SumFunctionOnSet(Samples(k), Intervals) + Cardinality(Early(k))

(* The ticks that report a key report the samples of different intervals. *)
Reporting(k) == {t \in DOMAIN file : k \in DOMAIN file[t].rows}
Rows(k) == [t \in Reporting(k) |-> file[t].rows[k]]
Reported(k) == 1..(IF k \in unread THEN current - 2 ELSE current - 1)

ReportedInv == \A k \in Keys :
    SumFunctionOnSet(Rows(k), Reporting(k)) <= SumFunctionOnSet(Samples(k), Reported(k))

LEMMA SamplesAreNumbers ==
  ASSUME TypeInv, NEW k \in Keys
  PROVE  /\ Intervals \subseteq Maps /\ IsFiniteSet(Intervals)
         /\ Reported(k) \in SUBSET Intervals /\ IsFiniteSet(Reported(k))
         /\ \A n \in Maps : Samples(k)[n] = count[n][k] /\ Samples(k)[n] \in Nat
         /\ IsFiniteSet(Early(k)) /\ Cardinality(Early(k)) \in Nat
<1>1. MaxTicks \in Nat /\ Maps = 0..(MaxTicks + 1) /\ current \in 1..(MaxTicks + 1)
  BY ConstantTypes DEF TypeInv, HistTyped
<1>2. Intervals \subseteq Maps /\ IsFiniteSet(Intervals)
  BY <1>1, FS_Interval DEF Intervals
<1>3. Reported(k) \in SUBSET Intervals
  BY <1>1 DEF Reported, Intervals
<1>4. IsFiniteSet(Reported(k))
  BY <1>2, <1>3, FS_Subset
<1>5. \A n \in Maps : Samples(k)[n] = count[n][k] /\ Samples(k)[n] \in Nat
  BY DEF Samples, TypeInv, HistTyped
<1>6. IsFiniteSet(Early(k)) /\ Cardinality(Early(k)) \in Nat
  BY PendingIsFinite, FS_Subset, FS_CardinalityType DEF Early
<1>7. QED
  BY <1>2, <1>3, <1>4, <1>5, <1>6

(* A new histogram takes the place of none with samples; else only Record counts. *)
LEMMA CreateCounts ==
  ASSUME TypeInv, NEW w \in Workers, CreateNew(w), NEW n \in Maps, NEW k \in Keys
  PROVE  count'[n][k] = count[n][k]
<1>1. /\ key[w] \notin ops[MapOf(w)] /\ count' = [count EXCEPT ![MapOf(w)][key[w]] = 0]
      /\ MapOf(w) \in Maps /\ key[w] \in Keys
  BY MapIsMap DEF CreateNew, PutNew, TypeInv, WorkersTyped
<1>2. count[MapOf(w)][key[w]] = 0
  BY <1>1 DEF TypeInv, Counted, HistTyped
<1>3. QED
  BY <1>1, <1>2 DEF TypeInv, HistTyped

LEMMA CountsGrow ==
  ASSUME TypeInv, [Next]_vars, NEW n \in Maps, NEW k \in Keys
  PROVE  count[n][k] \in Nat /\ count'[n][k] \in Nat /\ count[n][k] <= count'[n][k]
<1>0. count[n][k] \in Nat /\ count \in [Maps -> [Keys -> Nat]]
  BY DEF TypeInv, HistTyped
<1>1. ASSUME NEW w \in Workers, CreateNew(w)  PROVE count'[n][k] = count[n][k]
  BY <1>1, CreateCounts
<1>2. ASSUME NEW w \in Workers, Record(w)
      PROVE  count'[n][k] = count[n][k] \/ count'[n][k] = count[n][k] + 1
  <2>1. ref[w] \in Maps /\ key[w] \in Keys /\ count' = [count EXCEPT ![ref[w]][key[w]] = @ + 1]
    BY <1>2 DEF Record, TypeInv, WorkersTyped
  <2>2. QED
    BY <2>1, <1>0
<1>3. CASE UNCHANGED count
  BY <1>3, <1>0
<1>4. QED
  BY <1>0, <1>1, <1>2, <1>3
  DEF Next, Worker, Measure, LookupHit, LookupMiss, CreateHit, Found, WorkerEnds, Ticker, Take,
      Detach, CreateFile, CreateFileFails, FileIsOpen, AddTick, AppendRow, TickDone, TickerEnds,
      Stop, Report, PrintSummary, ReturnError, Deadline, Finished, vars

LEMMA IntervalsStep == TypeInv /\ IntervalsExact /\ [Next]_vars => IntervalsExact'
<1> SUFFICES ASSUME TypeInv, IntervalsExact, [Next]_vars, NEW k \in Keys
             PROVE  calls'[k] = SumFunctionOnSet(Samples(k)', Intervals) + Cardinality(Early(k)')
  BY DEF IntervalsExact, Intervals
<1> DEFINE sum == SumFunctionOnSet(Samples(k), Intervals)
           sum2 == SumFunctionOnSet(Samples(k)', Intervals)
<1>0. /\ HistTyped /\ WorkersTyped /\ RefInv /\ calls \in [Keys -> Nat]
      /\ calls[k] = sum + Cardinality(Early(k))
  BY DEF TypeInv, MainTyped, IntervalsExact
<1>f. /\ IsFiniteSet(Intervals) /\ Intervals \subseteq Maps
      /\ \A n \in Intervals : Samples(k)[n] = count[n][k] /\ Samples(k)[n] \in Int
      /\ IsFiniteSet(Early(k)) /\ Cardinality(Early(k)) \in Nat
  BY SamplesAreNumbers
<1>g. \A n \in Intervals : Samples(k)'[n] = count'[n][k]
  BY <1>f DEF Samples
<1>s. sum \in Int
  BY <1>f, SumType
<1>u. (\A n \in Intervals : count'[n][k] = count[n][k]) => sum2 = sum
  BY <1>f, <1>g, SumSame
<1> HIDE DEF sum, sum2
<1>b. ASSUME NEW w \in Workers, NEW l \in {"lookup", "create", "record"},
             pc' = [pc EXCEPT ![w] = l], pc[w] \in {"lookup", "create", "record"},
             UNCHANGED <<key, total>>
      PROVE  Early(k)' = Early(k)
  BY <1>0, <1>b DEF Early, Pending, WorkersTyped
<1>1. ASSUME NEW w \in Workers, Measure(w)  PROVE calls'[k] = sum2 + Cardinality(Early(k)')
  <2>1. PICK j \in Keys : key' = [key EXCEPT ![w] = j] /\ calls' = [calls EXCEPT ![j] = @ + 1]
    BY <1>1 DEF Measure
  <2>2. /\ pc[w] = "idle" /\ pc' = [pc EXCEPT ![w] = "lookup"] /\ UNCHANGED count
        /\ total' = [total EXCEPT ![w] = FALSE]
    BY <1>1 DEF Measure
  <2>3. w \notin Early(k) /\ sum2 = sum
    BY <2>2, <1>u DEF Early, Pending
  <2>4. CASE j = k
    <3>1. Early(k)' = Early(k) \cup {w}
      BY <2>1, <2>2, <2>4, <1>0 DEF Early, Pending, WorkersTyped
    <3>2. Cardinality(Early(k)') = Cardinality(Early(k)) + 1
      BY <2>3, <3>1, <1>f, FS_AddElement
    <3>3. calls'[k] = calls[k] + 1
      BY <2>1, <2>4, <1>0
    <3>4. QED
      BY <2>3, <3>2, <3>3, <1>0, <1>f, <1>s
  <2>5. CASE j # k
    <3>1. Early(k)' = Early(k)
      BY <2>1, <2>2, <2>3, <2>5, <1>0 DEF Early, Pending, WorkersTyped
    <3>2. calls'[k] = calls[k]
      BY <2>1, <2>5, <1>0
    <3>3. QED
      BY <2>3, <3>1, <3>2, <1>0
  <2>6. QED
    BY <2>4, <2>5
<1>2. ASSUME NEW w \in Workers, LookupHit(w) \/ LookupMiss(w) \/ CreateHit(w) \/ CreateNew(w)
      PROVE  calls'[k] = sum2 + Cardinality(Early(k)')
  <2>1. Early(k)' = Early(k)
    BY <1>2, <1>b DEF LookupHit, LookupMiss, CreateHit, CreateNew, Found, PutNew
  <2>2. \A n \in Intervals : count'[n][k] = count[n][k]
    BY <1>2, <1>f, CreateCounts DEF LookupHit, LookupMiss, CreateHit, Found
  <2>3. UNCHANGED calls
    BY <1>2 DEF LookupHit, LookupMiss, CreateHit, CreateNew, Found, PutNew
  <2>4. QED
    BY <2>1, <2>2, <2>3, <1>0, <1>u
<1>3. ASSUME NEW w \in Workers, Record(w)  PROVE calls'[k] = sum2 + Cardinality(Early(k)')
  <2>1. /\ pc[w] = "record" /\ count' = [count EXCEPT ![ref[w]][key[w]] = @ + 1]
        /\ pc' = [pc EXCEPT ![w] = IF total[w] THEN "idle" ELSE "lookup"]
        /\ total' = [total EXCEPT ![w] = TRUE] /\ UNCHANGED <<key, calls>>
    BY <1>3 DEF Record
  <2>2. ref[w] \in Maps /\ key[w] \in Keys /\ (ref[w] = 0 <=> total[w])
    BY <2>1, <1>0 DEF RefInv, WorkersTyped
  <2>3. CASE total[w] \/ key[w] # k
    <3>1. Early(k)' = Early(k)
      BY <2>1, <2>3, <1>0 DEF Early, Pending, WorkersTyped
    <3>2. \A n \in Intervals : count'[n][k] = count[n][k]
      BY <2>1, <2>2, <2>3, <1>0, <1>f, ConstantTypes DEF HistTyped, Intervals
    <3>3. QED
      BY <2>1, <3>1, <3>2, <1>0, <1>u
  <2>4. CASE ~total[w] /\ key[w] = k
    <3>1. Early(k)' = Early(k) \ {w} /\ w \in Early(k)
      BY <2>1, <2>4, <1>0 DEF Early, Pending, WorkersTyped
    <3>2. Cardinality(Early(k)') = Cardinality(Early(k)) - 1
      BY <3>1, <1>f, FS_RemoveElement
    <3>3. ref[w] \in Intervals
      BY <2>2, <2>4, ConstantTypes DEF Intervals
    <3>4. /\ count'[ref[w]][k] = count[ref[w]][k] + 1
          /\ \A n \in Intervals \ {ref[w]} : count'[n][k] = count[n][k]
      BY <2>1, <2>2, <2>4, <1>0, <1>f DEF HistTyped
    <3>5. /\ Samples(k)'[ref[w]] = Samples(k)[ref[w]] + 1
          /\ \A n \in Intervals \ {ref[w]} : Samples(k)'[n] = Samples(k)[n]
      BY <3>3, <3>4, <1>f, <1>g
    <3>6. Samples(k)[ref[w]] \in Int /\ Samples(k)'[ref[w]] \in Int
      BY <3>3, <3>5, <1>f
    <3>7. sum2 = (sum - Samples(k)[ref[w]]) + Samples(k)'[ref[w]]
      BY <3>3, <3>5, <3>6, <1>f, SumChanges DEF sum, sum2
    <3>8. QED
      BY <2>1, <3>2, <3>5, <3>6, <3>7, <1>0, <1>f, <1>s
  <2>5. QED
    BY <2>3, <2>4
<1>4. ASSUME NEW w \in Workers, WorkerEnds(w)  PROVE calls'[k] = sum2 + Cardinality(Early(k)')
  <2>1. Early(k)' = Early(k)
    BY <1>4, <1>0 DEF WorkerEnds, Early, Pending, WorkersTyped
  <2>2. UNCHANGED <<count, calls>>
    BY <1>4 DEF WorkerEnds
  <2>3. QED
    BY <2>1, <2>2, <1>0, <1>u
<1>5. CASE UNCHANGED <<count, worker, calls>>
  <2>1. Early(k)' = Early(k)
    BY <1>5 DEF worker, Early, Pending
  <2>2. calls' = calls /\ \A n \in Intervals : count'[n][k] = count[n][k]
    BY <1>5
  <2>3. QED
    BY <2>1, <2>2, <1>0, <1>u DEF sum2
<1>6. QED
  BY <1>1, <1>2, <1>3, <1>4, <1>5
  DEF sum2, Next, Worker, Ticker, Take, Detach, CreateFile, CreateFileFails, FileIsOpen, AddTick,
      AppendRow, TickDone, TickerEnds, Stop, Report, PrintSummary, ReturnError, Deadline, Finished,
      vars

LEMMA RowsAreNumbers ==
  ASSUME TypeInv, NEW k \in Keys
  PROVE  /\ IsFiniteSet(Reporting(k))
         /\ \A t \in Reporting(k) : Rows(k)[t] = file[t].rows[k] /\ Rows(k)[t] \in Nat
         /\ SumFunctionOnSet(Rows(k), Reporting(k)) \in Int
<1>1. file \in Seq(Tick) /\ DOMAIN file = 1..Len(file) /\ Len(file) \in Nat
  BY DEF TypeInv, TickerTyped
<1>2. IsFiniteSet(Reporting(k))
  <2>1. IsFiniteSet(DOMAIN file)
    BY <1>1, FS_Interval
  <2>2. QED
    BY <2>1, FS_Subset DEF Reporting
<1>3. ASSUME NEW t \in Reporting(k)  PROVE Rows(k)[t] = file[t].rows[k] /\ Rows(k)[t] \in Nat
  <2>1. file[t] \in Tick /\ k \in DOMAIN file[t].rows
    BY TickIsTick DEF Reporting
  <2>2. Rows(k)[t] = file[t].rows[k]
    BY DEF Rows
  <2>3. QED
    BY <2>1, <2>2 DEF Tick
<1>4. SumFunctionOnSet(Rows(k), Reporting(k)) \in Int
  BY <1>2, <1>3, SumType
<1>5. QED
  BY <1>2, <1>3, <1>4

LEMMA ReportedStep == IInv /\ TickInv /\ ReportedInv /\ [Next]_vars => ReportedInv'
<1> SUFFICES ASSUME IInv, TickInv, ReportedInv, [Next]_vars, NEW k \in Keys
             PROVE  SumFunctionOnSet(Rows(k)', Reporting(k)') <=
                        SumFunctionOnSet(Samples(k)', Reported(k)')
  BY DEF ReportedInv
<1> DEFINE rows == SumFunctionOnSet(Rows(k), Reporting(k))
           rows2 == SumFunctionOnSet(Rows(k)', Reporting(k)')
           samples(S) == SumFunctionOnSet(Samples(k), S)
           samples2(S) == SumFunctionOnSet(Samples(k)', S)
<1>0. /\ TypeInv /\ TypeInv' /\ HistTyped /\ TickerTyped /\ WriterInv /\ UnreadInv
      /\ file \in Seq(Tick) /\ DOMAIN file = 1..Len(file) /\ Len(file) \in Nat
      /\ current \in Nat /\ rows <= samples(Reported(k))
  BY TypeStep DEF IInv, TypeInv, TickerTyped, HistTyped, ReportedInv
<1>f. /\ Reported(k) \in SUBSET Intervals /\ IsFiniteSet(Intervals) /\ Intervals \subseteq Maps
      /\ \A n \in Maps : Samples(k)[n] = count[n][k] /\ Samples(k)[n] \in Nat
      /\ rows \in Int
  BY <1>0, SamplesAreNumbers, RowsAreNumbers
<1>g. \A n \in Maps : /\ Samples(k)'[n] = count'[n][k] /\ Samples(k)'[n] \in Nat
                      /\ Samples(k)[n] <= Samples(k)'[n]
  BY <1>0, <1>f, CountsGrow DEF Samples
<1>h. ASSUME NEW S \in SUBSET Intervals, NEW T \in SUBSET Intervals, S \subseteq T
      PROVE  samples(S) \in Int /\ samples2(T) \in Int /\ samples(S) <= samples2(T)
  <2>1. IsFiniteSet(S) /\ IsFiniteSet(T) /\ S \in SUBSET T
    BY <1>f, <1>h, FS_Subset
  <2>2. /\ \A n \in S : Samples(k)[n] \in Int /\ Samples(k)'[n] \in Int
                        /\ Samples(k)[n] <= Samples(k)'[n]
        /\ \A n \in T : Samples(k)'[n] \in Nat
    BY <1>f, <1>g, <1>h
  <2>3. samples(S) \in Int /\ samples2(S) \in Int /\ samples2(T) \in Int
    BY <2>1, <2>2, SumType
  <2>4. samples(S) <= samples2(S)
    BY <2>1, <2>2, SumBelow
  <2>5. samples2(S) <= samples2(T)
    BY <2>1, <2>2, SumGrows
  <2>6. QED
    BY <2>3, <2>4, <2>5
<1>i. Reported(k)' \in SUBSET Intervals
  <2>1. MaxTicks \in Nat /\ current' \in 1..(MaxTicks + 1)
    BY <1>0, ConstantTypes DEF TypeInv, HistTyped
  <2>2. Reported(k)' \in {1..(current' - 2), 1..(current' - 1)}
    BY DEF Reported
  <2>3. 1..(current' - 2) \subseteq Intervals /\ 1..(current' - 1) \subseteq Intervals
    <3>1. \A m, c \in Int : c \in 1..(m + 1) =>
              1..(c - 2) \subseteq 1..(m + 1) /\ 1..(c - 1) \subseteq 1..(m + 1)
      OBVIOUS
    <3>2. MaxTicks \in Int /\ current' \in Int /\ current' \in 1..(MaxTicks + 1)
      BY <2>1
    <3>3. /\ 1..(current' - 2) \subseteq 1..(MaxTicks + 1)
          /\ 1..(current' - 1) \subseteq 1..(MaxTicks + 1)
      BY <3>1, <3>2
    <3>4. QED
      BY <3>3 DEF Intervals
  <2>4. QED
    BY <2>2, <2>3
<1>j. ASSUME rows2 = rows, Reported(k) \subseteq Reported(k)'
      PROVE  rows2 <= samples2(Reported(k)')
  <2>1. /\ samples(Reported(k)) \in Int /\ samples2(Reported(k)') \in Int
        /\ samples(Reported(k)) <= samples2(Reported(k)')
    BY <1>f, <1>h, <1>i, <1>j
  <2> HIDE DEF rows, rows2, samples, samples2
  <2>2. QED
    BY <2>1, <1>0, <1>f, <1>j
<1>1. CASE UNCHANGED file /\ Reported(k) \subseteq Reported(k)'
  <2>1. rows2 = rows
    BY <1>1 DEF Rows, Reporting
  <2>2. QED
    BY <2>1, <1>1, <1>j
<1>2. CASE CreateFile \/ FileIsOpen
  <2>1. PICK tick : file' = Append(file, tick) /\ DOMAIN tick.rows = {}
    <3> DEFINE tick == [interval |-> current - 1, rows |-> <<>>]
    <3>1. DOMAIN tick.rows = {}
      OBVIOUS
    <3>2. file' = Append(file, tick)
      <4>1. CASE CreateFile
        <5>1. file = <<>> /\ file' = Append(<<>>, tick)
          BY <4>1, <1>0 DEF CreateFile, AddTick, WriterInv
        <5>2. QED
          BY <5>1
      <4>2. CASE FileIsOpen
        BY <4>2 DEF FileIsOpen, AddTick
      <4>3. QED
        BY <4>1, <4>2, <1>2
    <3>3. QED
      BY <3>1, <3>2
  <2>2. /\ DOMAIN file' = 1..(Len(file) + 1) /\ file'[Len(file) + 1] = tick
        /\ \A t \in DOMAIN file : file'[t] = file[t]
    BY <2>1, <1>0
  <2>3. Reporting(k)' = Reporting(k)
    BY <2>1, <2>2, <1>0 DEF Reporting
  <2>4. Rows(k)' = Rows(k)
    <3>1. \A t \in Reporting(k) : file'[t].rows[k] = file[t].rows[k]
      BY <2>2 DEF Reporting
    <3>2. QED
      BY <2>3, <3>1 DEF Rows
  <2>5. Reported(k)' = Reported(k)
    BY <1>2 DEF CreateFile, FileIsOpen, AddTick, Reported
  <2>6. QED
    BY <2>3, <2>4, <2>5, <1>j
<1>3. ASSUME NEW j \in Keys, AppendRow(j)  PROVE rows2 <= samples2(Reported(k)')
  <2> DEFINE n == Len(file)
  <2>1. /\ n \in DOMAIN file /\ DOMAIN file' = DOMAIN file
        /\ \A t \in DOMAIN file : t # n => file'[t] = file[t]
        /\ \A i \in DOMAIN file[n].rows :
              i # j => i \in DOMAIN file'[n].rows /\ file'[n].rows[i] = file[n].rows[i]
        /\ DOMAIN file'[n].rows = DOMAIN file[n].rows \cup {j}
        /\ file'[n].rows[j] = count[current - 1][j]
    <3>1. file' \in Seq(Tick) /\ Len(file') = n
      BY <1>0, <1>3, RowAdded
    <3>2. QED
      BY <1>0, <1>3, RowAdded, <3>1
  <2>2. /\ tpc = "rows" /\ j \in unread /\ unread' = unread \ {j} /\ current > 1
        /\ UNCHANGED <<current, count>> /\ j \notin DOMAIN file[n].rows
    BY <1>0, <1>3 DEF AppendRow, TickerTyped, UnreadInv
  <2>3. CASE j # k
    <3>1. Reporting(k)' = Reporting(k)
      BY <2>1, <2>3 DEF Reporting
    <3>2. \A t \in Reporting(k) : file'[t].rows[k] = file[t].rows[k]
      BY <2>1, <2>3 DEF Reporting
    <3>3. Rows(k)' = Rows(k)
      BY <3>1, <3>2 DEF Rows
    <3>4. Reported(k)' = Reported(k)
      BY <2>2, <2>3 DEF Reported
    <3>5. QED
      BY <3>1, <3>3, <3>4, <1>j
  <2>4. CASE j = k
    <3>1. Reporting(k)' = Reporting(k) \cup {n} /\ n \notin Reporting(k)
      BY <2>1, <2>2, <2>4 DEF Reporting
    <3>2. \A t \in Reporting(k) : Rows(k)'[t] = Rows(k)[t]
      BY <2>1, <2>2, <2>4, <3>1 DEF Rows, Reporting
    <3>3. Rows(k)'[n] = count[current - 1][k]
      BY <2>1, <2>4, <3>1 DEF Rows
    <3>4. /\ IsFiniteSet(Reporting(k)) /\ \A t \in Reporting(k) : Rows(k)[t] \in Int
          /\ current - 1 \in Maps /\ Samples(k)[current - 1] = count[current - 1][k]
          /\ Samples(k)[current - 1] \in Int
      <4>1. IsFiniteSet(Reporting(k)) /\ \A t \in Reporting(k) : Rows(k)[t] \in Nat
        BY <1>0, RowsAreNumbers
      <4>2. current - 1 \in Maps
        BY <1>0, <2>2, ConstantTypes DEF Maps, HistTyped
      <4>3. Samples(k)[current - 1] = count[current - 1][k] /\ Samples(k)[current - 1] \in Nat
        BY <1>f, <4>2
      <4>4. QED
        BY <4>1, <4>2, <4>3
    <3>5. \A t \in Reporting(k) \cup {n} : Rows(k)'[t] \in Int
      BY <3>2, <3>3, <3>4
    <3>6. SumFunctionOnSet(Rows(k)', Reporting(k) \cup {n}) =
              SumFunctionOnSet(Rows(k)', Reporting(k)) + Rows(k)'[n]
      BY <3>1, <3>4, <3>5, SumAdds
    <3>7. SumFunctionOnSet(Rows(k)', Reporting(k)) = rows
      BY <3>2, <3>4, SumSame
    <3>8. rows2 = rows + Samples(k)[current - 1]
      BY <3>1, <3>3, <3>4, <3>6, <3>7
    <3>9. Reported(k)' = Reported(k) \cup {current - 1} /\ current - 1 \notin Reported(k)
      BY <1>0, <2>2, <2>4 DEF Reported
    <3>10. samples(Reported(k) \cup {current - 1}) = samples(Reported(k)) + Samples(k)[current - 1]
      <4>1. /\ IsFiniteSet(Reported(k))
            /\ \A m \in Reported(k) \cup {current - 1} : Samples(k)[m] \in Int
        BY <1>0, <1>f, <3>4, FS_Subset
      <4>2. QED
        BY <3>9, <4>1, SumAdds
    <3>11. /\ samples(Reported(k)) \in Int /\ samples2(Reported(k)') \in Int
           /\ samples(Reported(k)') \in Int /\ samples(Reported(k)') <= samples2(Reported(k)')
      BY <1>f, <1>h, <1>i
    <3> HIDE DEF rows, rows2, samples, samples2
    <3>12. QED
      BY <3>4, <3>8, <3>9, <3>10, <3>11, <1>0, <1>f
  <2>5. QED
    BY <2>3, <2>4
<1>4. CASE Take
  <2>1. tpc = "wait" /\ unread = {} /\ current' = current + 1 /\ UNCHANGED file
    BY <1>4 DEF Take, Detach, TickInv
  <2>2. Reported(k) \subseteq Reported(k)'
    BY <2>1, <1>0 DEF Reported
  <2>3. QED
    BY <2>1, <2>2, <1>1
<1>5. CASE CreateFileFails
  <2>1. unread' = {} /\ UNCHANGED <<file, current>>
    BY <1>5 DEF CreateFileFails
  <2>2. Reported(k) \subseteq Reported(k)'
    BY <2>1, <1>0 DEF Reported
  <2>3. QED
    BY <2>1, <2>2, <1>1
<1>6. CASE UNCHANGED <<unread, file, current>>
  BY <1>6, <1>1 DEF Reported
<1>7. QED
  BY <1>2, <1>3, <1>4, <1>5, <1>6
  DEF Next, Worker, Measure, LookupHit, LookupMiss, CreateHit, CreateNew, PutNew, Found, Record,
      WorkerEnds, Ticker, TickDone, TickerEnds, Stop, Report, PrintSummary, ReturnError, Deadline,
      Finished, ticker, vars

LEMMA SumsImplyNoSampleTwice ==
  TypeInv /\ IntervalsExact /\ ReportedInv => NoSampleTwice
<1> SUFFICES ASSUME TypeInv, IntervalsExact, ReportedInv, NEW k \in Keys
             PROVE  SumFunction(Rows(k)) <= calls[k]
  BY DEF NoSampleTwice, Rows, Reporting
<1>1. SumFunction(Rows(k)) = SumFunctionOnSet(Rows(k), Reporting(k))
  BY DEF SumFunction, Rows
<1>2. /\ IsFiniteSet(Intervals) /\ Reported(k) \in SUBSET Intervals
      /\ \A n \in Intervals : Samples(k)[n] \in Nat
      /\ Cardinality(Early(k)) \in Nat /\ IsFiniteSet(Reported(k))
      /\ SumFunctionOnSet(Rows(k), Reporting(k)) \in Int
  BY SamplesAreNumbers, RowsAreNumbers
<1>3. SumFunctionOnSet(Samples(k), Reported(k)) <= SumFunctionOnSet(Samples(k), Intervals)
  BY <1>2, SumGrows
<1>4. /\ SumFunctionOnSet(Samples(k), Reported(k)) \in Int
      /\ SumFunctionOnSet(Samples(k), Intervals) \in Int
  BY <1>2, SumType
<1>5. QED
  BY <1>1, <1>2, <1>3, <1>4 DEF IntervalsExact, ReportedInv

SeriesInv == KeysInv /\ IntervalsExact /\ ReportedInv

LEMMA SeriesInit == Init => SeriesInv
<1> SUFFICES ASSUME Init  PROVE SeriesInv
  OBVIOUS
<1>1. KeysInv
  BY DEF Init, KeysInv, TwinsInv, SeenInv, SumKeysInv, LaterKeysInv, TickInv, OrderInv
<1>2. IntervalsExact
  <2>1. ASSUME NEW k \in Keys  PROVE SumFunctionOnSet(Samples(k), Intervals) = 0
    <3>1. /\ IsFiniteSet(Intervals) /\ 0 \in Int
          /\ \A n \in Intervals : Samples(k)[n] = 0
      BY SamplesAreNumbers, TypeInit DEF Init
    <3>2. SumFunctionOnSet(Samples(k), Intervals) = Cardinality(Intervals) * 0
      BY <3>1, SumConstant
    <3>3. Cardinality(Intervals) \in Nat
      BY <3>1, FS_CardinalityType
    <3>4. QED
      BY <3>2, <3>3
  <2>2. \A k \in Keys : Cardinality(Early(k)) = 0
    <3>1. \A k \in Keys : Early(k) = {}
      BY DEF Init, Early, Pending
    <3>2. QED
      BY <3>1, FS_EmptySet
  <2>3. QED
    BY <2>1, <2>2 DEF Init, IntervalsExact
<1>3. ReportedInv
  <2>1. ASSUME NEW k \in Keys
        PROVE  SumFunctionOnSet(Rows(k), Reporting(k)) <= SumFunctionOnSet(Samples(k), Reported(k))
    <3>1. Reporting(k) = {} /\ Reported(k) = {}
      BY DEF Init, Reporting, Reported
    <3>2. QED
      BY <3>1, SumEmpty
  <2>2. QED
    BY <2>1 DEF ReportedInv
<1>4. QED
  BY <1>1, <1>2, <1>3 DEF SeriesInv

(* Every operation has its rows in every tick from the first it appears in, and in *)
(* those after a call of it has returned, and no sample is reported in two ticks    *)
(* (measure.go:131-137, 216-218), with an exception for calls that are between the  *)
(* two maps when the interval opens (measure.go:122-123).                           *)
THEOREM SeriesComplete == Spec => []SeriesIsComplete
<1>1. IInv /\ KeysInv /\ [Next]_vars => KeysInv'
  BY TwinsStep, SeenStep, SumKeysStep, LaterKeysStep, TickStep, OrderStep DEF IInv, KeysInv
<1>2. IInv /\ SeriesInv /\ [Next]_vars => SeriesInv'
  BY <1>1, IntervalsStep, ReportedStep DEF IInv, SeriesInv, KeysInv
<1>3. IInv /\ SeriesInv => SeriesIsComplete
  BY KeysInvImpliesSeries, KeysInvImpliesRows, SumsImplyNoSampleTwice DEF IInv, SeriesInv, KeysInv, SeriesIsComplete
<1>4. QED
  BY <1>2, <1>3, SeriesInit, Invariance, PTL DEF Spec
=============================================================================
