------------------------- MODULE ConcurrentSinkProofs -------------------------
(***************************************************************************)
(* Proofs about ConcurrentSink, for any number of inner sinks and of rows  *)
(* and any batch size.  The inductive invariant says where a row is: the   *)
(* rows are taken out of the channel in order, and each row taken out is   *)
(* in exactly one place; and what writeWg.Wait() has waited for stays true *)
(* while the flush goroutines run.  An error needs no more: the order in   *)
(* which the consumers report and WriteRow returns is an invariant itself. *)
(***************************************************************************)
EXTENDS ConcurrentSink, FiniteSetTheorems, TLAPS

(* The consumers that writeWg counts. *)
Busy == {w \in Workers : wpc[w] \in {"write", "wgDone"}}

LEMMA BusyIsFinite == IsFiniteSet(Busy) /\ Cardinality(Busy) \in Nat
<1>1. IsFiniteSet(Busy)
  BY ConcurrentAssumption, FS_Subset DEF Busy, ConcurrentAssumption
<1>2. QED
  BY <1>1, FS_CardinalityType

(* A consumer that takes a row, or is done with it, changes the count by one. *)
LEMMA BusyEnter ==
  ASSUME NEW w \in Workers, wpc \in [Workers -> {"recv", "write", "wgDone", "report"}],
         wpc[w] = "recv", wpc' = [wpc EXCEPT ![w] = "write"]
  PROVE  Cardinality(Busy') = Cardinality(Busy) + 1
<1>1. Busy' = Busy \cup {w} /\ w \notin Busy
  BY DEF Busy
<1>2. QED
  BY <1>1, BusyIsFinite, FS_AddElement

LEMMA BusyLeave ==
  ASSUME NEW w \in Workers, wpc \in [Workers -> {"recv", "write", "wgDone", "report"}],
         wpc[w] = "wgDone", NEW next \in {"recv", "report"}, wpc' = [wpc EXCEPT ![w] = next]
  PROVE  Cardinality(Busy') = Cardinality(Busy) - 1
<1>1. Busy' = Busy \ {w} /\ w \in Busy
  BY DEF Busy
<1>2. QED
  BY <1>1, BusyIsFinite, FS_RemoveElement

(* TypeOK, with the set that the counter counts by its name. *)
Typed ==
  /\ pc \in {"idle", "send", "poll", "wait", "flush"}
  /\ sent \in 0..NRows
  /\ writeCh \in Seq(1..NRows)
  /\ resultCh \in 0..NRows
  /\ wpc \in [Workers -> {"recv", "write", "wgDone", "report"}]
  /\ row \in [Workers -> 0..NRows]
  /\ werr \in [Workers -> 0..NRows]
  /\ buf \in [Workers -> SUBSET (1..NRows)]
  /\ group \in [Workers -> {"none", "running", "ok", "error"}]
  /\ stored \subseteq 1..NRows
  /\ dropped \subseteq 1..NRows
  /\ told \in BOOLEAN
  /\ flushed \subseteq 1..NRows
  /\ failed \subseteq 1..NRows
  /\ reported \in Seq(1..NRows)
  /\ returned \in Seq([err : 1..NRows, upTo : Nat])

Capacity == Len(writeCh) <= Cardinality(Workers)

Counted == writeWg = Len(writeCh) + Cardinality(Busy) + (IF pc = "send" THEN 1 ELSE 0)

(* A row that is being sent has been counted in sent. *)
SentFirst == pc = "send" => sent > 0

(* A consumer that writes has a row. *)
RowTaken == \A w \in Workers : wpc[w] = "write" => row[w] \in 1..NRows

(* A consumer reports its error before it takes another row. *)
ErrorInv ==
  \A w \in Workers : /\ wpc[w] \in {"recv", "write"} => werr[w] = 0
                     /\ wpc[w] = "report" => werr[w] # 0

LEMMA TypesByName == TypeOK <=> Typed /\ Capacity /\ Counted
  BY DEF TypeOK, Typed, Capacity, Counted, Busy

LEMMA ConstantTypes == Cardinality(Workers) \in Nat /\ NRows \in Nat /\ MaxBatchRows \in Nat
  BY ConcurrentAssumption, FS_CardinalityType DEF ConcurrentAssumption

LEMMA TypedInit == Init => Typed /\ Capacity /\ Counted /\ SentFirst
<1> SUFFICES ASSUME Init  PROVE Typed /\ Capacity /\ Counted /\ SentFirst
  OBVIOUS
<1>1. Busy = {}
  BY DEF Busy, Init
<1>2. Cardinality(Busy) = 0
  BY <1>1, FS_EmptySet
<1>3. Counted
  BY <1>2 DEF Counted, Init
<1>4. Capacity
  BY ConstantTypes DEF Capacity, Init
<1>5. Typed
  <2>1. /\ sent \in 0..NRows /\ row \in [Workers -> 0..NRows]
        /\ werr \in [Workers -> 0..NRows] /\ resultCh \in 0..NRows
    BY ConstantTypes DEF Init
  <2>2. /\ writeCh \in Seq(1..NRows) /\ reported \in Seq(1..NRows)
        /\ returned \in Seq([err : 1..NRows, upTo : Nat])
    BY DEF Init
  <2>3. QED
    BY <2>1, <2>2 DEF Typed, Init
<1>6. QED
  BY <1>3, <1>4, <1>5 DEF SentFirst, Init

LEMMA TypedStep == Typed /\ SentFirst /\ RowTaken /\ ErrorInv /\ [Next]_vars => Typed'
<1> SUFFICES ASSUME Typed, SentFirst, RowTaken, ErrorInv, [Next]_vars  PROVE Typed'
  OBVIOUS
<1>0. NRows \in Nat
  BY ConstantTypes
<1>1. CASE WriteRow
  BY <1>0, <1>1 DEF WriteRow, Typed, channels, consumers, sinks
<1>2. CASE Send
  <2>1. sent \in 1..NRows
    BY <1>0, <1>2 DEF Send, SentFirst, Typed
  <2>2. QED
    BY <2>1, <1>2 DEF Send, Typed, consumers, sinks
<1>3. CASE Poll
  <2>1. returned' \in Seq([err : 1..NRows, upTo : Nat])
    <3>1. CASE resultCh = 0
      BY <3>1, <1>3 DEF Poll, Typed
    <3>2. CASE resultCh # 0
      <4>1. resultCh \in 1..NRows /\ Len(reported) \in Nat
        BY <3>2, <1>0 DEF Typed
      <4> DEFINE next == [err |-> resultCh, upTo |-> Len(reported)]
      <4>2. next \in [err : 1..NRows, upTo : Nat]
        BY <4>1
      <4>3. returned' = Append(returned, next) /\ returned \in Seq([err : 1..NRows, upTo : Nat])
        BY <3>2, <1>3 DEF Poll, Typed
      <4>4. QED
        BY <4>2, <4>3 DEF next
    <3>3. QED
      BY <3>1, <3>2
  <2>2. /\ told' = (told \/ resultCh # 0) /\ resultCh' = 0 /\ pc' = "idle"
        /\ UNCHANGED <<sent, writeCh, wpc, row, werr, buf, group, stored, dropped, flushed, failed, reported>>
    BY <1>3 DEF Poll, consumers, sinks
  <2>3. told' \in BOOLEAN /\ resultCh' \in 0..NRows
    BY <1>0, <2>2 DEF Typed
  <2>4. QED
    BY <2>1, <2>2, <2>3 DEF Typed
<1>4. CASE FlushBegin
  BY <1>4 DEF FlushBegin, Typed, channels, consumers, sinks
<1>5. CASE FlushSinks
  BY <1>5 DEF FlushSinks, Typed, channels, consumers, sinks
<1>6. CASE FlushEnd
  <2>1. 1..sent \subseteq 1..NRows
    BY <1>0 DEF Typed
  <2>2. told' \in BOOLEAN /\ flushed' \subseteq 1..NRows
    BY <2>1, <1>6 DEF FlushEnd, Typed
  <2>3. /\ group' = [w \in Workers |-> "none"] /\ pc' = "idle"
        /\ UNCHANGED <<sent, writeCh, resultCh, wpc, row, werr, buf, stored, dropped>>
        /\ UNCHANGED <<failed, reported, returned>>
    BY <1>6 DEF FlushEnd, channels, consumers, sinks
  <2>4. group' \in [Workers -> {"none", "running", "ok", "error"}]
    BY <2>3
  <2>5. QED
    BY <2>2, <2>3, <2>4 DEF Typed
<1>7. ASSUME NEW w \in Workers, Recv(w)  PROVE Typed'
  <2>1. Head(writeCh) \in 0..NRows /\ Tail(writeCh) \in Seq(1..NRows)
    BY <1>0, <1>7 DEF Recv, Typed
  <2>2. QED
    BY <2>1, <1>7 DEF Recv, Typed, loader, sinks
<1>8. ASSUME NEW w \in Workers, InnerWrite(w)  PROVE Typed'
  <2>1. row[w] \in 1..NRows
    BY <1>8 DEF RowTaken, InnerWrite
  <2> DEFINE batch == buf[w] \cup {row[w]}
  <2>2. batch \subseteq 1..NRows
    BY <2>1 DEF Typed
  <2> HIDE DEF batch
  <2>3. /\ buf' \in {[buf EXCEPT ![w] = batch], [buf EXCEPT ![w] = {}]}
        /\ \E err \in {0, row[w]} : werr' = [werr EXCEPT ![w] = err] /\ failed' \subseteq failed \cup {row[w]}
        /\ stored' \in {stored, stored \cup batch} /\ dropped' \in {dropped, dropped \cup batch}
        /\ wpc' = [wpc EXCEPT ![w] = "wgDone"]
        /\ UNCHANGED <<pc, sent, told, flushed, returned, writeCh, resultCh, row, reported, group>>
    BY <1>8 DEF InnerWrite, WriteBatch, Deliver, batch, loader, channels
  <2>4. buf' \in [Workers -> SUBSET (1..NRows)]
    BY <2>2, <2>3 DEF Typed
  <2>7. werr' \in [Workers -> 0..NRows] /\ failed' \subseteq 1..NRows
    BY <2>1, <2>3, <1>0 DEF Typed
  <2>5. stored' \subseteq 1..NRows /\ dropped' \subseteq 1..NRows
    BY <2>2, <2>3 DEF Typed
  <2>6. QED
    BY <2>3, <2>4, <2>5, <2>7 DEF Typed
<1>9. ASSUME NEW w \in Workers, WgDone(w)  PROVE Typed'
  BY <1>0, <1>9 DEF WgDone, Typed, loader, channels, sinks
<1>10. ASSUME NEW w \in Workers, Report(w)  PROVE Typed'
  <2>1. werr[w] \in 1..NRows
    BY <1>0, <1>10 DEF Report, ErrorInv, Typed
  <2>2. reported' \in Seq(1..NRows)
    BY <2>1, <1>10 DEF Report, Typed
  <2>3. resultCh' \in 0..NRows /\ werr' \in [Workers -> 0..NRows]
    BY <2>1, <1>0, <1>10 DEF Report, Typed
  <2>4. QED
    BY <2>2, <2>3, <1>10 DEF Report, Typed, loader, sinks
<1>11. ASSUME NEW w \in Workers, GroupFlush(w)  PROVE Typed'
  BY <1>11 DEF GroupFlush, Deliver, Typed, loader, channels, consumers, sinks
<1>12. CASE UNCHANGED vars
  BY <1>12 DEF vars, Typed
<1>13. QED
  BY <1>1, <1>2, <1>3, <1>4, <1>5, <1>6, <1>7, <1>8, <1>9, <1>10, <1>11, <1>12
  DEF Next, Loader, Consumer, Finished

LEMMA CountedStep == Typed /\ Capacity /\ Counted /\ [Next]_vars => Capacity' /\ Counted'
<1> SUFFICES ASSUME Typed, Capacity, Counted, [Next]_vars  PROVE Capacity' /\ Counted'
  OBVIOUS
<1>0. /\ Cardinality(Workers) \in Nat /\ Cardinality(Busy) \in Nat /\ Len(writeCh) \in Nat
      /\ writeWg \in Nat
  BY ConstantTypes, BusyIsFinite DEF Typed, Counted
<1>b. UNCHANGED wpc => Cardinality(Busy') = Cardinality(Busy)
  BY DEF Busy
<1>1. CASE WriteRow
  BY <1>0, <1>b, <1>1 DEF WriteRow, Capacity, Counted, channels, consumers
<1>2. CASE Send
  <2>1. Len(writeCh') = Len(writeCh) + 1
    BY <1>2 DEF Send, Typed
  <2>2. QED
    BY <2>1, <1>0, <1>b, <1>2 DEF Send, Capacity, Counted, consumers
<1>3. CASE Poll \/ FlushBegin \/ FlushSinks \/ FlushEnd \/ UNCHANGED vars
  BY <1>b, <1>3 DEF Poll, FlushBegin, FlushSinks, FlushEnd, Capacity, Counted, channels, consumers, vars
<1>4. ASSUME NEW w \in Workers, Recv(w)  PROVE Capacity' /\ Counted'
  <2>1. Len(writeCh') = Len(writeCh) - 1
    BY <1>4 DEF Recv, Typed
  <2>2. Cardinality(Busy') = Cardinality(Busy) + 1
    BY <1>4, BusyEnter DEF Recv, Typed
  <2>3. QED
    BY <2>1, <2>2, <1>0, <1>4 DEF Recv, Capacity, Counted, loader
<1>5. ASSUME NEW w \in Workers, InnerWrite(w)  PROVE Capacity' /\ Counted'
  <2>1. Busy' = Busy
    BY <1>5 DEF InnerWrite, Busy, Typed
  <2>2. QED
    BY <2>1, <1>5 DEF InnerWrite, Capacity, Counted, loader, channels
<1>6. ASSUME NEW w \in Workers, WgDone(w)  PROVE Capacity' /\ Counted'
  <2>1. Cardinality(Busy') = Cardinality(Busy) - 1
    BY <1>6, BusyLeave DEF WgDone, Typed
  <2>2. QED
    BY <2>1, <1>0, <1>6 DEF WgDone, Capacity, Counted, loader, channels
<1>7. ASSUME NEW w \in Workers, Report(w)  PROVE Capacity' /\ Counted'
  <2>1. Busy' = Busy
    BY <1>7 DEF Report, Busy, Typed
  <2>2. QED
    BY <2>1, <1>7 DEF Report, Capacity, Counted, loader
<1>8. ASSUME NEW w \in Workers, GroupFlush(w)  PROVE Capacity' /\ Counted'
  BY <1>b, <1>8 DEF GroupFlush, Capacity, Counted, loader, channels, consumers
<1>9. QED
  BY <1>1, <1>2, <1>3, <1>4, <1>5, <1>6, <1>7, <1>8 DEF Next, Loader, Consumer, Finished

-------------------------------------------------------------------------------

(* What writeWg.Wait() has waited for holds while the flush goroutines run: the *)
(* channel is empty and no consumer touches its sink.  A sink that is flushed   *)
(* has an empty buffer.                                                         *)
FlushInv ==
  IF pc = "flush"
  THEN /\ writeCh = <<>>
       /\ \A w \in Workers : /\ wpc[w] \notin {"write", "wgDone"}
                             /\ group[w] \in {"running", "ok", "error"}
                             /\ group[w] # "running" => buf[w] = {}
  ELSE \A w \in Workers : group[w] = "none"

LEMMA FlushStep == Typed /\ Counted /\ FlushInv /\ [Next]_vars => FlushInv'
<1> SUFFICES ASSUME Typed, Counted, FlushInv, [Next]_vars  PROVE FlushInv'
  OBVIOUS
<1>1. CASE WriteRow \/ Send \/ Poll \/ FlushBegin \/ UNCHANGED vars
  BY <1>1 DEF WriteRow, Send, Poll, FlushBegin, FlushInv, channels, consumers, sinks, vars
<1>2. CASE FlushSinks
  <2>1. Len(writeCh) = 0 /\ Cardinality(Busy) = 0
    BY <1>2, BusyIsFinite DEF FlushSinks, Counted, Typed
  <2>2. Busy = {}
    BY <2>1, BusyIsFinite, FS_EmptySet
  <2>3. writeCh = <<>>
    BY <2>1 DEF Typed
  <2>4. QED
    BY <2>2, <2>3, <1>2 DEF FlushSinks, FlushInv, Busy, Typed, channels, consumers
<1>3. CASE FlushEnd
  BY <1>3 DEF FlushEnd, FlushInv
<1>4. ASSUME NEW w \in Workers, Recv(w)  PROVE FlushInv'
  BY <1>4 DEF Recv, FlushInv, loader, sinks
<1>5. ASSUME NEW w \in Workers, InnerWrite(w)  PROVE FlushInv'
  BY <1>5 DEF InnerWrite, FlushInv, loader, channels
<1>6. ASSUME NEW w \in Workers, WgDone(w)  PROVE FlushInv'
  BY <1>6 DEF WgDone, FlushInv, loader, channels, sinks
<1>7. ASSUME NEW w \in Workers, Report(w)  PROVE FlushInv'
  BY <1>7 DEF Report, FlushInv, Typed, loader, sinks
<1>8. ASSUME NEW w \in Workers, GroupFlush(w)  PROVE FlushInv'
  BY <1>8 DEF GroupFlush, Deliver, FlushInv, Typed, loader, channels, consumers, sinks
<1>9. QED
  BY <1>1, <1>2, <1>3, <1>4, <1>5, <1>6, <1>7, <1>8 DEF Next, Loader, Consumer, Finished

-------------------------------------------------------------------------------

(* The rows taken out of the channel so far; those that a consumer or its sink  *)
(* has; those whose batch has been delivered.                                   *)
Taken == (IF pc = "send" THEN sent - 1 ELSE sent) - Len(writeCh)
Has(w) == buf[w] \cup (IF wpc[w] = "write" THEN {row[w]} ELSE {})
Delivered == stored \cup dropped

(* The channel holds the next rows in their order. *)
QueueInv == /\ Taken \in Nat
            /\ \A i \in 1..Len(writeCh) : writeCh[i] = Taken + i

(* Each row taken out is in exactly one place. *)
PlaceInv ==
  /\ Delivered \subseteq 1..Taken
  /\ stored \cap dropped = {}
  /\ flushed \subseteq Delivered
  /\ \A w \in Workers : Has(w) \subseteq 1..Taken /\ Has(w) \cap Delivered = {}
  /\ \A v, w \in Workers : v # w => Has(v) \cap Has(w) = {}
  /\ \A r \in 1..Taken : r \in Delivered \/ \E w \in Workers : r \in Has(w)

(* How a step changes the places: not at all, *)
LEMMA NothingMoves ==
  ASSUME PlaceInv, Taken' = Taken, \A w \in Workers : Has(w)' = Has(w),
         UNCHANGED <<stored, dropped, flushed>>
  PROVE  PlaceInv'
  BY DEF PlaceInv, Delivered

(* a consumer takes the next row, *)
LEMMA RowMoves ==
  ASSUME NEW w \in Workers, PlaceInv, Taken \in Nat, Taken' = Taken + 1,
         Has(w)' = Has(w) \cup {Taken + 1},
         \A v \in Workers \ {w} : Has(v)' = Has(v),
         UNCHANGED <<stored, dropped, flushed>>
  PROVE  PlaceInv'
<1>1. Delivered' = Delivered /\ 1..Taken' = (1..Taken) \cup {Taken + 1} /\ Taken + 1 \notin 1..Taken
  BY DEF Delivered
<1>2. QED
  BY <1>1 DEF PlaceInv

(* or a batch leaves a sink. *)
LEMMA BatchMoves ==
  ASSUME NEW w \in Workers, PlaceInv, Taken' = Taken, Has(w)' = {},
         \A v \in Workers \ {w} : Has(v)' = Has(v), UNCHANGED flushed,
         \/ stored' = stored \cup Has(w) /\ UNCHANGED dropped
         \/ dropped' = dropped \cup Has(w) /\ UNCHANGED stored
  PROVE  PlaceInv'
<1>1. Delivered' = Delivered \cup Has(w)
  BY DEF Delivered
<1>2. stored' \cap dropped' = {}
  BY DEF PlaceInv, Delivered
<1>3. /\ Delivered' \subseteq 1..Taken'
      /\ flushed' \subseteq Delivered'
  BY <1>1 DEF PlaceInv
<1>4. \A v \in Workers : Has(v)' \subseteq 1..Taken' /\ Has(v)' \cap Delivered' = {}
  BY <1>1 DEF PlaceInv
<1>5. \A u, v \in Workers : u # v => Has(u)' \cap Has(v)' = {}
  BY DEF PlaceInv
<1>6. \A r \in 1..Taken' : r \in Delivered' \/ \E v \in Workers : r \in Has(v)'
  BY <1>1 DEF PlaceInv
<1>7. QED
  BY <1>2, <1>3, <1>4, <1>5, <1>6 DEF PlaceInv

RowsInv == RowTaken /\ QueueInv /\ PlaceInv

LEMMA RowsStep ==
  Typed /\ SentFirst /\ FlushInv /\ RowsInv /\ [Next]_vars => SentFirst' /\ RowsInv'
<1> SUFFICES ASSUME Typed, SentFirst, FlushInv, RowsInv, [Next]_vars
             PROVE  SentFirst' /\ RowsInv'
  OBVIOUS
<1>0. Len(writeCh) \in Nat /\ sent \in Nat /\ NRows \in Nat /\ Taken \in Nat
  BY ConstantTypes DEF Typed, RowsInv, QueueInv
<1>1. CASE WriteRow
  <2>1. Taken' = Taken /\ SentFirst'
    BY <1>0, <1>1 DEF WriteRow, Taken, SentFirst, channels
  <2>2. QED
    BY <2>1, <1>1, NothingMoves
    DEF WriteRow, RowsInv, RowTaken, QueueInv, Has, channels, consumers, sinks
<1>2. CASE Send
  <2>1. Len(writeCh') = Len(writeCh) + 1 /\ Taken' = Taken /\ sent = Taken + Len(writeCh')
    BY <1>0, <1>2 DEF Send, Taken, Typed
  <2>2. QueueInv'
    <3>1. \A i \in 1..Len(writeCh) : writeCh'[i] = writeCh[i]
      BY <1>2 DEF Send, Typed
    <3>2. writeCh'[Len(writeCh')] = sent
      BY <2>1, <1>2 DEF Send, Typed
    <3>3. QED
      BY <3>1, <3>2, <2>1, <1>0 DEF RowsInv, QueueInv
  <2>3. PlaceInv'
    BY <2>1, <1>2, NothingMoves DEF Send, RowsInv, Has, consumers, sinks
  <2>4. QED
    BY <2>2, <2>3, <1>2 DEF Send, SentFirst, RowsInv, RowTaken, consumers
<1>3. CASE Poll \/ FlushBegin \/ FlushSinks \/ UNCHANGED vars
  <2>1. Taken' = Taken /\ UNCHANGED <<writeCh, wpc, row, buf, stored, dropped, flushed>> /\ SentFirst'
    BY <1>3 DEF Poll, FlushBegin, FlushSinks, Taken, SentFirst, channels, consumers, sinks, vars
  <2>2. QED
    BY <2>1, NothingMoves DEF RowsInv, RowTaken, QueueInv, Has
<1>4. CASE FlushEnd
  <2>1. /\ Taken' = Taken /\ Taken = sent /\ SentFirst'
        /\ UNCHANGED <<writeCh, wpc, row, buf, stored, dropped>>
    BY <1>0, <1>4 DEF FlushEnd, FlushInv, Taken, SentFirst, channels, consumers, sinks
  <2>2. flushed' \subseteq Delivered
    <3>1. CASE \E w \in Workers : group[w] = "error"
      BY <3>1, <1>4 DEF FlushEnd, RowsInv, PlaceInv
    <3>2. CASE ~ \E w \in Workers : group[w] = "error"
      <4>1. flushed' = 1..Taken
        BY <3>2, <2>1, <1>4 DEF FlushEnd
      <4>2. \A w \in Workers : Has(w) = {}
        BY <1>4 DEF FlushEnd, FlushInv, Has
      <4>3. QED
        BY <4>1, <4>2 DEF RowsInv, PlaceInv
    <3>3. QED
      BY <3>1, <3>2
  <2>3. Delivered' = Delivered /\ \A w \in Workers : Has(w)' = Has(w)
    BY <2>1 DEF Delivered, Has
  <2>4. PlaceInv'
    BY <2>1, <2>2, <2>3 DEF RowsInv, PlaceInv
  <2>5. QED
    BY <2>1, <2>4 DEF RowsInv, RowTaken, QueueInv
<1>5. ASSUME NEW w \in Workers, Recv(w)  PROVE SentFirst' /\ RowsInv'
  <2>1. /\ Len(writeCh') = Len(writeCh) - 1 /\ Head(writeCh) = writeCh[1]
        /\ \A i \in 1..Len(writeCh') : writeCh'[i] = writeCh[i + 1]
        /\ Len(writeCh) > 0 /\ Head(writeCh) \in 1..NRows
    BY <1>0, <1>5 DEF Recv, Typed
  <2>2. Taken' = Taken + 1 /\ SentFirst'
    BY <2>1, <1>0, <1>5 DEF Recv, Taken, SentFirst, loader
  <2>3. Head(writeCh) = Taken + 1
    BY <2>1, <1>0 DEF RowsInv, QueueInv
  <2>4. QueueInv'
    BY <2>1, <2>2, <1>0 DEF RowsInv, QueueInv
  <2>5. /\ Has(w)' = Has(w) \cup {Taken + 1}
        /\ \A v \in Workers \ {w} : Has(v)' = Has(v)
        /\ UNCHANGED <<stored, dropped, flushed>>
    BY <2>3, <1>5 DEF Recv, Has, Typed, sinks, loader
  <2>6. PlaceInv'
    BY <2>2, <2>5, <1>0, RowMoves DEF RowsInv
  <2>7. RowTaken'
    BY <2>1, <1>5 DEF Recv, RowTaken, RowsInv, Typed
  <2>8. QED
    BY <2>2, <2>4, <2>6, <2>7 DEF RowsInv
<1>6. ASSUME NEW w \in Workers, InnerWrite(w)  PROVE SentFirst' /\ RowsInv'
  <2>1. Taken' = Taken /\ UNCHANGED <<writeCh, row, flushed>> /\ SentFirst'
    BY <1>6 DEF InnerWrite, Taken, SentFirst, loader, channels
  <2>2. Has(w) = buf[w] \cup {row[w]} /\ \A v \in Workers \ {w} : Has(v)' = Has(v)
    BY <1>6 DEF InnerWrite, WriteBatch, Deliver, Has, Typed
  <2>3. PlaceInv'
    <3>1. CASE Cardinality(buf[w] \cup {row[w]}) < MaxBatchRows
      <4>1. Has(w)' = Has(w) /\ UNCHANGED <<stored, dropped>>
        BY <3>1, <2>2, <1>6 DEF InnerWrite, Has, Typed
      <4>2. QED
        BY <4>1, <2>1, <2>2, NothingMoves DEF RowsInv
    <3>2. CASE ~(Cardinality(buf[w] \cup {row[w]}) < MaxBatchRows)
      <4>1. /\ Has(w)' = {}
            /\ \/ stored' = stored \cup Has(w) /\ UNCHANGED dropped
               \/ dropped' = dropped \cup Has(w) /\ UNCHANGED stored
        BY <3>2, <2>2, <1>6 DEF InnerWrite, WriteBatch, Deliver, Has, Typed
      <4>2. QED
        BY <4>1, <2>1, <2>2, BatchMoves DEF RowsInv
    <3>3. QED
      BY <3>1, <3>2
  <2>4. RowTaken'
    BY <2>1, <1>6 DEF InnerWrite, RowTaken, RowsInv, Typed
  <2>5. QED
    BY <2>1, <2>3, <2>4 DEF RowsInv, QueueInv
<1>7. ASSUME NEW w \in Workers, WgDone(w) \/ Report(w)  PROVE SentFirst' /\ RowsInv'
  <2>1. Taken' = Taken /\ UNCHANGED <<writeCh, flushed, stored, dropped>> /\ SentFirst'
    BY <1>7 DEF WgDone, Report, Taken, SentFirst, loader, channels, sinks
  <2>2. RowTaken' /\ \A v \in Workers : Has(v)' = Has(v)
    BY <1>7 DEF WgDone, Report, Has, RowTaken, RowsInv, Typed, sinks
  <2>3. QED
    BY <2>1, <2>2, NothingMoves DEF RowsInv, QueueInv
<1>8. ASSUME NEW w \in Workers, GroupFlush(w)  PROVE SentFirst' /\ RowsInv'
  <2>1. Taken' = Taken /\ UNCHANGED <<writeCh, wpc, row, flushed>> /\ SentFirst'
    BY <1>8 DEF GroupFlush, Taken, SentFirst, loader, channels, consumers
  <2>2. wpc[w] # "write"
    BY <1>8 DEF GroupFlush, FlushInv
  <2>3. PlaceInv'
    <3>1. CASE buf[w] = {}
      <4>1. UNCHANGED <<buf, stored, dropped>>
        BY <3>1, <1>8 DEF GroupFlush, sinks
      <4>2. QED
        BY <4>1, <2>1, NothingMoves DEF RowsInv, Has
    <3>2. CASE buf[w] # {}
      <4>1. /\ Has(w)' = {} /\ \A v \in Workers \ {w} : Has(v)' = Has(v)
            /\ \/ stored' = stored \cup Has(w) /\ UNCHANGED dropped
               \/ dropped' = dropped \cup Has(w) /\ UNCHANGED stored
        BY <3>2, <2>1, <2>2, <1>8 DEF GroupFlush, Deliver, Has, Typed
      <4>2. QED
        BY <4>1, <2>1, BatchMoves DEF RowsInv
    <3>3. QED
      BY <3>1, <3>2
  <2>4. QED
    BY <2>1, <2>3 DEF RowsInv, RowTaken, QueueInv
<1>9. QED
  BY <1>1, <1>2, <1>3, <1>4, <1>5, <1>6, <1>7, <1>8 DEF Next, Loader, Consumer, Finished

-------------------------------------------------------------------------------

LEMMA ErrorStep == Typed /\ ErrorInv /\ [Next]_vars => ErrorInv'
<1> SUFFICES ASSUME Typed, ErrorInv, [Next]_vars  PROVE ErrorInv'
  OBVIOUS
<1>1. CASE UNCHANGED <<wpc, werr>>
  BY <1>1 DEF ErrorInv
<1>2. CASE Loader \/ UNCHANGED vars
  BY <1>1, <1>2 DEF Loader, WriteRow, Send, Poll, FlushBegin, FlushSinks, FlushEnd, consumers, vars
<1>3. ASSUME NEW w \in Workers, Recv(w)  PROVE ErrorInv'
  BY <1>3 DEF Recv, ErrorInv, Typed
<1>4. ASSUME NEW w \in Workers, InnerWrite(w)  PROVE ErrorInv'
  <2>1. wpc' = [wpc EXCEPT ![w] = "wgDone"] /\ \A v \in Workers \ {w} : werr'[v] = werr[v]
    BY <1>4 DEF InnerWrite, WriteBatch, Typed
  <2>2. QED
    BY <2>1 DEF ErrorInv, Typed
<1>5. ASSUME NEW w \in Workers, WgDone(w) \/ Report(w)  PROVE ErrorInv'
  BY <1>5 DEF WgDone, Report, ErrorInv, Typed
<1>6. ASSUME NEW w \in Workers, GroupFlush(w)  PROVE ErrorInv'
  BY <1>1, <1>6 DEF GroupFlush, consumers
<1>7. QED
  BY <1>2, <1>3, <1>4, <1>5, <1>6 DEF Next, Consumer, Finished

(* What a consumer has failed at stays with it until it is reported. *)
LEMMA FailuresStep ==
  Typed /\ ErrorInv /\ FailuresAreReported /\ [Next]_vars => FailuresAreReported'
<1> SUFFICES ASSUME Typed, ErrorInv, FailuresAreReported, [Next]_vars  PROVE FailuresAreReported'
  OBVIOUS
<1>1. CASE UNCHANGED <<werr, failed, reported>>
  BY <1>1 DEF FailuresAreReported
<1>2. CASE Loader \/ UNCHANGED vars
  BY <1>1, <1>2 DEF Loader, WriteRow, Send, Poll, FlushBegin, FlushSinks, FlushEnd, consumers, vars
<1>3. ASSUME NEW w \in Workers, Recv(w) \/ WgDone(w) \/ GroupFlush(w)  PROVE FailuresAreReported'
  BY <1>1, <1>3 DEF Recv, WgDone, GroupFlush, consumers
<1>4. ASSUME NEW w \in Workers, InnerWrite(w)  PROVE FailuresAreReported'
  <2>1. werr[w] = 0 /\ UNCHANGED reported
    BY <1>4 DEF InnerWrite, ErrorInv
  <2>2. \E err \in {0, row[w]} : werr' = [werr EXCEPT ![w] = err] /\ failed' = failed \cup ({err} \ {0})
    BY <1>4 DEF InnerWrite, WriteBatch
  <2>3. failed \subseteq 1..NRows
    BY DEF Typed
  <2>4. \A r \in failed : r # 0
    BY <2>3, ConstantTypes
  <2>5. QED
    BY <2>1, <2>2, <2>4 DEF FailuresAreReported, Typed
<1>5. ASSUME NEW w \in Workers, Report(w)  PROVE FailuresAreReported'
  <2>1. /\ UNCHANGED failed /\ werr' = [werr EXCEPT ![w] = 0]
        /\ reported' = Append(reported, werr[w])
    BY <1>5 DEF Report
  <2>2. /\ Len(reported') = Len(reported) + 1 /\ Len(reported) \in Nat
        /\ \A n \in 1..Len(reported) : reported'[n] = reported[n]
        /\ reported'[Len(reported) + 1] = werr[w]
    <3>1. werr[w] \in 1..NRows
      BY <1>5, ConstantTypes DEF Report, ErrorInv, Typed
    <3>2. QED
      BY <2>1, <3>1 DEF Typed
  <2>3. ASSUME NEW r \in failed
        PROVE  (\E v \in Workers : werr'[v] = r) \/ (\E n \in 1..Len(reported') : reported'[n] = r)
    <3>1. CASE werr[w] = r
      <4>1. Len(reported) + 1 \in 1..Len(reported')
        BY <2>2
      <4>2. QED
        BY <3>1, <4>1, <2>2
    <3>2. CASE \E v \in Workers \ {w} : werr[v] = r
      BY <3>2, <2>1 DEF Typed
    <3>3. CASE \E n \in 1..Len(reported) : reported[n] = r
      <4>1. PICK n \in 1..Len(reported) : reported[n] = r
        BY <3>3
      <4>2. n \in 1..Len(reported') /\ reported'[n] = r
        BY <4>1, <2>2
      <4>3. QED
        BY <4>2
    <3>4. QED
      BY <3>1, <3>2, <3>3 DEF FailuresAreReported
  <2>4. QED
    BY <2>1, <2>3 DEF FailuresAreReported
<1>6. QED
  BY <1>2, <1>3, <1>4, <1>5 DEF Next, Consumer, Finished

(* Only Report and Poll touch the channel and the two histories. *)
LEMMA RoundStep ==
  Typed /\ ErrorInv /\ FirstOfEachRound /\ [Next]_vars => FirstOfEachRound'
<1> SUFFICES ASSUME Typed, ErrorInv, FirstOfEachRound, [Next]_vars  PROVE FirstOfEachRound'
  OBVIOUS
<1>0. Len(reported) \in Nat /\ Len(returned) \in Nat /\ NRows \in Nat
  BY ConstantTypes DEF Typed
<1> DEFINE Error == 1..NRows
           Return == [err : Error, upTo : Nat]
<1>e. /\ \A n \in 1..Len(reported) : reported[n] \in 1..NRows
      /\ \A n \in 1..Len(returned) : returned[n].upTo \in Nat
  <2>1. reported \in Seq(Error) /\ returned \in Seq(Return)
    BY DEF Typed
  <2> HIDE DEF Error, Return
  <2>2. \A n \in 1..Len(returned) : returned[n] \in Return
    BY <2>1
  <2>3. \A n \in 1..Len(returned) : returned[n].upTo \in Nat
    BY <2>2 DEF Return
  <2>4. \A n \in 1..Len(reported) : reported[n] \in Error
    BY <2>1
  <2>5. QED
    BY <2>3, <2>4 DEF Error
<1> DEFINE seen == UpTo(Len(returned))
<1>1. seen \in Nat /\ seen <= Len(reported)
  <2>1. CASE Len(returned) = 0
    BY <2>1, <1>0 DEF UpTo
  <2>2. CASE Len(returned) # 0
    <3>1. Len(returned) \in 1..Len(returned)
      BY <2>2, <1>0
    <3>2. seen = returned[Len(returned)].upTo /\ seen <= Len(reported)
      BY <3>1, <2>2 DEF FirstOfEachRound, UpTo
    <3>3. QED
      BY <3>1, <3>2, <1>e
  <2>3. QED
    BY <2>1, <2>2
<1>2. CASE UNCHANGED <<resultCh, reported, returned>>
  BY <1>2 DEF FirstOfEachRound, UpTo
<1>3. CASE Poll /\ resultCh # 0
  <2>1. /\ resultCh' = 0 /\ UNCHANGED reported
        /\ returned' = Append(returned, [err |-> resultCh, upTo |-> Len(reported)])
    BY <1>3 DEF Poll, consumers
  <2>2. /\ Len(returned') = Len(returned) + 1
        /\ \A n \in 1..Len(returned) : returned'[n] = returned[n]
        /\ returned'[Len(returned) + 1] = [err |-> resultCh, upTo |-> Len(reported)]
    <3>1. [err |-> resultCh, upTo |-> Len(reported)] \in [err : 1..NRows, upTo : Nat]
      BY <1>0, <1>3 DEF Typed
    <3>2. QED
      BY <2>1, <3>1 DEF Typed
  <2>3. seen < Len(reported) /\ resultCh = reported[seen + 1]
    BY <1>3 DEF FirstOfEachRound
  <2>4. /\ \A n \in 0..Len(returned) : UpTo(n)' = UpTo(n)
        /\ \A n \in Nat : n = Len(returned) + 1 => UpTo(n)' = Len(reported)
        /\ seen' = Len(reported)
    BY <2>2, <1>0 DEF UpTo
  <2>5. ASSUME NEW n \in 1..Len(returned')
        PROVE  /\ UpTo(n - 1)' < UpTo(n)' /\ UpTo(n)' <= Len(reported')
               /\ returned'[n].err = reported'[UpTo(n - 1)' + 1]
    <3>1. CASE n = Len(returned) + 1
      <4>1. UpTo(n - 1)' = seen /\ UpTo(n)' = Len(reported)
        BY <3>1, <2>4, <1>0
      <4>2. QED
        BY <4>1, <3>1, <2>1, <2>2, <2>3, <1>0
    <3>2. CASE n \in 1..Len(returned)
      <4>1. UpTo(n - 1)' = UpTo(n - 1) /\ UpTo(n)' = UpTo(n) /\ returned'[n] = returned[n]
        BY <3>2, <2>2, <2>4, <1>0
      <4>2. QED
        BY <4>1, <3>2, <2>1 DEF FirstOfEachRound
    <3>3. QED
      BY <3>1, <3>2, <2>2, <1>0
  <2>6. resultCh' = IF seen' < Len(reported') THEN reported'[seen' + 1] ELSE 0
    BY <2>1, <2>2, <2>4, <1>0
  <2>7. QED
    BY <2>5, <2>6 DEF FirstOfEachRound
<1>4. ASSUME NEW w \in Workers, Report(w)  PROVE FirstOfEachRound'
  <2>1. werr[w] \in 1..NRows
    BY <1>0, <1>4 DEF Report, ErrorInv, Typed
  <2>2. /\ resultCh' = IF resultCh = 0 THEN werr[w] ELSE resultCh
        /\ UNCHANGED returned /\ reported' = Append(reported, werr[w])
    BY <1>4 DEF Report, loader
  <2>3. /\ Len(reported') = Len(reported) + 1
        /\ \A n \in 1..Len(reported) : reported'[n] = reported[n]
        /\ reported'[Len(reported) + 1] = werr[w]
    BY <2>1, <2>2 DEF Typed
  <2>4. \A n \in 0..Len(returned) : UpTo(n)' = UpTo(n)
    BY <2>2 DEF UpTo
  <2>5. ASSUME NEW n \in 1..Len(returned')
        PROVE  /\ UpTo(n - 1)' < UpTo(n)' /\ UpTo(n)' <= Len(reported')
               /\ returned'[n].err = reported'[UpTo(n - 1)' + 1]
    <3>1. n \in 1..Len(returned) /\ UpTo(n - 1)' = UpTo(n - 1) /\ UpTo(n)' = UpTo(n)
      BY <2>2, <2>4, <1>0
    <3>2. /\ UpTo(n - 1) < UpTo(n) /\ UpTo(n) <= Len(reported)
          /\ returned[n].err = reported[UpTo(n - 1) + 1]
      BY <3>1 DEF FirstOfEachRound
    <3>3. UpTo(n - 1) \in Nat /\ UpTo(n) \in Nat
      BY <3>1, <1>0, <1>e DEF UpTo
    <3>4. reported'[UpTo(n - 1) + 1] = reported[UpTo(n - 1) + 1]
      BY <3>2, <3>3, <2>3, <1>0
    <3>5. QED
      BY <3>1, <3>2, <3>3, <3>4, <2>2, <2>3, <1>0
  <2>6. resultCh' = IF seen < Len(reported') THEN reported'[seen + 1] ELSE 0
    <3>1. resultCh = IF seen < Len(reported) THEN reported[seen + 1] ELSE 0
      BY DEF FirstOfEachRound
    <3>2. CASE seen < Len(reported)
      <4>1. seen + 1 \in 1..Len(reported)
        BY <3>2, <1>0, <1>1
      <4>2. resultCh = reported[seen + 1] /\ reported[seen + 1] \in 1..NRows
        BY <3>1, <3>2, <4>1, <1>e
      <4>3. resultCh' = reported'[seen + 1]
        BY <4>1, <4>2, <2>2, <2>3, <1>0
      <4>4. QED
        BY <4>3, <3>2, <2>3, <1>0, <1>1
    <3>3. CASE seen = Len(reported)
      <4>1. resultCh = 0
        BY <3>1, <3>3, <1>0
      <4>2. QED
        BY <4>1, <3>3, <2>2, <2>3, <1>0
    <3>4. QED
      BY <3>2, <3>3, <1>0, <1>1
  <2>7. seen' = seen
    BY <2>2 DEF UpTo
  <2>8. QED
    BY <2>5, <2>6, <2>7 DEF FirstOfEachRound
<1>5. CASE Loader \/ UNCHANGED vars
  <2>1. CASE Poll /\ resultCh = 0
    BY <1>2, <2>1 DEF Poll, consumers
  <2>2. CASE WriteRow \/ Send \/ FlushBegin \/ FlushSinks \/ FlushEnd \/ UNCHANGED vars
    BY <1>2, <2>2 DEF WriteRow, Send, FlushBegin, FlushSinks, FlushEnd, channels, consumers, vars
  <2>3. QED
    BY <1>3, <1>5, <2>1, <2>2 DEF Loader
<1>6. ASSUME NEW w \in Workers, Recv(w) \/ InnerWrite(w) \/ WgDone(w) \/ GroupFlush(w)
      PROVE  FirstOfEachRound'
  BY <1>2, <1>6 DEF Recv, InnerWrite, WgDone, GroupFlush, loader, channels, consumers
<1>7. QED
  BY <1>4, <1>5, <1>6 DEF Next, Consumer, Finished

LEMMA DiscardsStep ==
  Typed /\ FlushInv /\ RowTaken /\ DiscardsHaveError /\ [Next]_vars => DiscardsHaveError'
<1> SUFFICES ASSUME Typed, FlushInv, RowTaken, DiscardsHaveError, [Next]_vars  PROVE DiscardsHaveError'
  OBVIOUS
<1>1. CASE UNCHANGED <<dropped, failed, group>> /\ (told => told')
  BY <1>1 DEF DiscardsHaveError
<1>2. CASE WriteRow \/ Send \/ Poll \/ FlushBegin \/ UNCHANGED vars
  <2>1. CASE WriteRow \/ Send \/ FlushBegin \/ UNCHANGED vars
    BY <1>1, <2>1 DEF WriteRow, Send, FlushBegin, consumers, sinks, vars
  <2>2. CASE Poll
    <3>1. UNCHANGED <<dropped, failed, group>> /\ told' = (told \/ resultCh # 0)
      BY <2>2 DEF Poll, consumers, sinks
    <3>2. QED
      BY <3>1, <1>1
  <2>3. QED
    BY <1>2, <2>1, <2>2
<1>3. CASE FlushSinks
  BY <1>3 DEF FlushSinks, FlushInv, DiscardsHaveError, consumers, sinks
<1>4. CASE FlushEnd
  BY <1>4 DEF FlushEnd, DiscardsHaveError, consumers, sinks
<1>5. ASSUME NEW w \in Workers, Recv(w) \/ WgDone(w) \/ Report(w)  PROVE DiscardsHaveError'
  BY <1>1, <1>5 DEF Recv, WgDone, Report, loader, sinks
<1>6. ASSUME NEW w \in Workers, InnerWrite(w)  PROVE DiscardsHaveError'
  <2>1. row[w] # 0
    BY <1>6, ConstantTypes DEF InnerWrite, RowTaken
  <2>2. (UNCHANGED dropped /\ failed' = failed) \/ failed' # {}
    BY <1>6, <2>1 DEF InnerWrite, WriteBatch, Deliver
  <2>3. UNCHANGED <<told, group>>
    BY <1>6 DEF InnerWrite, loader
  <2>4. QED
    BY <2>2, <2>3 DEF DiscardsHaveError
<1>7. ASSUME NEW w \in Workers, GroupFlush(w)  PROVE DiscardsHaveError'
  <2>1. UNCHANGED <<told, failed>>
    BY <1>7 DEF GroupFlush, loader, consumers
  <2>2. \/ UNCHANGED dropped /\ group' = [group EXCEPT ![w] = "ok"]
        \/ group' = [group EXCEPT ![w] = "error"]
    BY <1>7 DEF GroupFlush, Deliver, sinks
  <2>3. group[w] = "running"
    BY <1>7 DEF GroupFlush
  <2>4. QED
    BY <2>1, <2>2, <2>3 DEF DiscardsHaveError, Typed
<1>8. QED
  BY <1>2, <1>3, <1>4, <1>5, <1>6, <1>7 DEF Next, Loader, Consumer, Finished

-------------------------------------------------------------------------------

IInv == /\ Typed /\ Capacity /\ Counted /\ SentFirst
        /\ FlushInv /\ RowsInv /\ ErrorInv /\ FirstReportedIsKept

LEMMA InvInit == Init => IInv
<1> SUFFICES ASSUME Init  PROVE IInv
  OBVIOUS
<1>1. Taken = 0 /\ Delivered = {} /\ \A w \in Workers : Has(w) = {}
  <2>1. Len(writeCh) = 0 /\ sent = 0 /\ pc # "send"
    BY DEF Init
  <2>2. Taken = 0
    BY <2>1 DEF Taken
  <2>3. Delivered = {}
    BY DEF Init, Delivered
  <2>4. \A w \in Workers : Has(w) = {}
    BY DEF Init, Has
  <2>5. QED
    BY <2>2, <2>3, <2>4
<1>2. QueueInv /\ RowTaken
  BY <1>1 DEF Init, QueueInv, RowTaken
<1>3. PlaceInv
  BY <1>1 DEF Init, PlaceInv
<1>4. FlushInv /\ ErrorInv /\ FailuresAreReported /\ DiscardsHaveError
  BY DEF Init, FlushInv, ErrorInv, FailuresAreReported, DiscardsHaveError
<1>5. FirstOfEachRound
  <2>1. Len(reported) = 0 /\ Len(returned) = 0 /\ resultCh = 0
    BY DEF Init
  <2>2. QED
    BY <2>1 DEF FirstOfEachRound, UpTo
<1>6. QED
  BY <1>2, <1>3, <1>4, <1>5, TypedInit DEF IInv, RowsInv, FirstReportedIsKept

LEMMA InvStep == IInv /\ [Next]_vars => IInv'
  BY TypedStep, CountedStep, FlushStep, RowsStep, ErrorStep, FailuresStep, RoundStep, DiscardsStep
  DEF IInv, RowsInv, FirstReportedIsKept

LEMMA Invariance == Spec => []IInv
  BY InvInit, InvStep, PTL DEF Spec

(* Types, the capacity of the channels, and that writeWg counts exactly the rows  *)
(* that are queued or in the hands of a consumer (concurrent.go:57, 75).          *)
THEOREM TypeCorrect == Spec => []TypeOK
<1>1. IInv => TypeOK
  BY TypesByName DEF IInv
<1>2. QED
  BY <1>1, Invariance, PTL

(* "At this time there is no running write ops" (concurrent.go:106): no flush     *)
(* goroutine uses a sink while its consumer does.                                 *)
THEOREM SinksExclusive == Spec => []InnerSinkExclusive
<1>1. IInv => InnerSinkExclusive
  BY DEF IInv, FlushInv, InnerSinkExclusive
<1>2. QED
  BY <1>1, Invariance, PTL

(* A Flush that returns nil has delivered every row written before it, each once. *)
THEOREM FlushCovers == Spec => []FlushCoversAllRows
<1>1. IInv => FlushCoversAllRows
  BY DEF IInv, RowsInv, PlaceInv, Delivered, FlushCoversAllRows
<1>2. QED
  BY <1>1, Invariance, PTL

(* WriteRow always returns the first error reported since it returned one last;   *)
(* a later report never takes the place of the one that waits in the channel      *)
(* (concurrent.go:62-66, 84-89).                                                  *)
THEOREM FirstReportedKept == Spec => []FirstReportedIsKept
<1>1. IInv => FirstReportedIsKept
  BY DEF IInv
<1>2. QED
  BY <1>1, Invariance, PTL
=============================================================================
