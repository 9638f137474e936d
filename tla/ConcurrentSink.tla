---------------------------- MODULE ConcurrentSink ----------------------------
(***************************************************************************)
(* pkg/sink/concurrent.go: a loader writes rows into a channel; a consumer *)
(* goroutine per inner sink takes them out and writes them to its sink.    *)
(* Flush and Close wait for the queued rows, then flush every inner sink   *)
(* in a goroutine of its own.                                              *)
(*                                                                         *)
(* An inner sink is taken at the level of BatchDelivery: a full or flushed *)
(* batch is stored, or an error is returned and the batch is gone.  An     *)
(* error is known by the row whose inner WriteRow returned it; failed,     *)
(* reported and returned are histories that no action reads.               *)
(***************************************************************************)
EXTENDS Naturals, Sequences, FiniteSets

CONSTANTS Workers,       \* the inner sinks, each with its consumer goroutine
          MaxBatchRows,  \* batch size of an inner sink
          NRows          \* bound: rows the loader writes, numbered in order

ASSUME ConcurrentAssumption == /\ Workers # {} /\ IsFiniteSet(Workers)
                               /\ MaxBatchRows \in Nat \ {0}
                               /\ NRows \in Nat

VARIABLES pc,        \* the loader: "idle", "send", "poll", "wait" or "flush"
          sent,      \* rows handed to WriteRow so far
          writeCh,   \* channel of rows, capacity: the number of workers
          resultCh,  \* the error in writeResultCh, 0 when it is empty: capacity 1
          writeWg,   \* the WaitGroup's counter
          wpc,       \* consumers: "recv", "write", "wgDone" or "report"
          row,       \* the row a consumer has taken
          werr,      \* the error its WriteRow has returned, 0 for nil
          buf,       \* rows buffered by an inner sink
          group,     \* errgroup of Flush: "none", "running", "ok" or "error"
          stored,    \* rows of batches that were stored
          dropped,   \* rows of batches whose delivery returned an error
          told,      \* some call has returned an error to the loader
          flushed,   \* rows covered by a Flush or Close that returned nil
          failed,    \* rows whose inner WriteRow returned an error
          reported,  \* errors in the order the consumers offered them to writeResultCh
          returned   \* errors WriteRow has returned, with the number reported by then

vars == <<pc, sent, writeCh, resultCh, writeWg, wpc, row, werr, buf, group,
          stored, dropped, told, flushed, failed, reported, returned>>
loader == <<pc, sent, told, flushed, returned>>
channels == <<writeCh, resultCh>>
consumers == <<wpc, row, werr, failed, reported>>
sinks == <<buf, stored, dropped>>

Init == /\ pc = "idle"
        /\ sent = 0
        /\ writeCh = <<>>
        /\ resultCh = 0
        /\ writeWg = 0
        /\ wpc = [w \in Workers |-> "recv"]
        /\ row = [w \in Workers |-> 0]
        /\ werr = [w \in Workers |-> 0]
        /\ buf = [w \in Workers |-> {}]
        /\ group = [w \in Workers |-> "none"]
        /\ stored = {}
        /\ dropped = {}
        /\ told = FALSE
        /\ flushed = {}
        /\ failed = {}
        /\ reported = <<>>
        /\ returned = <<>>

------------------------------------------------------------------------------
(* The loader. *)

WriteRow == /\ pc = "idle"
            /\ sent < NRows
            /\ sent' = sent + 1
            /\ writeWg' = writeWg + 1
            /\ pc' = "send"
            /\ UNCHANGED <<told, flushed, returned, channels, consumers, sinks, group>>

\* Mutant: the channel has no capacity limit.
SendUnbounded == /\ pc = "send"
                 /\ writeCh' = Append(writeCh, sent)
                 /\ pc' = "poll"
                 /\ UNCHANGED <<sent, told, flushed, returned, resultCh, writeWg, consumers, sinks, group>>

(* c.writeCh <- op blocks while the channel is full. *)
Send == /\ pc = "send"
        /\ Len(writeCh) < Cardinality(Workers)
        /\ writeCh' = Append(writeCh, sent)
        /\ pc' = "poll"
        /\ UNCHANGED <<sent, told, flushed, returned, resultCh, writeWg, consumers, sinks, group>>

\* Mutant: an error found in the result channel is thrown away.
PollAndForget == /\ pc = "poll"
                 /\ resultCh' = 0
                 /\ pc' = "idle"
                 /\ UNCHANGED <<sent, told, flushed, returned, writeCh, writeWg, consumers, sinks, group>>

(* WriteRow returns the error of an earlier row, if one is in the channel. *)
Poll == /\ pc = "poll"
        /\ told' = (told \/ resultCh # 0)
        /\ returned' = IF resultCh = 0 THEN returned
                       ELSE Append(returned, [err |-> resultCh, upTo |-> Len(reported)])
        /\ resultCh' = 0
        /\ pc' = "idle"
        /\ UNCHANGED <<sent, flushed, writeCh, writeWg, consumers, sinks, group>>

(* Flush and Close, up to writeWg.Wait(). *)
FlushBegin == /\ pc = "idle"
              /\ sent > 0
              /\ pc' = "wait"
              /\ UNCHANGED <<sent, told, flushed, returned, channels, writeWg, consumers, sinks, group>>

\* Mutant: the inner sinks are flushed without waiting for the queued rows.
FlushWithoutWait == /\ pc = "wait"
                    /\ group' = [w \in Workers |-> "running"]
                    /\ pc' = "flush"
                    /\ UNCHANGED <<sent, told, flushed, returned, channels, writeWg, consumers, sinks>>

(* writeWg.Wait() returns and one goroutine per inner sink starts. *)
FlushSinks == /\ pc = "wait"
              /\ writeWg = 0
              /\ group' = [w \in Workers |-> "running"]
              /\ pc' = "flush"
              /\ UNCHANGED <<sent, told, flushed, returned, channels, writeWg, consumers, sinks>>

(* g.Wait(): Flush returns the first error of the group, if any. *)
FlushEnd == /\ pc = "flush"
            /\ \A w \in Workers : group[w] # "running"
            /\ IF \E w \in Workers : group[w] = "error"
               THEN told' = TRUE /\ UNCHANGED flushed
               ELSE flushed' = 1..sent /\ UNCHANGED told
            /\ group' = [w \in Workers |-> "none"]
            /\ pc' = "idle"
            /\ UNCHANGED <<sent, returned, channels, writeWg, consumers, sinks>>

------------------------------------------------------------------------------
(* The inner sinks. *)

(* A batch leaves the buffer of w: it is stored, or the error is returned. *)
Deliver(w, batch, ok) ==
  /\ buf' = [buf EXCEPT ![w] = {}]
  /\ IF ok THEN stored' = stored \cup batch /\ UNCHANGED dropped
           ELSE dropped' = dropped \cup batch /\ UNCHANGED stored

(* One goroutine of the errgroup: sink.Flush(ctx) or sink.Close(ctx). *)
GroupFlush(w) ==
  /\ group[w] = "running"
  /\ IF buf[w] = {}
     THEN group' = [group EXCEPT ![w] = "ok"] /\ UNCHANGED sinks
     ELSE \E ok \in BOOLEAN :
            /\ Deliver(w, buf[w], ok)
            /\ group' = [group EXCEPT ![w] = IF ok THEN "ok" ELSE "error"]
  /\ UNCHANGED <<loader, channels, writeWg, consumers>>

------------------------------------------------------------------------------
(* The consumer goroutines: runConsumerLoop. *)

\* Mutant: the row is counted as done before it is written.
RecvAndDone(w) == /\ wpc[w] = "recv"
                  /\ writeCh # <<>>
                  /\ writeCh' = Tail(writeCh)
                  /\ row' = [row EXCEPT ![w] = Head(writeCh)]
                  /\ wpc' = [wpc EXCEPT ![w] = "write"]
                  /\ writeWg' = writeWg - 1
                  /\ UNCHANGED <<loader, resultCh, werr, failed, reported, sinks, group>>

Recv(w) == /\ wpc[w] = "recv"
           /\ writeCh # <<>>
           /\ writeCh' = Tail(writeCh)
           /\ row' = [row EXCEPT ![w] = Head(writeCh)]
           /\ wpc' = [wpc EXCEPT ![w] = "write"]
           /\ UNCHANGED <<loader, resultCh, writeWg, werr, failed, reported, sinks, group>>

(* sink.WriteRow(op) of w delivers a batch; err is what it returns. *)
WriteBatch(w, batch, err) ==
  /\ Deliver(w, batch, err = 0)
  /\ werr' = [werr EXCEPT ![w] = err]
  /\ failed' = failed \cup ({err} \ {0})

\* Mutant: the consumer loop ends at the first error.
InnerWriteOrStop(w) ==
  /\ wpc[w] = "write"
  /\ \E err \in {0, row[w]} :
       /\ WriteBatch(w, buf[w] \cup {row[w]}, err)
       /\ wpc' = [wpc EXCEPT ![w] = IF err = 0 THEN "wgDone" ELSE "stopped"]
  /\ UNCHANGED <<loader, channels, writeWg, row, reported, group>>

(* sink.WriteRow: the row is buffered, or completes a batch that is delivered. *)
InnerWrite(w) ==
  LET batch == buf[w] \cup {row[w]}
  IN /\ wpc[w] = "write"
     /\ wpc' = [wpc EXCEPT ![w] = "wgDone"]
     /\ IF Cardinality(batch) < MaxBatchRows
        THEN /\ buf' = [buf EXCEPT ![w] = batch]
             /\ werr' = [werr EXCEPT ![w] = 0]
             /\ UNCHANGED <<stored, dropped, failed>>
        ELSE \E err \in {0, row[w]} : WriteBatch(w, batch, err)
     /\ UNCHANGED <<loader, channels, writeWg, row, reported, group>>

(* writeWg.Add(-1), before the error is offered to the result channel. *)
WgDone(w) == /\ wpc[w] = "wgDone"
             /\ writeWg' = writeWg - 1
             /\ wpc' = [wpc EXCEPT ![w] = IF werr[w] # 0 THEN "report" ELSE "recv"]
             /\ row' = [row EXCEPT ![w] = 0]
             /\ UNCHANGED <<loader, channels, werr, failed, reported, sinks, group>>

\* Mutant: an error takes the place of the one that waits in the channel.
ReportOver(w) == /\ wpc[w] = "report"
                 /\ resultCh' = werr[w]
                 /\ reported' = Append(reported, werr[w])
                 /\ wpc' = [wpc EXCEPT ![w] = "recv"]
                 /\ werr' = [werr EXCEPT ![w] = 0]
                 /\ UNCHANGED <<loader, writeCh, writeWg, row, failed, sinks, group>>

(* A non-blocking send: an error that finds the channel full is dropped. *)
Report(w) == /\ wpc[w] = "report"
             /\ resultCh' = IF resultCh = 0 THEN werr[w] ELSE resultCh
             /\ reported' = Append(reported, werr[w])
             /\ wpc' = [wpc EXCEPT ![w] = "recv"]
             /\ werr' = [werr EXCEPT ![w] = 0]
             /\ UNCHANGED <<loader, writeCh, writeWg, row, failed, sinks, group>>

Loader == WriteRow \/ Send \/ Poll \/ FlushBegin \/ FlushSinks \/ FlushEnd

Consumer(w) == Recv(w) \/ InnerWrite(w) \/ WgDone(w) \/ Report(w)

(* The loader is done: nothing is written or flushed any more. *)
Finished == /\ pc = "idle"
            /\ sent = NRows
            /\ UNCHANGED vars

Next == \/ Loader
        \/ \E w \in Workers : Consumer(w)
        \/ \E w \in Workers : GroupFlush(w)
        \/ Finished

Spec == Init /\ [][Next]_vars

(***************************************************************************)
(* Goroutines run when they can; inner deliveries return (FlushReturns of  *)
(* SQLSink).  The loader is not obliged to make another call.              *)
(***************************************************************************)
FairSpec == /\ Spec
            /\ WF_vars(Send) /\ WF_vars(Poll) /\ WF_vars(FlushSinks) /\ WF_vars(FlushEnd)
            /\ \A w \in Workers : WF_vars(Consumer(w)) /\ WF_vars(GroupFlush(w))

------------------------------------------------------------------------------

(* Types; the channels stay within their capacities and the WaitGroup's counter  *)
(* counts the rows queued or in the hands of a consumer.                         *)
TypeOK ==
  /\ pc \in {"idle", "send", "poll", "wait", "flush"}
  /\ sent \in 0..NRows
  /\ writeCh \in Seq(1..NRows) /\ Len(writeCh) <= Cardinality(Workers)
  /\ resultCh \in 0..NRows
  /\ writeWg = Len(writeCh) + Cardinality({w \in Workers : wpc[w] \in {"write", "wgDone"}})
               + (IF pc = "send" THEN 1 ELSE 0)
  /\ wpc \in [Workers -> {"recv", "write", "wgDone", "report"}]
  /\ row \in [Workers -> 0..NRows]
  /\ werr \in [Workers -> 0..NRows]
  /\ buf \in [Workers -> SUBSET (1..NRows)]
  /\ group \in [Workers -> {"none", "running", "ok", "error"}]
  /\ stored \subseteq 1..NRows
  /\ dropped \subseteq 1..NRows
  /\ told \in BOOLEAN
  /\ flushed \subseteq 1..NRows
  /\ failed \subseteq 1..NRows
  /\ reported \in Seq(1..NRows)
  /\ returned \in Seq([err : 1..NRows, upTo : Nat])

(* "At this time there is no running write ops, so we are safe to call         *)
(* sink.Flush() for each sink" (concurrent.go:106): an inner sink is never     *)
(* used by its consumer and by a flush goroutine at the same time.             *)
InnerSinkExclusive ==
  \A w \in Workers : group[w] = "running" => wpc[w] \notin {"write", "wgDone"}

(* Flush covers every row written before it: none is left in the channel, in   *)
(* the hands of a consumer or in the buffer of an inner sink, and no row is    *)
(* delivered twice.                                                            *)
FlushCoversAllRows ==
  /\ flushed \subseteq stored \cup dropped
  /\ stored \cap dropped = {}

(* The errors reported before the n-th error that WriteRow returned, and it. *)
UpTo(n) == IF n = 0 THEN 0 ELSE returned[n].upTo

(* Every error of an inner WriteRow is offered to the result channel. *)
FailuresAreReported ==
  \A r \in failed : (\E w \in Workers : werr[w] = r) \/ (\E n \in 1..Len(reported) : reported[n] = r)

(* Each error that WriteRow returns is the first reported since it returned     *)
(* one last, and until it does that error waits in the channel.                 *)
FirstOfEachRound ==
  /\ \A n \in 1..Len(returned) : /\ UpTo(n - 1) < UpTo(n) /\ UpTo(n) <= Len(reported)
                                 /\ returned[n].err = reported[UpTo(n - 1) + 1]
  /\ LET seen == UpTo(Len(returned))
     IN resultCh = IF seen < Len(reported) THEN reported[seen + 1] ELSE 0

(* No batch is discarded without an error: of the WriteRow that completed it,   *)
(* or of a flush goroutine, which Flush returns.                                *)
DiscardsHaveError ==
  dropped # {} => failed # {} \/ told \/ \E w \in Workers : group[w] = "error"

(* The result channel of capacity one (concurrent.go:62-66, 84-89) neither      *)
(* loses the first of the errors reported to it nor gives up its place to a     *)
(* later one: what WriteRow returns is always the first error reported since    *)
(* it returned one last.  First is meant in the order in which consumers        *)
(* report: of two that fail at about the same time the later one may report     *)
(* first, and the error of the earlier one is then what default: drops.         *)
FirstReportedIsKept == FailuresAreReported /\ FirstOfEachRound /\ DiscardsHaveError

(* Every call of WriteRow, Flush and Close returns. *)
CallsReturn == pc # "idle" ~> pc = "idle"

(* A Flush or Close that returns nil covers no row whose batch was discarded,  *)
(* unless the loader has been told of an error: "returns the first error       *)
(* encountered" (concurrent.go:92-93, 117-118).                                *)
NilFlushHidesNoError == flushed \cap dropped # {} => told
=============================================================================
