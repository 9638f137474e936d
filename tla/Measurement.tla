----------------------------- MODULE Measurement -----------------------------
(***************************************************************************)
(* pkg/measurement: the histograms that the workers of a run share with    *)
(* the goroutine that prints a tick every --interval and appends it to the *)
(* --raw-samples-file (cmd/go-tpc/misc.go), until the main goroutine       *)
(* prints the summary.                                                     *)
(*                                                                         *)
(* A histogram is known by its map and its key: map 0 is OpSumMeasurement, *)
(* map n > 0 is the OpCurMeasurement of the n-th interval, whose           *)
(* histograms remain in the hands of those who fetched them before.        *)
(* Of a histogram only the number of its samples is kept.                  *)
(***************************************************************************)
EXTENDS Naturals, Sequences, FiniteSets, Functions

CONSTANTS Workers,   \* worker goroutines
          Ops,       \* names of transactions
          MaxCalls,  \* bound: calls of Measure
          MaxTicks   \* bound: intervals that end with a tick

ASSUME MeasurementAssumption == /\ IsFiniteSet(Workers)
                                /\ IsFiniteSet(Ops) /\ Ops # {}
                                /\ MaxCalls \in Nat
                                /\ MaxTicks \in Nat

VARIABLES count,     \* samples per map and key
          ops,       \* keys per map
          current,   \* the interval that is open
          pc,        \* workers: "idle", "lookup", "create", "record", "ended"
          key,       \* the key a worker records under
          total,     \* it has done with the interval and turns to map 0
          ref,       \* the map of the histogram it has found
          tpc,       \* ticker goroutine: "wait", "open", "rows" or "ended"
          unread,    \* keys of the detached interval not yet written
          writer,    \* the raw-samples file is open
          file,      \* its content: per tick the interval and a row per key
          mpc,       \* main goroutine: "wait", "stop", "done" or "failed"
          cancelled, \* outputCtx is done
          summary,   \* rows of the final summary
          calls,     \* history: calls of Measure, per key
          seen,      \* history: operations with a returned call when an interval opened
          between    \* history: operations with a call between the maps at that time

worker == <<pc, key, total, ref>>
ticker == <<tpc, unread, writer, file>>
main == <<mpc, cancelled, summary>>
vars == <<count, ops, current, worker, ticker, main, calls, seen, between>>

(* An operation that ends with an error has a key of its own, op ++ "_ERR". *)
Keys == Ops \X {"ok", "error"}
Twin(k) == <<k[1], IF k[2] = "ok" THEN "error" ELSE "ok">>
Maps == 0..(MaxTicks + 1)

Init == /\ count = [n \in Maps |-> [k \in Keys |-> 0]]
        /\ ops = [n \in Maps |-> {}]
        /\ current = 1
        /\ pc = [w \in Workers |-> "idle"]
        /\ key = [w \in Workers |-> CHOOSE k \in Keys : TRUE]
        /\ total = [w \in Workers |-> FALSE]
        /\ ref = [w \in Workers |-> 0]
        /\ tpc = "wait"
        /\ unread = {}
        /\ writer = FALSE
        /\ file = <<>>
        /\ mpc = "wait"
        /\ cancelled = FALSE
        /\ summary = <<>>
        /\ calls = [k \in Keys |-> 0]
        /\ seen = [n \in Maps |-> {}]
        /\ between = [n \in Maps |-> {}]

(* Calls of Measure that have not yet recorded in both maps. *)
Pending(k) == {w \in Workers : pc[w] \in {"lookup", "create", "record"} /\ key[w] = k}

(* Operations, with either status, of the calls that have returned. *)
Returned == {k \in Keys : \/ calls[k] > Cardinality(Pending(k))
                          \/ calls[Twin(k)] > Cardinality(Pending(Twin(k)))}

(* Operations, with either status, of a call that has its histogram of the
   interval, and not yet that of the sum: between the two calls of getHist. *)
HasIntervalOnly(w) == \/ pc[w] = "record" /\ ~total[w]
                      \/ pc[w] \in {"lookup", "create"} /\ total[w]

BetweenMaps == {k \in Keys : \E w \in Workers : HasIntervalOnly(w) /\ key[w] \in {k, Twin(k)}}

------------------------------------------------------------------------------
(* The workers. *)

Measure(w) == /\ pc[w] = "idle"
              /\ SumFunction(calls) < MaxCalls
              /\ \E k \in Keys : /\ key' = [key EXCEPT ![w] = k]
                                 /\ calls' = [calls EXCEPT ![k] = @ + 1]
              /\ total' = [total EXCEPT ![w] = FALSE]
              /\ pc' = [pc EXCEPT ![w] = "lookup"]
              /\ UNCHANGED <<count, ops, current, ref, ticker, main, seen, between>>

(* The map that opMeasurementLocked returns; it is asked again under each lock. *)
MapOf(w) == IF total[w] THEN 0 ELSE current

Found(w) == /\ ref' = [ref EXCEPT ![w] = MapOf(w)]
            /\ pc' = [pc EXCEPT ![w] = "record"]
            /\ UNCHANGED <<count, ops, current, key, total, ticker, main, calls, seen, between>>

(* getHist under the read lock. *)
LookupHit(w) == /\ pc[w] = "lookup"
                /\ key[w] \in ops[MapOf(w)]
                /\ Found(w)

LookupMiss(w) == /\ pc[w] = "lookup"
                 /\ key[w] \notin ops[MapOf(w)]
                 /\ pc' = [pc EXCEPT ![w] = "create"]
                 /\ UNCHANGED <<count, ops, current, key, total, ref, ticker, main, calls, seen, between>>

(* getHist under the write lock: somebody else may have been faster. *)
CreateHit(w) == /\ pc[w] = "create"
                /\ key[w] \in ops[MapOf(w)]
                /\ Found(w)

(* The new histogram replaces one the map may hold. *)
PutNew(w) == /\ count' = [count EXCEPT ![MapOf(w)][key[w]] = 0]
             /\ ops' = [ops EXCEPT ![MapOf(w)] = @ \cup {key[w], Twin(key[w])}]
             /\ ref' = [ref EXCEPT ![w] = MapOf(w)]
             /\ pc' = [pc EXCEPT ![w] = "record"]
             /\ UNCHANGED <<current, key, total, ticker, main, calls, seen, between>>

\* Mutant: getHist does not look again under the write lock.
CreateAnyway(w) == pc[w] = "create" /\ PutNew(w)

\* Mutant: the key is created without its twin.
CreateAlone(w) == /\ pc[w] = "create"
                  /\ key[w] \notin ops[MapOf(w)]
                  /\ count' = [count EXCEPT ![MapOf(w)][key[w]] = 0]
                  /\ ops' = [ops EXCEPT ![MapOf(w)] = @ \cup {key[w]}]
                  /\ ref' = [ref EXCEPT ![w] = MapOf(w)]
                  /\ pc' = [pc EXCEPT ![w] = "record"]
                  /\ UNCHANGED <<current, key, total, ticker, main, calls, seen, between>>

CreateNew(w) == /\ pc[w] = "create"
                /\ key[w] \notin ops[MapOf(w)]
                /\ PutNew(w)

\* Mutant: the histogram is fetched again, without a lookup, when the sample is recorded.
RecordInOpenMap(w) == /\ pc[w] = "record"
                      /\ count' = [count EXCEPT ![MapOf(w)][key[w]] = @ + 1]
                      /\ total' = [total EXCEPT ![w] = TRUE]
                      /\ pc' = [pc EXCEPT ![w] = IF total[w] THEN "idle" ELSE "lookup"]
                      /\ UNCHANGED <<ops, current, key, ref, ticker, main, calls, seen, between>>

(* Histogram.Measure, under the histogram's own lock: first in the interval,
   then in the sum. *)
Record(w) == /\ pc[w] = "record"
             /\ count' = [count EXCEPT ![ref[w]][key[w]] = @ + 1]
             /\ total' = [total EXCEPT ![w] = TRUE]
             /\ pc' = [pc EXCEPT ![w] = IF total[w] THEN "idle" ELSE "lookup"]
             /\ UNCHANGED <<ops, current, key, ref, ticker, main, calls, seen, between>>

WorkerEnds(w) == /\ pc[w] = "idle"
                 /\ pc' = [pc EXCEPT ![w] = "ended"]
                 /\ UNCHANGED <<count, ops, current, key, total, ref, ticker, main, calls, seen, between>>

------------------------------------------------------------------------------
(* The goroutine of the ticker: Output(false). *)

Detach(keys) == /\ tpc = "wait"
                /\ current <= MaxTicks
                /\ unread' = ops[current]
                /\ current' = current + 1
                /\ ops' = [ops EXCEPT ![current + 1] = keys]
                /\ seen' = [seen EXCEPT ![current + 1] = Returned]
                /\ between' = [between EXCEPT ![current + 1] = BetweenMaps]
                /\ tpc' = "open"
                /\ UNCHANGED <<count, worker, writer, file, main, calls>>

\* Mutant: the next interval starts with an empty map.
TakeUnseeded == Detach({})

(* takeCurMeasurement: the next interval starts with every operation of the sum. *)
Take == Detach(ops[0])

AddTick(rows) == /\ writer' = TRUE
                 /\ file' = Append(rows, [interval |-> current - 1, rows |-> <<>>])
                 /\ tpc' = "rows"
                 /\ UNCHANGED <<count, ops, current, worker, unread, main, calls, seen, between>>

(* openRawWriterLocked: os.Create empties a file that exists. *)
CreateFile == /\ tpc = "open"
              /\ ~writer
              /\ AddTick(<<>>)

CreateFileFails == /\ tpc = "open"
                   /\ ~writer
                   /\ tpc' = "wait"
                   /\ unread' = {}
                   /\ UNCHANGED <<count, ops, current, worker, writer, file, main, calls, seen, between>>

FileIsOpen == /\ tpc = "open"
              /\ writer
              /\ AddTick(file)

WithRow(rows, k, n) == [j \in DOMAIN rows \cup {k} |-> IF j = k THEN n ELSE rows[j]]

(* GetInfo and the row of one key; samples may still arrive in its histogram. *)
AppendRow(k) ==
    /\ tpc = "rows"
    /\ k \in unread
    /\ unread' = unread \ {k}
    /\ file' = [file EXCEPT ![Len(file)].rows = WithRow(@, k, count[current - 1][k])]
    /\ UNCHANGED <<count, ops, current, worker, tpc, writer, main, calls, seen, between>>

TickDone == /\ tpc = "rows"
            /\ unread = {}
            /\ tpc' = "wait"
            /\ UNCHANGED <<count, ops, current, worker, unread, writer, file, main, calls, seen, between>>

TickerEnds == /\ tpc = "wait"
              /\ cancelled
              /\ tpc' = "ended"
              /\ UNCHANGED <<count, ops, current, worker, unread, writer, file, main, calls, seen, between>>

------------------------------------------------------------------------------
(* The main goroutine. *)

WorkersEnded == \A w \in Workers : pc[w] = "ended"

Stop == /\ mpc = "wait"
        /\ WorkersEnded
        /\ mpc' = "stop"
        /\ cancelled' = TRUE
        /\ UNCHANGED <<count, ops, current, worker, ticker, summary, calls, seen, between>>

(* Freeze and Output(true), which closes the raw-samples file. *)
PrintSummary == /\ mpc' = "done"
                /\ summary' = [k \in ops[0] |-> count[0][k]]
                /\ writer' = FALSE
                /\ UNCHANGED <<count, ops, current, worker, tpc, unread, file, cancelled, calls, seen, between>>

\* Mutant: main does not wait for the ticker's goroutine.
ReportAtOnce == mpc = "stop" /\ PrintSummary

Report == /\ mpc = "stop"
          /\ tpc = "ended"
          /\ PrintSummary

(* A worker's error ends the command without a summary; the file stays open. *)
ReturnError == /\ mpc = "stop"
               /\ tpc = "ended"
               /\ mpc' = "failed"
               /\ UNCHANGED <<count, ops, current, worker, ticker, cancelled, summary, calls, seen, between>>

Deadline == /\ ~cancelled
            /\ cancelled' = TRUE
            /\ UNCHANGED <<count, ops, current, worker, ticker, mpc, summary, calls, seen, between>>

Finished == /\ mpc \in {"done", "failed"}
            /\ UNCHANGED vars

Worker(w) == \/ Measure(w) \/ LookupHit(w) \/ LookupMiss(w) \/ CreateHit(w) \/ CreateNew(w)
             \/ Record(w) \/ WorkerEnds(w)

Ticker == \/ Take \/ CreateFile \/ CreateFileFails \/ FileIsOpen
          \/ (\E k \in Keys : AppendRow(k)) \/ TickDone \/ TickerEnds

Next == \/ \E w \in Workers : Worker(w)
        \/ Ticker
        \/ Stop \/ Report \/ ReturnError \/ Deadline \/ Finished

Spec == Init /\ [][Next]_vars

------------------------------------------------------------------------------
(* Properties. *)

(* The histograms, the ticker's file and the workers have their types, and
   counts exist only under keys of their map (measure.go:26-50). *)
TypeOK == /\ count \in [Maps -> [Keys -> Nat]]
          /\ ops \in [Maps -> SUBSET Keys]
          /\ \A n \in Maps, k \in Keys : count[n][k] > 0 => k \in ops[n]
          /\ current \in 1..(MaxTicks + 1)
          /\ pc \in [Workers -> {"idle", "lookup", "create", "record", "ended"}]
          /\ key \in [Workers -> Keys]
          /\ total \in [Workers -> BOOLEAN]
          /\ ref \in [Workers -> Maps]
          /\ tpc \in {"wait", "open", "rows", "ended"}
          /\ unread \subseteq Keys
          /\ writer \in BOOLEAN
          /\ \A t \in DOMAIN file : file[t].interval \in 1..MaxTicks
          /\ mpc \in {"wait", "stop", "done", "failed"}
          /\ cancelled \in BOOLEAN
          /\ calls \in [Keys -> Nat]
          /\ seen \in [Maps -> SUBSET Keys]
          /\ between \in [Maps -> SUBSET Keys]

(* Every call of Measure is counted once in the sum, although workers create
   the histograms while others fetch them (measure.go:110-118): what is not
   there belongs to calls that have not returned. *)
SumIsExact == \A k \in Keys : calls[k] = count[0][k] + Cardinality(Pending(k))

(* The summary counts every call of the run (misc.go:340-366, tpcc.go:120). *)
SummaryIsComplete == mpc = "done" => \A k \in Keys : IF k \in DOMAIN summary THEN summary[k] = calls[k]
                                                     ELSE calls[k] = 0

SummaryIsExact == SumIsExact /\ SummaryIsComplete

Written(t) == t < Len(file) \/ tpc # "rows"

(* "Each operation the same set of rows in every tick from the one it first
   appears in" (measure.go:134-136; likewise 217-218), measured or not, with one
   exception, which the comments do not make.  A call that has created its
   histograms in the interval and not yet those of the sum (measure.go:122-123)
   while the tick detaches that interval leaves the next one without them: the
   operation has rows in one tick and may have none in the next. *)
RowsFromFirstTick == \A t, u \in DOMAIN file :
    t < u /\ Written(u) => DOMAIN file[t].rows \subseteq DOMAIN file[u].rows \cup between[file[u].interval]

(* "A row for every operation seen so far" (measure.go:216-218), where an
   operation is seen when a call of Measure has returned, wherever its sample
   went: it has its two rows in the tick of each interval that opens later. *)
ReturnedHaveRows == \A t \in DOMAIN file :
    Written(t) => /\ seen[file[t].interval] \subseteq DOMAIN file[t].rows
                  /\ \A k \in DOMAIN file[t].rows : Twin(k) \in DOMAIN file[t].rows

(* No sample is in two ticks: what the rows of a key add up to was measured. *)
NoSampleTwice == \A k \in Keys :
    LET reporting == {t \in DOMAIN file : k \in DOMAIN file[t].rows}
    IN SumFunction([t \in reporting |-> file[t].rows[k]]) <= calls[k]

SeriesIsComplete == RowsFromFirstTick /\ ReturnedHaveRows /\ NoSampleTwice

(* The raw-samples file loses no row, in particular not because a tick that is
   late opens it anew after the summary has closed it (measure.go:252-296). *)
FileOnlyGrows ==
    [][\A t \in DOMAIN file : \A k \in DOMAIN file[t].rows :
          /\ t \in DOMAIN file' /\ k \in DOMAIN file'[t].rows
          /\ file'[t].rows[k] = file[t].rows[k]]_vars
==============================================================================
