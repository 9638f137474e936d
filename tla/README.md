# go-tpc in TLA+

This directory is a verification development of go-tpc, a load generator that
runs TPC-C, TPC-H, CH-benCHmark and raw SQL workloads against MySQL- and
PostgreSQL-compatible databases. Modules are checked with TLC on small
instances; the results that matter most are proved with TLAPS for every value
of the constants.

## 1. Inventory

### Components, their state, their operations

| Component | Code | State | Operations |
|---|---|---|---|
| SQL sink | `pkg/sink/sql.go`, `pkg/sink/sqlstate.go` | batch buffer, number of buffered rows; per flush: attempt counter, `outcomeUnknown` | `WriteRow`, `Flush`, `Close`, `execWithRetry`, `classifyFailure` |
| Concurrent sink | `pkg/sink/concurrent.go` | write channel, result channel (capacity 1), `writeWg`, one consumer goroutine and one inner sink per worker | `WriteRow`, `Flush`, `Close`, consumer loop |
| CSV sink | `pkg/sink/csv.go` | a `csv.Writer` | `WriteRow`, `Flush`, `Close` |
| TPC-H loaders | `tpch/loader.go` | a concurrent sink per table | `Load`, `Flush` |
| TPC-C transactions | `tpcc/new_order.go`, `payment.go`, `delivery.go`, `order_status.go`, `stock_level.go`, `procs_pg.go` | the nine tables; per worker: the open transaction | the five transactions, in SQL statements or as PL/pgSQL procedures |
| TPC-C consistency check | `tpcc/check.go` | none | conditions 1 to 12 |
| TPC-C load | `tpcc/load.go`, `prepare.go`, `csv.go`, `ddl.go`, `analyze.go` | the tables, progress counter, `createTableWg` | create, drop, load, partition, analyze |
| TPC-C worker | `tpcc/workload.go`, `pkg/workload/base.go` | per thread: pinned connection, prepared statements, transaction deck | `InitThread`, `Prepare`, `Run`, `Check`, `CleanupThread`, `RefreshConn` |
| Run loop | `cmd/go-tpc/misc.go` | per thread: execution count, consecutive failures; shared contexts | `executeWorkload`, `execute`, `runLoop`, `runTransaction`, `backoffDelay`, `checkPrepare`, `analyzePrepared` |
| Commands | `cmd/go-tpc/main.go`, `tpcc.go`, `tpch.go`, `ch_benchmark.go`, `rawsql.go` | global contexts, the multi-host driver's counter | open database, signal handling, one command per workload |
| Connection admission | `pkg/connadmit/connadmit.go` | counters, per-connect rejections | `Connect`, `admit`, `record`, `Stats` |
| Measurement | `pkg/measurement/measure.go`, `hist.go` | two maps of histograms, warm-up window, freeze flag, raw samples | `Measure`, `Output`, `SetWindow`, `Freeze`, `takeCurMeasurement` |
| Read-only workloads | `tpch/workload.go`, `tpch/check.go`, `ch/workload.go`, `rawsql/workload.go` | per thread: connection, query index | `Run` with one retry on a fresh connection, answer check |
| Plan replayer | `pkg/plan-replayer/replayer.go` | zip writer under a mutex | `Prepare`, `Dump`, `Finish` |
| Utilities | `pkg/util/*` | throttle timestamp, progress counters, allocation buffer | `LogThrottle.Allow`, `ProgressTracker`, `BufAllocator` |
| TPC-H data generator | `tpch/dbgen/**` | random streams | deterministic row generation |

### How they interact

A command opens a pool (through the admission connector), builds a workload and
calls `executeWorkload`, which starts one goroutine per thread. Each thread asks
the workload for a state (`InitThread`), then prepares, runs, checks or cleans
up. `prepare` writes rows through SQL sinks (TPC-C: one per table and thread;
TPC-H: one concurrent sink per table, with several SQL sinks behind it). `run`
loops over transactions; every outcome is recorded by the measurement, which a
ticker goroutine reads concurrently. The threads meet only in the database, in
the shared measurement maps, in `createTableWg`, in the admission counters and
in the contexts that signals and timeouts cancel.

### What is hard, and what must hold

* **Retries of inserts whose outcome is unknown** (SQL sink): an acknowledged
  batch is stored, as a whole, once; a duplicate key is blamed on other data only
  if other data holds the key; every flush returns.
* **Channel, wait group and result channel** (concurrent sink): inner sinks are
  never used by two goroutines; a flush waits for all queued rows; an error
  reaches the caller.
* **Interleaved transactions under row locks** (TPC-C): the twelve consistency
  conditions survive any interleaving, roll-back and lost commit answer; no
  update is lost; only new-order transactions can deadlock.
* **Connection and statement life cycle** (worker, run loop): a broken
  connection is replaced and its statements prepared again; a failed transaction
  is counted and backed off; limits on time and count end the run.
* **Start-up barrier** (prepare): all threads wait for the tables; a failure of
  one thread must end the command.
* **Concurrent measurement**: a sample is counted once in the total; an
  operation, once seen, appears in every tick (the code keeps this only for
  operations of which a call has returned).
* **Admission**: a connection is used only if its session state is the right one;
  rejections are bounded.

## 2. Plan and status

| | Modules | Runs | Proofs | Status |
|---|---|---|---|---|
| 1 | `BatchDelivery` (abstract), `SQLSink` | `sqlsink`, `sqlsink_history` | `SQLSinkProofs` | checked, safety proved |
| 2 | `ConcurrentSink`, each inner sink seen as `BatchDelivery` | `concurrent`, `concurrent_lost` | `ConcurrentSinkProofs` | checked, safety proved |
| 3 | `TPCCTables`, `TPCCSerial` (abstract), `TPCC`, `TPCCChecks` | `tpcc` | `TPCCProofs` | checked, safety proved |
| 4 | `Worker`, `Queries` on top of it | `worker`, `worker_stuck` | `WorkerProofs` | checked, safety proved |
| 5 | `Prepare` with `Partitions`, `TPCHPrepare` on top of it with `DbGen` | `prepare`, `prepare_stuck`, `tpch_lost` | `PrepareProofs` | checked, safety proved |
| 6 | `Measurement` | `measurement` | `MeasurementProofs` | checked, safety proved |
| 7 | `ConnAdmit` | `conn_admission` | `ConnAdmitProofs` | checked, safety proved |

Every safety property that a passing run checks is a theorem; the liveness
properties are left to TLC (see 5).

## 3. Conventions

A module `M` has its sizes as CONSTANTS with one named assumption; `MCM` gives
values to them for TLC, and a `.cfg` selects them. An action is a step of the
code between two points where another goroutine, the server or the environment
can interfere; a call of the server happens when it returns. A definition that
begins with the comment "Mutant" is not used by the model: it is a plausible
error of the code, kept beside the definition it is an error in, and each
property of a passing run is known to fail under one of them.

The server is outside the repository. It is modelled from what the code expects
of it: a statement is executed as a whole or not at all, keys are unique, row
locks are held until the transaction ends, a connection can be lost at any time
with or without the effect of the statement.

## 4. Modules and runs

### BatchDelivery and SQLSink (`pkg/sink/sql.go`, `sqlstate.go`)

`BatchDelivery` is what a loader relies on: rows are accepted, stored in whole
batches, and judged; an accepting verdict means that the batch is stored.

`SQLSink` is the code. `buf` is the row buffer, `attempt` and `unknown` are the
locals `i` and `outcomeUnknown` of `execWithRetry`, `pc` says whether an attempt
is out or the pause between two attempts runs, and `results` what each `Flush`
returned. The server's side of an attempt is `request`; an attempt whose answer
was lost becomes an element of `orphans`, which the server may still commit or
drop at any later time. `classifyFailure` sorts errors by class and not by
code: the classes that matter are those the function separates, and for MySQL
all but one fall together, as in the code.

* `sqlsink` (three rows, batches of two, two retries, PostgreSQL). Two batches
  and three attempts are enough for each hazard: a late commit of the first
  attempt during the second or of a batch already given up, a batch after a
  failed one, and a late answer of an earlier class that changes the flag
  between attempts. `BatchesWhole`: acknowledged batches are stored and none is
  stored in part. `DuplicateReportIsReal`: no duplicate key is reported for the
  sink's own rows. `ImplementsDelivery`: `SQLSink` implements `BatchDelivery`.
  `FlushReturns`.
* `sqlsink_history` must fail: table `history` has no key, so a retry after a
  lost answer stores a batch twice.

Fairness: the sink's goroutine runs, and the server answers or the connection
breaks. Nothing is assumed about the loader or about cancellation.

### ConcurrentSink (`pkg/sink/concurrent.go`)

The loader (`pc`), the two channels, `writeWg`, one consumer per inner sink
(`wpc`, `row`, `werr`), and the goroutines of the flush group (`group`). Inner
sinks are `BatchDelivery`: a full batch is stored or dropped, with an error. An
error is known by the row whose inner `WriteRow` returned it; `failed`, `reported`
and `returned` are histories of the errors that occurred, that consumers offered
to the result channel, and that `WriteRow` returned.

* `concurrent` (two consumers, batches of two, six rows; so the write channel
  fills up, both sinks are left with a partial batch at a flush, and three
  batches can fail: an error meets a full result channel, and `WriteRow` returns
  an error after another one). `InnerSinkExclusive` is the comment at
  concurrent.go:106; `FlushCoversAllRows`, `CallsReturn`. `FirstReportedIsKept`:
  what `WriteRow` returns is always the first error reported since it returned
  one last, and a later one does not take its place in the channel. First means
  first reported: when two consumers fail at about the same time and the later
  one reports first, the earlier error is what `default:` drops.
* `concurrent_lost` must fail: an error that reaches the result channel after
  the last `WriteRow` has polled it is never returned by `Flush` or `Close`.

Fairness: each goroutine runs when it can, and an inner delivery returns, which
is `FlushReturns` of the module it stands for.

### TPCCTables, TPCC, TPCCSerial, TPCCChecks (`tpcc/`)

`TPCCTables` has the nine tables as functions of their keys, the loaded state,
and the effect of each transaction. `TPCC` interleaves the statements of
NEW-ORDER, PAYMENT and DELIVERY: `held` are the rows a worker has locked, the
other variables what its transaction has read. Writes become visible at COMMIT;
what a statement before it does is lock, read and choose. The answer of a COMMIT
can be lost, with or without its effect. Workers in `StoredProcs` call the
procedures of `procs_pg.go`, whose DELIVERY finishes a district before it goes
to the next. `TPCCSerial` runs each transaction in one step. `TPCCChecks` are
the twelve conditions of `tpcc/check.go`, with the NULLs their joins produce.

* `tpcc` (three workers, one of which calls procedures; two warehouses with two
  districts, one customer per district and one item; three transactions). Three
  workers are the fewest that can form a circle of waits and have a bystander;
  two districts make DELIVERY loop; three transactions let an order be placed
  and delivered while another is placed. Two warehouses let orders take stock of
  the other one and a customer pay away from home, so that transactions of
  different warehouses meet. `OrdersNumbered`, `OrdersDelivered`,
  `OnlyStockDeadlocks`, `ChecksPass` (in every state, because writes appear at
  commit), `NothingLost` (sums over tables that different transactions write),
  `ImplementsSerial`, `TransactionsEnd`.

Amounts are distinct small numbers, so that a lost or doubled update changes
every sum. The inputs include orders of one and of two stock rows, in both
districts, and one that rolls back at its last item.

Fairness: a statement that is not waiting for a lock is answered, locks are
granted in order, and the server breaks deadlocks; a worker need not begin a
transaction.

### Worker and Queries (`cmd/go-tpc/misc.go`, `pkg/workload/base.go`, `tpcc/workload.go`; `tpch/`, `ch/`, `rawsql/workload.go`, `pkg/plan-replayer`)

A run of the command with its goroutines. `pc` follows a worker through `runLoop`
and `Run`; `conn`, `held` and `stmts` are its pinned connection, how many it has
out of the pool, and whether `stmtsReady` vouches for statements of this
connection; `procs` is `installProcsOnce` with its error; `expired` the timeout of
the transaction; `ctx` the benchmark context; `errCh`, `ticker` and `command` what
`executeWorkload` waits for. A transaction is an outcome: commit, conflict, lost
connection, timeout, another error. `Queries` adds `Run` of the workloads that
send queries: the dump of a plan under the replayer's mutex, the query, its one
retry on a fresh connection, and the rows; the loop around it is the same.
`flags` is the command line: it is chosen in the initial state and stays, so one
run covers several.

* `worker` (two workers, seven command lines, one break of a connection or an
  outage of the server with recovery, at any time). Transactions with statements,
  timeouts and automatic refresh; stored procedures with a count of three, which
  does not divide; errors ignored without timeout; queries of TPC-H,
  CH-benCHmark and raw SQL, with plans dumped, with timeouts, with a count and
  with an archive that could not be created. One break is enough to hit each
  step, because connections can also be lost by timeouts, of which there is no
  bound. `StatementsAreCurrent`, `ConnectionsReturned`, `GivesUpForCause`,
  `CommandReportsErrors`, `CountRespected`, `RunEnds`, `OutagesHeal`.
* `worker_stuck` must fail: without automatic refresh a worker whose connection
  breaks before its statements are prepared loops without executing anything.

Fairness is split by who grants it. `Fairness`, with its counterpart for queries
in `RunsFairSpec`, is what the client has: goroutines run, timers fire, and a
call returns once its context is done; with it and `--txn-timeout` the command
stops (`RunEnds`). The replayer's HTTP request has no timeout, so nothing is
assumed of it there and `RunEnds` excludes it. The strong fairness of
`IntervalPasses` says that a loop which backs off after each failure does not fit
infinitely often into one refresh interval. That the server answers and comes
back is assumed only where a property says so (`ServerAnswers`,
`QueriesAnswered`, in `OutagesHeal`) and in `AnsweringSpec` of `worker_stuck`.

What the code does not guarantee is left out of the properties and listed as a
hazard: a count below the number of threads, conflicts inside stored procedures,
timeouts while statements are prepared, a deadline before the first connection.

### Prepare, Partitions, TPCHPrepare, DbGen (`cmd/go-tpc/misc.go`, `tpcc/prepare.go`, `load.go`, `csv.go`, `ddl.go`, `check.go`; `tpch/`, `tpch/dbgen/`)

The threads of `prepare`, with `i` and `k` for a thread's loop variable and the
table it loads for it, `arrived` for `createTableWg`, `tables` for the schema,
`rows` for what each load has left in the database and `files` for what it has
left in a thread's file; then ANALYZE and the checks. A load is one step, which
succeeds, or fails after some of its batches; the server rejects it if its keys
are taken, if a row belongs in no partition or, with foreign keys, if a row it
references is missing. `Partitions` is the clause that `appendPartition` writes,
for each of its four types: the server refuses an ill-formed one. `flags` again
chooses the command line, and with it the server and what an earlier prepare has
left. `createTables` differs between the servers: tables that exist are kept by
both, and a foreign key that exists is an error on both; for MySQL the indexes
belong to the tables and the tables may be in partitions; for PostgreSQL `create
index` is a statement of its own, which fails over tables left over (ddl.go 485,
504, 507, 541), and `--partitions` has no effect.

`TPCHPrepare` gives the first thread the prepare of TPC-H and CH-benCHmark: table
after table is generated into a `ConcurrentSink`, and an error is seen only if it
comes back before the table ends and its loader does not drop it. `DbGen` is what
dbgen computes that rows rely on: sparse order keys, customers that have orders,
the four suppliers of a part, dates and their calendar, remarks in comments, and
the advance of the random streams with `nthElement`.

* `prepare`: twenty-one command lines. More threads than warehouses and fewer,
  one thread, left-over tables with and without `--dropdata`, foreign keys; five
  warehouses in three partitions of each type; files, of all tables and of some,
  over older files; TPC-H and CH-benCHmark; PostgreSQL with an empty database,
  with tables that are dropped or are not, and to files over tables left over. One failing statement anywhere, a
  deadline or a signal at any time. Two districts per warehouse keep `/` and `%`
  apart. `PhasesInOrder` is the barrier and the arithmetic of the shares,
  `EachWarehouseChecked` that of the checks, `FailsForCause` says that threads
  do not disturb each other: its causes are the server, the end of the
  benchmark, foreign keys, and tables left over in the database that rows go to
  or, on PostgreSQL, that TPC-C creates tables in, were it only to write files;
  and `ReturnsOnceCreated` that nobody waits for a thread that has failed after
  the barrier. `RowsBelongTogether` and `RowsInStep` are
  evaluated when a table is about to be generated, on its first and last forty
  rows at scale factor 1, since a key range is left at its ends first. The
  streams use a generator modulo 31 in place of 2^31 - 1, so that each of its
  elements occurs.
* `prepare_stuck` must fail: a thread 0 that fails before the barrier is waited
  for for ever.
* `tpch_lost` must fail: the error of a table's last flush is dropped, and
  prepare succeeds with rows missing.

Fairness: goroutines run and statements end; no signal is sure to come.

### Measurement (`pkg/measurement`, `cmd/go-tpc/misc.go`)

`count` and `ops` are the histograms and the keys of the maps: map 0 the sum, the
others the intervals, of which `current` is the one `opCurMeasurement` points to.
`Measure` is as many steps as its code has critical sections: `getHist` looks a
key up under the read lock, creates it under the write lock after looking again,
and the histogram is recorded into later, when a tick may have detached it. The
ticker takes the interval's map and writes the raw-samples file, which it creates
with the first tick; the summary closes it. A key is an operation with its
result, and a missing twin gets an empty row.

* `measurement` (two workers, one operation with its two results, three calls,
  two ticks): two workers race for the creation, two ticks separate a sample from
  the interval its histogram was fetched in, and the third call follows both.
  `SummaryIsExact`, `FileOnlyGrows`; and `SeriesIsComplete`: no sample is in two
  ticks; an operation has its rows in every tick from the first it appears in,
  measured or not (`RowsFromFirstTick`), and at the latest in those of intervals
  that open after a call of it has returned (`ReturnedHaveRows`).

The code does not quite do what its comments say ("each operation the same set of
rows in every tick from the one it first appears in", measure.go:134-136; likewise
217-218). `measure` calls `getHist` for the interval (line 122) and then for the sum
(line 123). A tick that detaches the interval in between writes rows of the
operation, and seeds the next interval from a sum that does not have it: the next
tick may have no row of it. `RowsFromFirstTick` makes this one exception:
`between[n]` has the operations with a call at that place when interval `n` opened.
Without the exception TLC finds the property violated on the same bounds: tick 1 has
the two rows of the operation and tick 2 has none.

### ConnAdmit (`pkg/connadmit`)

Callers of the pool: `pool` are idle connections, reused without a verdict;
`Connect` opens, judges and keeps or closes, at most `MaxRejections` times;
`verdict` remembers what the predicate said and `stats` is the record under the
Admitter's mutex.

* `conn_admission` (two callers, at most two rejections, three calls of
  `Connect`): a rejected connection next to one another caller keeps, a budget
  that is used up, and a connection returned and reused. `OnlyAdmittedUsed`,
  `RecordAgrees`. Callers may stop asking, so the run allows a deadlock.

## 5. Proofs

All theorems hold for every value of the constants that satisfies the named
assumption of the module; TLC evaluates each assumption in the runs. Each proof
module has an inductive invariant `IInv`, one lemma per part of it that every
step keeps the part, and theorems that follow from it.

* `SQLSinkProofs`, for any rows, batch size, number of retries and either
  driver: types; and, for a table with a key that starts without the sink's rows,
  `BatchesWhole`, `DuplicateReportIsReal` and the refinement of `BatchDelivery`.
  The invariant has to say what `outcomeUnknown` knows: while it is false, no row
  of the current batch is in the table and no orphan carries that batch. From
  that follows that a duplicate key under `unknown` can only be the sink's own
  batch, as a whole. The assumption on the table is the one the comment in
  `execWithRetry` makes.
* `ConcurrentSinkProofs`, for any number of sinks, rows and batch size: types
  with the capacities of the channels, `InnerSinkExclusive`,
  `FlushCoversAllRows`, `FirstReportedIsKept`. The invariant counts: `writeWg` is
  the rows in the channel plus those in a consumer's hands, so at zero every
  row is in a sink; and each row is in exactly one place. The order in which errors
  are reported and returned is inductive as it stands, with the fact that a consumer
  has an error exactly while it is about to report one.
* `TPCCProofs`, for any workers and inputs, any number of warehouses, districts,
  customers and items. The invariant says, per worker, what its locks protect: the
  number an order has read is still the district's next, the quantities it has
  computed are still those of the stock rows, and each order a delivery has picked
  is locked, undelivered and the oldest of its district. Locks are exclusive
  (`LockInv`); a step changes only what its worker has locked, so the others keep
  their part (`OthersKeepInv`). From it follow the types, `OrdersNumbered`,
  `OrdersDelivered`, and that `TPCC` implements `TPCCSerial`.
  * `OnlyStockDeadlocks` needs the locks bounded from above as well (`LocksInv`):
    a row of a kind is held only after the statement that locks that kind, and a
    delivery holds nothing but what it has picked. In a circle of waits
    nobody waits for a customer as a delivery: the other one would have picked the
    same order, the oldest of the district, which one worker only can hold. Nobody
    waits for a new order: who holds it is a delivery further on in its loop, and
    the last district has none after it. So no payment waits for its customer, nor
    for its warehouse. Who is left waits for a district, which an order at its stock
    rows holds, or is such an order, and waits for another one.
  * `NothingLost` and `ChecksPass` need `BooksInv`, which has the sums over all
    rows that the twelve conditions compare, also where a condition is vacuous (a
    customer without deliveries, a district without new orders), that an order has
    as many lines as it says, and that numbers of new orders lie above those
    delivered by the load. Each commit changes one term of a sum, or adds one
    (`PaymentSums`, and the lemmas of `SumTheorems`).
* `WorkerProofs`, for any workers, command lines and number of breaks, over
  `RunsSpec`: types, `StatementsAreCurrent`, `ConnectionsReturned`,
  `GivesUpForCause`, `CommandReportsErrors`, `CountRespected`. The invariant ties
  `held` to the pinned connection, makes the installing worker unique, and says
  where a connection that is not open comes from (a break, or a timeout); from
  that follows what can be the cause of an error that ends a worker. For
  `CountRespected` it says that a worker is in an iteration only below its share
  and has done all of it when it ends uncut; the shares add up to the largest
  multiple of the number of workers that `--count` allows.
* `PrepareProofs`, for any threads, warehouses, districts, partitions and command
  lines: `Prepare`'s types, `PhasesInOrder`, `EachWarehouseChecked`, `FailsForCause`,
  and that the partitions of all four types are ones the server takes and have a
  place for every warehouse. The invariant (`Prepared`) says what of each load is
  done, by comparing it with the place of the thread that owns it: a thread owns the
  numbers with its remainder, what lies behind it is loaded, what lies ahead is not,
  and before the barrier nothing is. Without the owner, nothing says that a row found
  in the database is not one about to be loaded, which is what `FailsForCause`
  depends on. The proof made two statements stronger: `TypeOK` bounds loop
  variables by the step a thread is at, and `Accepted` is explicit about which
  command lines of CH-benCHmark exist.
  * `RowsBelongTogether`, for every scale factor and any sample of rows: order keys are
    distinct, the customer of an order exists and is one that orders, a part has four
    different suppliers that exist, every date is in the calendar, `julian` counts
    days as `makeAscDate` does, a remark stays in its comment.
  * `RowsInStep`, for every multiplier and modulus: squaring the multiplier and
    halving n is multiplying n times (`MultipliedTwice`, `NthIsMultiplied`), and a row
    draws at most what its streams are given (`StreamsWithin`).
  * Both follow loops of dbgen, which the model has as recursive functions. That such
    a function satisfies its equation is a theorem too: each of these recursions ends
    with its call, and comes nearer to its end with every call (`TailRecursion`). What
    it computes is then shown by taking the least argument for which it would not
    (`LeastElement`), as the prover's own induction cannot be used.
* `MeasurementProofs`, for any workers, operations, calls and ticks: types,
  `SummaryIsExact`, `SeriesIsComplete`, `FileOnlyGrows`. The invariant says that a
  worker's histogram is in the map it was fetched from, so that every call is in
  the sum or pending; that the sum rests once the workers have ended; and that
  the file is empty or open until the ticker has ended, so that no tick opens it
  anew. For `SeriesIsComplete` it adds up a key's samples over the intervals: they
  are the calls made less those not recorded yet, and what the ticks have reported
  comes from different intervals; and that a key of an interval is the sum's or that
  of a call between the two maps, which it leaves only by adding the key to the sum.
* `ConnAdmitProofs`, for any callers, budget and number of calls: types with
  the budget, `OnlyAdmittedUsed`, `RecordAgrees`. The invariant adds that a caller
  that still has a connection to judge is below its budget, and counts the
  rejections of a Connect that has not returned apart from those recorded.
* `SumTheorems` has no specification: it is what the others need of sums of a
  function over a finite set (`SumFunctionOnSet` of the community modules): a sum
  takes an element out, does not depend on the order, grows with its terms. The
  prover's induction theorems cannot be used on it; where a statement is about every
  finite set, the lemma takes a set of the least cardinality for which it fails and
  removes an element.

The assumptions are those of the modules. Two were added for the proofs and hold
in the code: `Workers` is finite (`--threads` is a number), and an order line is of
one to ten pieces (`randInt(s.R, 1, 10)` in `runNewOrder`), which the arithmetic of
`s_quantity` needs. A third is about a bound of the model: `Sampled` is a set of row
numbers, which count from 1 (`DbGen` calls `genTbl` from row 1).

Only model-checked, on the bounds above:

* All liveness properties; they are beyond the prover.
* `AnalyzedWhenLoaded`, `NilFlushHidesNoError`, `KeepsWorking` and the other claims
  that the code does not keep: TLC finds them violated.

## 6. What is not modelled

The model covers the control of the program. A large part of the source is data,
and stays outside whatever is added: the expected answers (`tpch/answer.go`, more
than half of all lines), the text of the queries (`tpch/query.go`, `ch/query.go`)
and of the DDL, and the distributions and texts of dbgen.

* ORDER-STATUS and STOCK-LEVEL: they only read, without locks.
* Isolation below READ COMMITTED, gap and index locks, foreign keys during `run`.
* Keying and thinking time, the transaction deck, how long pauses last.
* What is printed; latencies, percentiles, the measurement window and warm-up,
  and errors of writing the raw-samples file after it was created.
* Whether an answer of TPC-H is right. Its check compares rounded values with an
  absolute tolerance (`tpch/check.go`), where comments speak of one per cent.
* Random values and texts, prices, and the 64-bit generator of scale factors from
  30000 on.
* The partitions of RANGE against those of LIST like RANGE: a comment in
  `tpcc/ddl.go` calls them equivalent; with four
  warehouses in three parts they differ (the last RANGE partition stays empty).
  The model has each as it is written.
* The two workloads that `ch run` runs side by side, the choice of a host, TLS,
  opening a database, flags, and the utilities.
