-------------------------------- MODULE Worker --------------------------------
(***************************************************************************)
(* The run command: executeWorkload starts one goroutine per worker; each  *)
(* runs runLoop over Run of its workload on a connection of its own        *)
(* (cmd/go-tpc/misc.go, pkg/workload/base.go).  Run of TPC-C is here       *)
(* (tpcc/workload.go), those of the workloads that send queries are in     *)
(* Queries.                                                                *)
(*                                                                         *)
(* What a transaction does to the tables is in TPCC; here it has an        *)
(* outcome.  A step that calls the server happens when the call returns.   *)
(***************************************************************************)
EXTENDS Naturals, FiniteSets, Functions

CONSTANTS Workers,   \* one goroutine each, --threads of them
          Flags,     \* the command lines to check
          MaxFaults  \* bound: connections and servers that break

Workloads == {"tpcc", "tpch", "ch", "rawsql"}

(* The command, --count (0: no limit), --txn-timeout and --conn-refresh-interval
   (0 or not), --ignore-error, --stored-procs; and the plan replayer's archive:
   not asked for, created, or asked for and not created. *)
FlagSets == [workload : Workloads, count : Nat, txnTimeout : BOOLEAN, refreshInterval : BOOLEAN,
             ignoreError : BOOLEAN, storedProcs : BOOLEAN, archive : {"none", "open", "failed"}]

ASSUME WorkerAssumption == /\ Workers # {} /\ IsFiniteSet(Workers)
                           /\ Flags \subseteq FlagSets
                           /\ MaxFaults \in Nat

VARIABLES flags,    \* the command line
          pc,       \* where a worker is, see Steps
          conn,     \* its pinned connection: "open", "broken" (the server side
                    \* is gone) or "closed" (released, and no other taken)
          held,     \* connections it has checked out of the pool
          stmts,    \* statements that stmtsReady vouches for: "none", "current"
                    \* or "replaced" (prepared on a connection it had before)
          due,      \* --conn-refresh-interval has passed since the last refresh
          expired,  \* its transaction's context, while it has one, has timed out
          iter,     \* iterations of its loop that have ended
          err,      \* error of its last Run, then of its runLoop
          procs,    \* installProcsOnce and installProcsErr
          ctx,      \* the benchmark context: "live", or what cancelled it
          up,       \* the server accepts connections
          faults,   \* breaks so far
          errCh,    \* first error in executeWorkload's channel
          ticker,   \* its goroutine that prints intermediate results
          command   \* "starting", "running", "stopping", or how the process ended

conns == <<conn, held, stmts, due>>
shared == <<procs, errCh, ticker, command>>
server == <<up, faults>>
vars == <<flags, pc, conns, expired, iter, err, shared, ctx, server>>

(* The steps of Run, to which the transaction's timeout applies; "failed" is its
   return with an error, before runLoop looks at the contexts. *)
RunSteps == {"refresh", "install", "installing", "prepare", "txn", "reconnect", "failed",
             "dump", "dumping", "query", "rows", "pause", "reopen", "requery"}
Steps == {"init", "top", "backoff", "cleanup", "done"} \cup RunSteps
Errors == {"refresh", "install", "prepare", "conflict", "connection", "timeout", "other"}

IsTpcc == flags.workload = "tpcc"

(* Where Run of the workload begins. *)
RunStart == IF IsTpcc THEN "refresh"
            ELSE IF flags.archive = "none" THEN "query" ELSE "dump"

PerWorker == flags.count \div Cardinality(Workers)
IterCap == IF flags.count = 0 THEN 0 ELSE flags.count + 1    \* iterations need no counting beyond it

Running == command = "running"
Alive == command \in {"starting", "running", "stopping"}

Init == /\ flags \in Flags
        /\ pc = [w \in Workers |-> "init"]
        /\ conn = [w \in Workers |-> "closed"]
        /\ held = [w \in Workers |-> 0]
        /\ stmts = [w \in Workers |-> "none"]
        /\ due = [w \in Workers |-> FALSE]
        /\ expired = [w \in Workers |-> FALSE]
        /\ iter = [w \in Workers |-> 0]
        /\ err = [w \in Workers |-> "nil"]
        /\ procs = "absent"
        /\ ctx = "live"
        /\ up = TRUE
        /\ faults = 0
        /\ errCh = "nil"
        /\ ticker = "running"
        /\ command = IF flags.workload \in {"tpch", "ch"} THEN "starting" ELSE "running"

------------------------------------------------------------------------------
(* Parts of the steps. *)

At(w, step) == Running /\ pc[w] = step
Goto(w, step) == pc' = [pc EXCEPT ![w] = step]

(* Run returns the error e. *)
Fail(w, e) == /\ Goto(w, "failed")
              /\ err' = [err EXCEPT ![w] = e]
              /\ UNCHANGED <<iter, expired>>

(* Run returns nil, or a failed Run has been waited for: the loop goes on. *)
NextIteration(w) == /\ Goto(w, "top")
                    /\ expired' = [expired EXCEPT ![w] = FALSE]
                    /\ iter' = [iter EXCEPT ![w] = IF @ < IterCap THEN @ + 1 ELSE @]
                    /\ err' = [err EXCEPT ![w] = "nil"]

CloseAllStmts(w) == stmts' = [stmts EXCEPT ![w] = "none"]

Pinned(w) == IF conn[w] = "closed" THEN 0 ELSE 1

\* Mutant: the old connection is not closed.
RefreshConnLeaks(w, ok) ==
    /\ ok <=> up /\ ~expired[w]
    /\ conn' = [conn EXCEPT ![w] = IF ok THEN "open" ELSE "closed"]
    /\ held' = [held EXCEPT ![w] = @ + IF ok THEN 1 ELSE 0]

\* Mutant: a connection that is closed already is returned once more.
RefreshConnReturnsTwice(w, ok) ==
    /\ ok <=> up /\ ~expired[w]
    /\ conn' = [conn EXCEPT ![w] = IF ok THEN "open" ELSE "closed"]
    /\ held' = [held EXCEPT ![w] = (@ - 1) + IF ok THEN 1 ELSE 0]

(* RefreshConn closes the connection first, then asks the pool for another;
   if the pool has none, the worker is left with a closed one. *)
RefreshConn(w, ok) ==
    /\ ok <=> up /\ ~expired[w]
    /\ conn' = [conn EXCEPT ![w] = IF ok THEN "open" ELSE "closed"]
    /\ held' = [held EXCEPT ![w] = (@ - Pinned(w)) + IF ok THEN 1 ELSE 0]

(* A cancelled call may cost the driver its connection. *)
MayBreak(w) == conn' \in {conn, [conn EXCEPT ![w] = IF @ = "open" THEN "broken" ELSE @]}

Usable(w) == conn[w] = "open" /\ stmts[w] = "current"

------------------------------------------------------------------------------
(* InitThread. *)

(* NewTpcState takes a connection under the benchmark context. *)
InitThread(w) == /\ At(w, "init")
                 /\ up /\ ctx = "live"
                 /\ conn' = [conn EXCEPT ![w] = "open"]
                 /\ held' = [held EXCEPT ![w] = 1]
                 /\ Goto(w, "top")
                 /\ UNCHANGED <<flags, stmts, due, expired, iter, err, shared, ctx, server>>

(* Without one it panics, and nobody recovers: the process dies. *)
InitPanics(w) == /\ At(w, "init")
                 /\ ~up \/ ctx # "live"
                 /\ command' = "crashed"
                 /\ UNCHANGED <<flags, pc, conns, expired, iter, err, procs, errCh, ticker, ctx, server>>

------------------------------------------------------------------------------
(* runLoop, around Run. *)

\* Mutant: every worker takes the whole count as its own.
MoreIterationsOfAll(w) == iter[w] < flags.count \/ PerWorker = 0

MoreIterations(w) == iter[w] < PerWorker \/ PerWorker = 0

\* Mutant: the benchmark context is not looked at.
TopIgnoresContext(w) == /\ At(w, "top")
                        /\ IF MoreIterations(w)
                           THEN Goto(w, RunStart)
                           ELSE Goto(w, "cleanup")
                        /\ UNCHANGED <<flags, conns, expired, iter, err, shared, ctx, server>>

(* The head of the loop: stop, or give a transaction its context. *)
Top(w) == /\ At(w, "top")
          /\ IF MoreIterations(w) /\ ctx = "live"
             THEN Goto(w, RunStart)
             ELSE Goto(w, "cleanup")
          /\ UNCHANGED <<flags, conns, expired, iter, err, shared, ctx, server>>

(* Run has returned an error.  The end of the benchmark excuses it; a timeout
   of the transaction never ends the loop, another error does unless it is to
   be ignored. *)
RunFails(w) == /\ At(w, "failed")
               /\ \/ /\ ctx # "live"
                     /\ Goto(w, "cleanup")
                     /\ err' = [err EXCEPT ![w] = "nil"]
                  \/ /\ ctx = "live" /\ (expired[w] \/ flags.ignoreError)
                     /\ Goto(w, "backoff")
                     /\ err' = [err EXCEPT ![w] = "nil"]
                  \/ /\ ctx = "live" /\ ~(expired[w] \/ flags.ignoreError)
                     /\ Goto(w, "cleanup")
                     /\ UNCHANGED err
               /\ expired' = [expired EXCEPT ![w] = FALSE]
               /\ UNCHANGED <<flags, conns, iter, shared, ctx, server>>

(* waitForBackoff: the delay elapses, or the benchmark ends. *)
Backoff(w) == /\ At(w, "backoff")
              /\ \/ NextIteration(w)
                 \/ ctx # "live" /\ Goto(w, "cleanup") /\ UNCHANGED <<iter, err, expired>>
              /\ UNCHANGED <<flags, conns, shared, ctx, server>>

\* Mutant: a goroutine that ends without an error clears the one reported.
CleanupOverwrites(w) == /\ At(w, "cleanup")
                        /\ CloseAllStmts(w)
                        /\ conn' = [conn EXCEPT ![w] = "closed"]
                        /\ held' = [held EXCEPT ![w] = @ - Pinned(w)]
                        /\ errCh' = err[w]
                        /\ Goto(w, "done")
                        /\ UNCHANGED <<flags, due, expired, iter, err, procs, ticker, command, ctx, server>>

(* CleanupThread is deferred by execute; the goroutine then reports its error. *)
Cleanup(w) == /\ At(w, "cleanup")
              /\ CloseAllStmts(w)
              /\ conn' = [conn EXCEPT ![w] = "closed"]
              /\ held' = [held EXCEPT ![w] = @ - Pinned(w)]
              /\ errCh' = IF errCh = "nil" THEN err[w] ELSE errCh
              /\ Goto(w, "done")
              /\ UNCHANGED <<flags, due, expired, iter, err, procs, ticker, command, ctx, server>>
------------------------------------------------------------------------------
(* Workloader.Run. *)

\* Mutant: a worker without statements has nothing to refresh.
RefreshDueIfReady(w) == flags.refreshInterval /\ due[w] /\ stmts[w] # "none"

RefreshDue(w) == flags.refreshInterval /\ due[w]

\* Mutant: the statements of the old connection are kept.
AutoRefreshKeepsStmts(w) ==
    /\ At(w, "refresh")
    /\ RefreshDue(w)
    /\ stmts' = [stmts EXCEPT ![w] = IF @ = "none" THEN "none" ELSE "replaced"]
    /\ \E ok \in BOOLEAN :
          /\ RefreshConn(w, ok)
          /\ IF ok THEN /\ due' = [due EXCEPT ![w] = FALSE]
                        /\ Goto(w, "install")
                        /\ UNCHANGED <<iter, err, expired>>
                   ELSE UNCHANGED due /\ Fail(w, "refresh")
    /\ UNCHANGED <<flags, shared, ctx, server>>

(* The connection is old enough to be replaced. *)
AutoRefresh(w) ==
    /\ At(w, "refresh")
    /\ RefreshDue(w)
    /\ CloseAllStmts(w)
    /\ \E ok \in BOOLEAN :
          /\ RefreshConn(w, ok)
          /\ IF ok THEN /\ due' = [due EXCEPT ![w] = FALSE]
                        /\ Goto(w, "install")
                        /\ UNCHANGED <<iter, err, expired>>
                   ELSE UNCHANGED due /\ Fail(w, "refresh")
    /\ UNCHANGED <<flags, shared, ctx, server>>

NoRefresh(w) == /\ At(w, "refresh")
                /\ ~RefreshDue(w)
                /\ Goto(w, "install")
                /\ UNCHANGED <<flags, conns, expired, iter, err, shared, ctx, server>>

(* installProcsOnce.Do: the first worker installs. *)
InstallBegin(w) == /\ At(w, "install")
                   /\ flags.storedProcs /\ procs = "absent"
                   /\ procs' = "installing"
                   /\ Goto(w, "installing")
                   /\ UNCHANGED <<flags, conns, expired, iter, err, errCh, ticker, command, ctx, server>>

(* It succeeds, or fails for good: the Once will not run it again. *)
InstallEnd(w) == /\ At(w, "installing")
                 /\ \/ /\ conn[w] = "open"
                       /\ procs' = "installed"
                       /\ Goto(w, "prepare")
                       /\ UNCHANGED <<conn, iter, err, expired>>
                    \/ /\ conn[w] # "open" \/ expired[w]
                       /\ procs' = "failed"
                       /\ MayBreak(w)
                       /\ Fail(w, "install")
                 /\ UNCHANGED <<flags, held, stmts, due, errCh, ticker, command, ctx, server>>

(* The others wait for the first, and all share its error. *)
Installed(w) == /\ At(w, "install")
                /\ flags.storedProcs => procs \in {"installed", "failed"}
                /\ IF procs = "failed"
                   THEN Fail(w, "install")
                   ELSE Goto(w, "prepare") /\ UNCHANGED <<iter, err, expired>>
                /\ UNCHANGED <<flags, conns, shared, ctx, server>>

StmtsReady(w) == /\ At(w, "prepare")
                 /\ stmts[w] # "none"
                 /\ Goto(w, "txn")
                 /\ UNCHANGED <<flags, conns, expired, iter, err, shared, ctx, server>>

(* prepareTxnStmts or prepareProcStmts; a statement that cannot be prepared
   panics, and Run recovers with an error that hides the cause. *)
PrepareStmts(w) == /\ At(w, "prepare")
                   /\ stmts[w] = "none"
                   /\ \/ /\ conn[w] = "open"
                         /\ stmts' = [stmts EXCEPT ![w] = "current"]
                         /\ Goto(w, "txn")
                         /\ UNCHANGED <<conn, iter, err, expired>>
                      \/ /\ conn[w] # "open" \/ expired[w]
                         /\ MayBreak(w)
                         /\ Fail(w, "prepare")
                         /\ UNCHANGED stmts
                   /\ UNCHANGED <<flags, held, due, shared, ctx, server>>
------------------------------------------------------------------------------
(* The transaction, and what Run makes of its error. *)

(* The wrappers of the stored procedures format the error with %v: neither
   IsTransactionConflict nor IsConnectionError sees the cause. *)
Recognized == ~flags.storedProcs

TxnCommits(w) == /\ At(w, "txn")
                 /\ Usable(w)
                 /\ NextIteration(w)
                 /\ UNCHANGED <<flags, conns, shared, ctx, server>>

\* Mutant: a conflict is an error like any other.
TxnConflictFails(w) == /\ At(w, "txn")
                       /\ Usable(w)
                       /\ Fail(w, "conflict")
                       /\ UNCHANGED <<flags, conns, shared, ctx, server>>

(* A deadlock or a serialization failure, rolled back by the server. *)
TxnConflict(w) == /\ At(w, "txn")
                  /\ Usable(w)
                  /\ IF Recognized THEN NextIteration(w) ELSE Fail(w, "conflict")
                  /\ UNCHANGED <<flags, conns, shared, ctx, server>>

(* Any other error of the server. *)
TxnError(w) == /\ At(w, "txn")
               /\ Usable(w)
               /\ Fail(w, "other")
               /\ UNCHANGED <<flags, conns, shared, ctx, server>>

(* Its context is done before the transaction is. *)
TxnTimesOut(w) == /\ At(w, "txn")
                  /\ expired[w]
                  /\ MayBreak(w)
                  /\ Fail(w, "timeout")
                  /\ UNCHANGED <<flags, held, stmts, due, shared, ctx, server>>

(* The connection is gone; it is replaced, unless the timeout came first. *)
TxnDisconnected(w) == /\ At(w, "txn")
                      /\ ~Usable(w)
                      /\ IF Recognized /\ ~expired[w]
                         THEN Goto(w, "reconnect") /\ UNCHANGED <<iter, err, expired>>
                         ELSE Fail(w, "connection")
                      /\ UNCHANGED <<flags, conns, shared, ctx, server>>

(* closeAllStmts and RefreshConn; then the transaction counts as failed but
   Run does not. *)
Reconnect(w) ==
    /\ At(w, "reconnect")
    /\ CloseAllStmts(w)
    /\ \E ok \in BOOLEAN :
          /\ RefreshConn(w, ok)
          /\ IF ok THEN due' = [due EXCEPT ![w] = FALSE] /\ NextIteration(w)
                   ELSE UNCHANGED due /\ Fail(w, "refresh")
    /\ UNCHANGED <<flags, shared, ctx, server>>

------------------------------------------------------------------------------
(* executeWorkload. *)

(* The view of TPC-H or CH-benCHmark is created before the workers start; an
   error is a panic. *)
CreateView == /\ command = "starting"
              /\ \/ up /\ command' = "running"
                 \/ command' = "crashed"
              /\ UNCHANGED <<flags, pc, conns, expired, iter, err, procs, errCh, ticker, ctx, server>>

(* wg.Wait() returns; outputCancel. *)
Stop == /\ Running
        /\ \A w \in Workers : pc[w] = "done"
        /\ command' = "stopping"
        /\ ticker' = IF ticker = "running" THEN "cancelled" ELSE ticker
        /\ UNCHANGED <<flags, pc, conns, expired, iter, err, procs, errCh, ctx, server>>

(* The goroutine that prints ends with its context, a child of the benchmark's. *)
TickerEnds == /\ Alive
              /\ \/ ticker = "cancelled"
                 \/ ticker = "running" /\ ctx # "live"
              /\ ticker' = "ended"
              /\ UNCHANGED <<flags, pc, conns, expired, iter, err, procs, errCh, command, ctx, server>>

(* It is waited for, and the archive is finished: a panic if it was never
   created.  executeTpcc returns the first error, or prints a summary; the
   other commands do not look at executeWorkload's error. *)
Return == /\ command = "stopping"
          /\ ticker = "ended"
          /\ command' = IF flags.archive = "failed" THEN "crashed"
                        ELSE IF errCh # "nil" /\ IsTpcc THEN "failed" ELSE "ok"
          /\ UNCHANGED <<flags, pc, conns, expired, iter, err, procs, errCh, ticker, ctx, server>>

------------------------------------------------------------------------------
(* Time, signals and the server. *)

(* --txn-timeout. *)
Expire(w) == /\ Running /\ flags.txnTimeout
             /\ pc[w] \in RunSteps
             /\ ~expired[w]
             /\ expired' = [expired EXCEPT ![w] = TRUE]
             /\ UNCHANGED <<flags, pc, conns, iter, err, shared, ctx, server>>

(* --conn-refresh-interval; when it passes matters only where Run asks. *)
IntervalPasses(w) == /\ Running /\ flags.refreshInterval
                     /\ pc[w] = "refresh" /\ ~due[w]
                     /\ due' = [due EXCEPT ![w] = TRUE]
                     /\ UNCHANGED <<flags, pc, conn, held, stmts, expired, iter, err, shared, ctx, server>>

(* --time. *)
Deadline == /\ Alive /\ ctx = "live"
            /\ ctx' = "deadline"
            /\ UNCHANGED <<flags, pc, conns, expired, iter, err, shared, server>>

Signal == /\ Alive /\ ctx # "signal"
          /\ ctx' = "signal"
          /\ UNCHANGED <<flags, pc, conns, expired, iter, err, shared, server>>

(* Ten seconds after a signal, or on the next one: os.Exit(1). *)
ForceExit == /\ Alive /\ ctx = "signal"
             /\ command' = "killed"
             /\ UNCHANGED <<flags, pc, conns, expired, iter, err, procs, errCh, ticker, ctx, server>>

ConnectionBreaks(w) == /\ Running /\ faults < MaxFaults
                       /\ conn[w] = "open"
                       /\ conn' = [conn EXCEPT ![w] = "broken"]
                       /\ faults' = faults + 1
                       /\ UNCHANGED <<flags, pc, held, stmts, due, expired, iter, err, shared, ctx, up>>

ServerDown == /\ command \in {"starting", "running"} /\ faults < MaxFaults /\ up
              /\ up' = FALSE
              /\ conn' = [w \in Workers |-> IF conn[w] = "open" THEN "broken" ELSE conn[w]]
              /\ faults' = faults + 1
              /\ UNCHANGED <<flags, pc, held, stmts, due, expired, iter, err, shared, ctx>>

ServerUp == /\ command \in {"starting", "running"} /\ ~up
            /\ up' = TRUE
            /\ UNCHANGED <<flags, pc, conns, expired, iter, err, shared, ctx, faults>>

Terminated == ~Alive /\ UNCHANGED vars

------------------------------------------------------------------------------
Run(w) == \/ AutoRefresh(w) \/ NoRefresh(w)
          \/ InstallBegin(w) \/ InstallEnd(w) \/ Installed(w)
          \/ StmtsReady(w) \/ PrepareStmts(w)
          \/ TxnCommits(w) \/ TxnConflict(w) \/ TxnError(w)
          \/ TxnTimesOut(w) \/ TxnDisconnected(w) \/ Reconnect(w)

(* The steps of runLoop and execute, none of which waits for the server. *)
Loop(w) == InitThread(w) \/ InitPanics(w) \/ Top(w) \/ RunFails(w) \/ Backoff(w) \/ Cleanup(w)

Goroutine(w) == Loop(w) \/ Run(w)

Environment == \/ \E w \in Workers : Expire(w) \/ IntervalPasses(w) \/ ConnectionBreaks(w)
               \/ Deadline \/ Signal \/ ForceExit
               \/ ServerDown \/ ServerUp

Next == \/ \E w \in Workers : Goroutine(w)
        \/ CreateView \/ Stop \/ TickerEnds \/ Return
        \/ Environment
        \/ Terminated

Spec == Init /\ [][Next]_vars

(* What the client can promise: goroutines are scheduled, timers fire, a loop
   that waits between failures does not outrun the interval, and a call returns
   once its context is done, whatever the server does. *)
Fairness == /\ \A w \in Workers : /\ WF_vars(Loop(w))
                                  /\ WF_vars(expired[w] /\ Run(w))
                                  /\ WF_vars(Installed(w))
                                  /\ WF_vars(Expire(w))
                                  /\ SF_vars(IntervalPasses(w))
            /\ WF_vars(Stop) /\ WF_vars(TickerEnds) /\ WF_vars(Return)
            /\ WF_vars(ForceExit)

FairSpec == Spec /\ Fairness

(* And a server that answers, and comes back after every outage. *)
AnsweringSpec == /\ FairSpec
                 /\ \A w \in Workers : WF_vars(Run(w))
                 /\ WF_vars(ServerUp)

------------------------------------------------------------------------------
(* Types of the variables. *)
TypeOK == /\ flags \in Flags
          /\ pc \in [Workers -> Steps]
          /\ conn \in [Workers -> {"open", "broken", "closed"}]
          /\ held \in [Workers -> Nat]
          /\ stmts \in [Workers -> {"none", "current", "replaced"}]
          /\ due \in [Workers -> BOOLEAN]
          /\ expired \in [Workers -> BOOLEAN]
          /\ iter \in [Workers -> Nat]
          /\ err \in [Workers -> Errors \cup {"nil"}]
          /\ procs \in {"absent", "installing", "installed", "failed"}
          /\ ctx \in {"live", "deadline", "signal"}
          /\ up \in BOOLEAN
          /\ faults \in Nat /\ faults <= MaxFaults
          /\ errCh \in Errors \cup {"nil"}
          /\ ticker \in {"running", "cancelled", "ended"}
          /\ command \in {"starting", "running", "stopping", "ok", "failed", "crashed", "killed"}

Over == command \in {"ok", "failed"}

(* A transaction executes statements that were prepared on the connection the
   worker has now: closeAllStmts goes with every RefreshConn.  And none is
   prepared before the procedures are installed, whoever installs them. *)
StatementsAreCurrent == \A w \in Workers :
    /\ stmts[w] # "replaced"
    /\ pc[w] = "txn" => stmts[w] = "current"
    /\ flags.storedProcs /\ pc[w] \in {"prepare", "txn", "reconnect"} => procs = "installed"

(* RefreshConn and CleanupThread: a worker never has two connections of the
   pool, and has returned them all when the command returns. *)
ConnectionsReturned == \A w \in Workers : held[w] <= (IF Over THEN 0 ELSE 1)

(* Workloader.Run and runLoop: a worker gives up only with an error that nothing
   excuses: never with --ignore-error; where the transactions are sent as
   statements never over a conflict, a timeout or a lost connection; and where
   queries are sent, over a lost connection only if its replacement was lost
   too, or the rows were already coming. *)
GivesUpForCause == \A w \in Workers :
    pc[w] \in {"cleanup", "done"} /\ err[w] # "nil" =>
        /\ ~flags.ignoreError
        /\ IsTpcc /\ Recognized => err[w] \in {"refresh", "prepare", "other"}
        /\ ~IsTpcc => err[w] \in {"refresh", "other", "connection"}
        /\ ~IsTpcc /\ err[w] = "connection" => faults > 1 \/ flags.txnTimeout \/ flags.workload = "ch"
        /\ err[w] = "refresh" => faults > 0 \/ flags.txnTimeout

(* executeWorkload and executeTpcc: the command fails if, and only if, a worker
   gave up with an error, and says one of the errors they gave up with. *)
CommandReportsErrors ==
    /\ IsTpcc /\ command = "ok" => \A w \in Workers : err[w] = "nil"
    /\ command = "failed" => \E w \in Workers : err[w] = errCh /\ errCh # "nil"

(* runLoop and --count, with no fewer iterations than workers: never more of
   them than asked for, and fewer only if the benchmark was cut short or the
   count does not divide evenly. *)
CountRespected ==
    LET all == SumFunction(iter)
    IN  PerWorker > 0 =>
            /\ all <= flags.count
            /\ command = "ok" /\ errCh = "nil" /\ ctx = "live" =>
                   all = flags.count - (flags.count % Cardinality(Workers))

(* With --txn-timeout the command ends after the deadline or a signal, though
   transactions in flight are not interrupted, and a run with a count ends
   without either: nobody waits for ever, not the workers for the installation,
   not the command for them or for the ticker.  The plan replayer's request has
   no timeout. *)
RunEnds == flags.txnTimeout /\ flags.archive = "none" =>
               /\ Running /\ ctx # "live" ~> ~Alive
               /\ PerWorker > 0 => <>(~Alive \/ command = "starting")

(* Run: a worker that lost its connection gets to send a transaction or a query
   on a connection that works again, as long as the command runs. *)
Sends(w) == \/ pc[w] = "txn" /\ Usable(w)
            \/ pc[w] \in {"query", "requery"} /\ conn[w] = "open"

KeepsWorking == \A w \in Workers : []<>(Sends(w) \/ ~Running \/ ctx # "live")

(* A server that answers, and comes back after every outage. *)
ServerAnswers == (\A w \in Workers : WF_vars(Run(w))) /\ WF_vars(ServerUp)

(* With --ignore-error, automatic refresh is enough for that, if the server
   answers and no timeout strikes first every time. *)
RefreshHeals ==
    IsTpcc /\ flags.refreshInterval /\ flags.ignoreError /\ ~flags.txnTimeout /\ ServerAnswers => KeepsWorking
==============================================================================
