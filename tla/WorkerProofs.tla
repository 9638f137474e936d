---------------------------- MODULE WorkerProofs ----------------------------
(***************************************************************************)
(* Proofs about the run command: Worker with the queries of Queries, for   *)
(* any workers, command lines and numbers of breaks.                       *)
(***************************************************************************)
EXTENDS Queries, SumTheorems

TpccSteps == {"refresh", "install", "installing", "prepare", "txn", "reconnect"}
QuerySteps == {"dump", "dumping", "query", "rows", "pause", "reopen", "requery"}

(* A worker has the connection it is pinned to, and no other, and none before it   *)
(* begins and after it ends; its steps are those of its workload.                  *)
ConnInv == \A w \in Workers :
    /\ held[w] = Pinned(w)
    /\ pc[w] \in {"init", "done"} => conn[w] = "closed"
    /\ pc[w] \in TpccSteps => IsTpcc
    /\ pc[w] \in QuerySteps => ~IsTpcc

(* One worker at most installs the procedures, and only if they are asked for.     *)
OnceInv ==
    /\ procs # "absent" => flags.storedProcs
    /\ \A w \in Workers : pc[w] = "installing" => procs = "installing"
    /\ \A v, w \in Workers : pc[v] = "installing" /\ pc[w] = "installing" => v = w

(* What is not open has been broken, or cost by a timeout.                         *)
Disturbed == faults > 0 \/ flags.txnTimeout

FaultInv ==
    /\ ~up => faults > 0
    /\ \A w \in Workers :
          /\ expired[w] => flags.txnTimeout
          /\ conn[w] # "open" /\ pc[w] \notin {"init", "done"} => Disturbed
          /\ pc[w] \in {"pause", "reopen", "requery"} => Disturbed
          /\ pc[w] = "requery" /\ conn[w] # "open" => faults > 1 \/ flags.txnTimeout

(* The errors that may end a worker, unless --ignore-error is given. *)
Cause(e) ==
    /\ IsTpcc /\ Recognized => e \in {"refresh", "prepare", "other"}
    /\ ~IsTpcc => e \in {"refresh", "other", "connection"}
    /\ ~IsTpcc /\ e = "connection" => faults > 1 \/ flags.txnTimeout \/ flags.workload = "ch"
    /\ e = "refresh" => Disturbed

ErrInv == \A w \in Workers :
    /\ pc[w] \notin {"failed", "cleanup", "done"} => err[w] = "nil"
    /\ pc[w] = "failed" => err[w] # "nil" /\ (expired[w] \/ Cause(err[w]))
    /\ pc[w] \in {"cleanup", "done"} /\ err[w] # "nil" => ~flags.ignoreError /\ Cause(err[w])

(* The command waits for its workers, and the first error it was sent is that of   *)
(* one that has ended.                                                             *)
CommandInv ==
    /\ command \in {"stopping", "ok", "failed"} => \A w \in Workers : pc[w] = "done"
    /\ \A w \in Workers : pc[w] = "done" /\ err[w] # "nil" => errCh # "nil"
    /\ errCh # "nil" => \E w \in Workers : pc[w] = "done" /\ err[w] = errCh
    /\ command = "failed" => errCh # "nil"
    /\ IsTpcc /\ command = "ok" => errCh = "nil"

IInv == /\ TypeOK /\ ConnInv /\ OnceInv /\ StatementsAreCurrent
        /\ FaultInv /\ ErrInv /\ CommandInv

LEMMA InvInit == Init => IInv
<1> SUFFICES ASSUME Init  PROVE IInv
  OBVIOUS
<1>1. TypeOK
  BY WorkerAssumption DEF Init, TypeOK, Steps, Errors, WorkerAssumption
<1>2. ConnInv /\ OnceInv /\ StatementsAreCurrent
  BY DEF Init, ConnInv, OnceInv, StatementsAreCurrent, Pinned, TpccSteps, QuerySteps
<1>3. FaultInv /\ ErrInv
  BY DEF Init, FaultInv, ErrInv
<1>4. CommandInv
  BY DEF Init, CommandInv
<1>5. QED
  BY <1>1, <1>2, <1>3, <1>4 DEF IInv
------------------------------------------------------------------------------
(* The types that the parts of the steps keep. *)

Position == /\ pc \in [Workers -> Steps]
            /\ expired \in [Workers -> BOOLEAN]
            /\ iter \in [Workers -> Nat]
            /\ err \in [Workers -> Errors \cup {"nil"}]

Connection == /\ conn \in [Workers -> {"open", "broken", "closed"}]
              /\ held \in [Workers -> Nat]

LEMMA IterationType == ASSUME TypeOK, NEW w \in Workers, NextIteration(w)  PROVE Position'
<1>1. pc' \in [Workers -> Steps] /\ expired' \in [Workers -> BOOLEAN]
  BY DEF TypeOK, NextIteration, Goto, Steps
<1>2. iter' \in [Workers -> Nat]
  BY DEF TypeOK, NextIteration
<1>3. err' \in [Workers -> Errors \cup {"nil"}]
  BY DEF TypeOK, NextIteration
<1>4. QED
  BY <1>1, <1>2, <1>3 DEF Position

LEMMA FailType == ASSUME TypeOK, NEW w \in Workers, NEW e \in Errors, Fail(w, e)  PROVE Position'
BY DEF TypeOK, Fail, Goto, Steps, RunSteps, Position

LEMMA GotoType == ASSUME TypeOK, NEW w \in Workers, NEW s \in Steps, Goto(w, s)
                  PROVE  pc' \in [Workers -> Steps]
BY DEF TypeOK, Goto

LEMMA RefreshType == ASSUME TypeOK, ConnInv, NEW w \in Workers, NEW ok \in BOOLEAN,
                            RefreshConn(w, ok)
                     PROVE  Connection'
<1>1. conn' \in [Workers -> {"open", "broken", "closed"}]
  BY DEF TypeOK, RefreshConn
<1>2. held[w] - Pinned(w) = 0
  BY DEF TypeOK, ConnInv, Pinned
<1>3. ASSUME ok  PROVE held' \in [Workers -> Nat]
  <2>1. held' = [held EXCEPT ![w] = (held[w] - Pinned(w)) + 1]
    BY <1>3, Zenon DEF RefreshConn
  <2>2. QED
    BY <1>2, <2>1 DEF TypeOK
<1>4. ASSUME ~ok  PROVE held' \in [Workers -> Nat]
  <2>1. held' = [held EXCEPT ![w] = (held[w] - Pinned(w)) + 0]
    BY <1>4, Zenon DEF RefreshConn
  <2>2. QED
    BY <1>2, <2>1 DEF TypeOK
<1>5. QED
  BY <1>1, <1>3, <1>4 DEF Connection

LEMMA MayBreakType == ASSUME TypeOK, NEW w \in Workers, MayBreak(w)
                      PROVE  conn' \in [Workers -> {"open", "broken", "closed"}]
BY DEF TypeOK, MayBreak

------------------------------------------------------------------------------
(* Every step keeps each part of the invariant. *)

LEMMA TypeStep == IInv /\ [RunsNext]_vars => TypeOK'
<1> SUFFICES ASSUME IInv, [RunsNext]_vars  PROVE TypeOK'
  OBVIOUS
<1>1. ASSUME NEW w \in Workers, Backoff(w)  PROVE TypeOK'
  <2>1. Position'
    BY <1>1, IterationType DEF IInv, Backoff, TypeOK, Goto, Steps, Position
  <2>2. QED
    BY <1>1, <2>1 DEF IInv, TypeOK, Position, Backoff, conns, shared, server
<1>2. ASSUME NEW w \in Workers, Cleanup(w)  PROVE TypeOK'
  <2>1. held[w] - Pinned(w) = 0
    BY <1>2 DEF IInv, TypeOK, ConnInv, Pinned
  <2>2. held' = [held EXCEPT ![w] = 0]
    BY <1>2, <2>1 DEF IInv, TypeOK, Cleanup
  <2>3. QED
    BY <1>2, <2>2 DEF IInv, TypeOK, Steps, Cleanup, CloseAllStmts, Goto, server
<1>3. ASSUME NEW w \in Workers, InitThread(w)  PROVE TypeOK'
  BY <1>3 DEF IInv, TypeOK, Steps, RunSteps, InitThread, At, Running, Goto, shared, server
<1>4. ASSUME NEW w \in Workers, InitPanics(w)  PROVE TypeOK'
  BY <1>4 DEF IInv, TypeOK, Steps, RunSteps, InitPanics, At, Running, conns, server
<1>5. ASSUME NEW w \in Workers, Top(w)  PROVE TypeOK'
  BY <1>5 DEF IInv, TypeOK, Steps, RunSteps, RunStart, Top, At, Running, Goto, conns, shared,
      server
<1>6. ASSUME NEW w \in Workers, RunFails(w)  PROVE TypeOK'
  BY <1>6 DEF IInv, TypeOK, Steps, RunSteps, RunFails, At, Running, Goto, conns, shared, server
<1>7. ASSUME NEW w \in Workers, AutoRefresh(w)  PROVE TypeOK'
  <2>1. Connection'
    BY <1>7, RefreshType DEF IInv, AutoRefresh
  <2>2. Position'
    BY <1>7, FailType DEF IInv, AutoRefresh, TypeOK, Goto, Steps, RunSteps, Errors, Position
  <2>3. due' \in [Workers -> BOOLEAN]
    BY <1>7 DEF IInv, AutoRefresh, TypeOK
  <2>4. QED
    BY <1>7, <2>1, <2>2, <2>3 DEF IInv, TypeOK, Position, Connection, AutoRefresh,
       CloseAllStmts, shared, server
<1>8. ASSUME NEW w \in Workers,
             NoRefresh(w) \/ InstallBegin(w) \/ InstallEnd(w) \/ Installed(w) \/
             StmtsReady(w) \/ PrepareStmts(w)
      PROVE  TypeOK'
  BY <1>8, FailType, MayBreakType DEF IInv, TypeOK, Position, Steps, RunSteps, Errors, NoRefresh,
      InstallBegin, InstallEnd, Installed, StmtsReady, PrepareStmts, At, Running, Goto, conns,
      shared, server
<1>9. ASSUME NEW w \in Workers, Reconnect(w)  PROVE TypeOK'
  <2>1. Connection'
    BY <1>9, RefreshType DEF IInv, Reconnect
  <2>2. Position'
    BY <1>9, FailType, IterationType DEF IInv, Reconnect, Errors
  <2>3. due' \in [Workers -> BOOLEAN]
    BY <1>9 DEF IInv, Reconnect, TypeOK
  <2>4. QED
    BY <1>9, <2>1, <2>2, <2>3 DEF IInv, TypeOK, Position, Connection, Reconnect,
       CloseAllStmts, shared, server
<1>10. ASSUME NEW w \in Workers,
             TxnCommits(w) \/ TxnConflict(w) \/ TxnError(w) \/ TxnTimesOut(w) \/
             TxnDisconnected(w)
      PROVE  TypeOK'
  BY <1>10, IterationType, FailType, MayBreakType DEF IInv, TypeOK, Position, Steps, RunSteps,
      Errors, TxnCommits, TxnConflict, TxnError, TxnTimesOut, TxnDisconnected, At, Running, Goto,
      conns, shared, server
<1>11. ASSUME NEW w \in Workers,
             DumpBegin(w) \/ DumpEnd(w) \/ Query(w) \/ QueryDisconnected(w) \/ Pause(w) \/
             Reopen(w) \/ Requery(w) \/ RowsRead(w) \/ RowsFail(w)
      PROVE  TypeOK'
  BY <1>11, IterationType, FailType, RefreshType, MayBreakType DEF IInv, TypeOK, Position,
      Connection, Steps, RunSteps, Errors, DumpBegin, DumpEnd, Query, QueryDisconnected, Pause,
      Reopen, Requery, RowsRead, RowsFail, At, Running, Goto, conns, shared, server, Answered,
      Refused, Interrupted, Idle
<1>12. ASSUME NEW w \in Workers, ConnectionBreaks(w)  PROVE TypeOK'
  <2>1. conn' \in [Workers -> {"open", "broken", "closed"}]
    BY <1>12 DEF IInv, TypeOK, ConnectionBreaks
  <2>2. faults' \in Nat /\ faults' <= MaxFaults
    BY <1>12, WorkerAssumption DEF IInv, TypeOK, ConnectionBreaks, WorkerAssumption
  <2>3. QED
    BY <1>12, <2>1, <2>2 DEF IInv, TypeOK, ConnectionBreaks, shared
<1>13. ASSUME NEW w \in Workers, Expire(w)  PROVE TypeOK'
  BY <1>13 DEF IInv, TypeOK, Steps, RunSteps, Expire, Running, conns, shared, server
<1>14. ASSUME NEW w \in Workers, IntervalPasses(w)  PROVE TypeOK'
  BY <1>14 DEF IInv, TypeOK, Steps, RunSteps, IntervalPasses, Running, shared, server
<1>15. CASE CreateView \/ Stop \/ TickerEnds \/ Return
  BY <1>15 DEF IInv, TypeOK, Steps, RunSteps, CreateView, Stop, TickerEnds, Return, conns, server,
      Running, Alive
<1>16. CASE ServerDown
  <2>1. conn' \in [Workers -> {"open", "broken", "closed"}]
    BY <1>16 DEF IInv, TypeOK, ServerDown
  <2>2. faults' \in Nat /\ faults' <= MaxFaults
    BY <1>16, WorkerAssumption DEF IInv, TypeOK, ServerDown, WorkerAssumption
  <2>3. up' \in BOOLEAN
    BY <1>16 DEF ServerDown
  <2>4. QED
    BY <1>16, <2>1, <2>2, <2>3, Zenon DEF IInv, TypeOK, ServerDown, Steps, RunSteps, Errors, shared
<1>17. CASE Deadline
  BY <1>17 DEF IInv, TypeOK, Steps, RunSteps, Deadline, Alive, conns, shared, server
<1>18. CASE Signal
  BY <1>18 DEF IInv, TypeOK, Steps, RunSteps, Signal, Alive, conns, shared, server
<1>19. CASE ForceExit
  BY <1>19 DEF IInv, TypeOK, Steps, RunSteps, ForceExit, Alive, conns, server
<1>20. CASE ServerUp
  BY <1>20 DEF IInv, TypeOK, Steps, RunSteps, ServerUp, conns, shared
<1>21. CASE UNCHANGED vars
  BY <1>21 DEF IInv, TypeOK, vars, conns, shared, server
<1>22. QED
  BY <1>1, <1>2, <1>3, <1>4, <1>5, <1>6, <1>7, <1>8, <1>9, <1>10, <1>11, <1>12, <1>13, <1>14,
      <1>15, <1>16, <1>17, <1>18, <1>19, <1>20, <1>21 DEF RunsNext, Goroutine, Loop, Run,
      RunQuery, Environment, Terminated

LEMMA ConnStep == IInv /\ [RunsNext]_vars => ConnInv'
<1> SUFFICES ASSUME IInv, [RunsNext]_vars  PROVE ConnInv'
  OBVIOUS
<1>1. ASSUME NEW w \in Workers,
             InitThread(w) \/ InitPanics(w) \/ Top(w) \/ RunFails(w) \/ Backoff(w) \/
             Cleanup(w)
      PROVE  ConnInv'
  BY <1>1 DEF IInv, ConnInv, TypeOK, Pinned, TpccSteps, QuerySteps, IsTpcc, RunStart, InitThread,
      InitPanics, Top, RunFails, Backoff, Cleanup, At, Running, Goto, shared, server, conns,
      NextIteration, CloseAllStmts
<1>2. ASSUME NEW w \in Workers,
             AutoRefresh(w) \/ NoRefresh(w) \/ InstallBegin(w) \/ InstallEnd(w) \/
             Installed(w) \/ StmtsReady(w) \/ PrepareStmts(w)
      PROVE  ConnInv'
  BY <1>2 DEF IInv, ConnInv, TypeOK, Pinned, TpccSteps, QuerySteps, IsTpcc, RunStart, AutoRefresh,
      NoRefresh, InstallBegin, InstallEnd, Installed, StmtsReady, PrepareStmts, At, Running,
      CloseAllStmts, RefreshConn, Goto, Fail, shared, server, conns, MayBreak
<1>3. ASSUME NEW w \in Workers,
             TxnCommits(w) \/ TxnConflict(w) \/ TxnError(w) \/ TxnTimesOut(w) \/
             TxnDisconnected(w) \/ Reconnect(w)
      PROVE  ConnInv'
  BY <1>3 DEF IInv, ConnInv, TypeOK, Pinned, TpccSteps, QuerySteps, IsTpcc, RunStart, TxnCommits,
      TxnConflict, TxnError, TxnTimesOut, TxnDisconnected, Reconnect, At, Running, NextIteration,
      Goto, conns, shared, server, Fail, MayBreak, CloseAllStmts, RefreshConn
<1>4. ASSUME NEW w \in Workers,
             DumpBegin(w) \/ DumpEnd(w) \/ Query(w) \/ QueryDisconnected(w) \/ Pause(w) \/
             Reopen(w) \/ Requery(w) \/ RowsRead(w) \/ RowsFail(w)
      PROVE  ConnInv'
  BY <1>4 DEF IInv, ConnInv, TypeOK, Pinned, TpccSteps, QuerySteps, IsTpcc, RunStart, DumpBegin,
      DumpEnd, Query, QueryDisconnected, Pause, Reopen, Requery, RowsRead, RowsFail, At, Running,
      Goto, conns, shared, server, MayBreak, Answered, Refused, Fail, Interrupted, Idle,
      RefreshConn, NextIteration
<1>5. ASSUME NEW w \in Workers,
             Expire(w) \/ IntervalPasses(w) \/ ConnectionBreaks(w)
      PROVE  ConnInv'
  BY <1>5 DEF IInv, ConnInv, TypeOK, Pinned, TpccSteps, QuerySteps, IsTpcc, RunStart, Expire,
      IntervalPasses, ConnectionBreaks, Running, conns, shared, server
<1>6. CASE CreateView \/ Stop \/ TickerEnds \/ Return
  BY <1>6 DEF IInv, ConnInv, TypeOK, Pinned, TpccSteps, QuerySteps, IsTpcc, RunStart, CreateView,
      Stop, TickerEnds, Return, conns, server, Running, Alive
<1>7. CASE Deadline \/ Signal \/ ForceExit \/ ServerDown \/ ServerUp
  BY <1>7 DEF IInv, ConnInv, TypeOK, Pinned, TpccSteps, QuerySteps, IsTpcc, RunStart, Deadline,
      Signal, ForceExit, ServerDown, ServerUp, Alive, conns, shared, server
<1>8. CASE UNCHANGED vars
  BY <1>8 DEF IInv, ConnInv, TypeOK, Pinned, TpccSteps, QuerySteps, IsTpcc, RunStart, vars, conns,
      shared, server
<1>9. QED
  BY <1>1, <1>2, <1>3, <1>4, <1>5, <1>6, <1>7, <1>8 DEF RunsNext, Goroutine, Loop, Run, RunQuery,
      Environment, Terminated

LEMMA OnceStep == IInv /\ [RunsNext]_vars => OnceInv'
<1> SUFFICES ASSUME IInv, [RunsNext]_vars  PROVE OnceInv'
  OBVIOUS
<1>1. ASSUME NEW w \in Workers,
             InitThread(w) \/ InitPanics(w) \/ Top(w) \/ RunFails(w) \/ Backoff(w) \/
             Cleanup(w)
      PROVE  OnceInv'
  BY <1>1 DEF IInv, OnceInv, TypeOK, RunStart, InitThread, InitPanics, Top, RunFails, Backoff,
      Cleanup, At, Running, Goto, shared, server, conns, NextIteration, CloseAllStmts
<1>2. ASSUME NEW w \in Workers,
             AutoRefresh(w) \/ NoRefresh(w) \/ InstallBegin(w) \/ InstallEnd(w) \/
             Installed(w) \/ StmtsReady(w) \/ PrepareStmts(w)
      PROVE  OnceInv'
  BY <1>2 DEF IInv, OnceInv, TypeOK, RunStart, AutoRefresh, NoRefresh, InstallBegin, InstallEnd,
      Installed, StmtsReady, PrepareStmts, At, Running, CloseAllStmts, RefreshConn, Goto, Fail,
      shared, server, conns, MayBreak
<1>3. ASSUME NEW w \in Workers,
             TxnCommits(w) \/ TxnConflict(w) \/ TxnError(w) \/ TxnTimesOut(w) \/
             TxnDisconnected(w) \/ Reconnect(w)
      PROVE  OnceInv'
  BY <1>3 DEF IInv, OnceInv, TypeOK, RunStart, TxnCommits, TxnConflict, TxnError, TxnTimesOut,
      TxnDisconnected, Reconnect, At, Running, NextIteration, Goto, conns, shared, server, Fail,
      MayBreak, CloseAllStmts, RefreshConn
<1>4. ASSUME NEW w \in Workers,
             DumpBegin(w) \/ DumpEnd(w) \/ Query(w) \/ QueryDisconnected(w) \/ Pause(w) \/
             Reopen(w) \/ Requery(w) \/ RowsRead(w) \/ RowsFail(w)
      PROVE  OnceInv'
  BY <1>4 DEF IInv, OnceInv, TypeOK, RunStart, DumpBegin, DumpEnd, Query, QueryDisconnected,
      Pause, Reopen, Requery, RowsRead, RowsFail, At, Running, Goto, conns, shared, server,
      MayBreak, Answered, Refused, Fail, Interrupted, Idle, RefreshConn, NextIteration
<1>5. ASSUME NEW w \in Workers,
             Expire(w) \/ IntervalPasses(w) \/ ConnectionBreaks(w)
      PROVE  OnceInv'
  BY <1>5 DEF IInv, OnceInv, TypeOK, RunStart, Expire, IntervalPasses, ConnectionBreaks, Running,
      conns, shared, server
<1>6. CASE CreateView \/ Stop \/ TickerEnds \/ Return
  BY <1>6 DEF IInv, OnceInv, TypeOK, RunStart, CreateView, Stop, TickerEnds, Return, conns,
      server, Running, Alive
<1>7. CASE Deadline \/ Signal \/ ForceExit \/ ServerDown \/ ServerUp
  BY <1>7 DEF IInv, OnceInv, TypeOK, RunStart, Deadline, Signal, ForceExit, ServerDown, ServerUp,
      Alive, conns, shared, server
<1>8. CASE UNCHANGED vars
  BY <1>8 DEF IInv, OnceInv, TypeOK, RunStart, vars, conns, shared, server
<1>9. QED
  BY <1>1, <1>2, <1>3, <1>4, <1>5, <1>6, <1>7, <1>8 DEF RunsNext, Goroutine, Loop, Run, RunQuery,
      Environment, Terminated

LEMMA StmtsStep == IInv /\ [RunsNext]_vars => StatementsAreCurrent'
<1> SUFFICES ASSUME IInv, [RunsNext]_vars  PROVE StatementsAreCurrent'
  OBVIOUS
<1>1. ASSUME NEW w \in Workers,
             InitThread(w) \/ InitPanics(w) \/ Top(w) \/ RunFails(w) \/ Backoff(w) \/
             Cleanup(w)
      PROVE  StatementsAreCurrent'
  BY <1>1 DEF IInv, StatementsAreCurrent, OnceInv, TypeOK, Usable, RunStart, InitThread,
      InitPanics, Top, RunFails, Backoff, Cleanup, At, Running, Goto, shared, server, conns,
      NextIteration, CloseAllStmts
<1>2. ASSUME NEW w \in Workers,
             AutoRefresh(w) \/ NoRefresh(w) \/ InstallBegin(w) \/ InstallEnd(w) \/
             Installed(w) \/ StmtsReady(w) \/ PrepareStmts(w)
      PROVE  StatementsAreCurrent'
  BY <1>2 DEF IInv, StatementsAreCurrent, OnceInv, TypeOK, Usable, RunStart, AutoRefresh,
      NoRefresh, InstallBegin, InstallEnd, Installed, StmtsReady, PrepareStmts, At, Running,
      CloseAllStmts, RefreshConn, Goto, Fail, shared, server, conns, MayBreak
<1>3. ASSUME NEW w \in Workers,
             TxnCommits(w) \/ TxnConflict(w) \/ TxnError(w) \/ TxnTimesOut(w) \/
             TxnDisconnected(w) \/ Reconnect(w)
      PROVE  StatementsAreCurrent'
  BY <1>3 DEF IInv, StatementsAreCurrent, OnceInv, TypeOK, Usable, RunStart, TxnCommits,
      TxnConflict, TxnError, TxnTimesOut, TxnDisconnected, Reconnect, At, Running, NextIteration,
      Goto, conns, shared, server, Fail, MayBreak, CloseAllStmts, RefreshConn
<1>4. ASSUME NEW w \in Workers,
             DumpBegin(w) \/ DumpEnd(w) \/ Query(w) \/ QueryDisconnected(w) \/ Pause(w) \/
             Reopen(w) \/ Requery(w) \/ RowsRead(w) \/ RowsFail(w)
      PROVE  StatementsAreCurrent'
  BY <1>4 DEF IInv, StatementsAreCurrent, OnceInv, TypeOK, Usable, RunStart, DumpBegin, DumpEnd,
      Query, QueryDisconnected, Pause, Reopen, Requery, RowsRead, RowsFail, At, Running, Goto,
      conns, shared, server, MayBreak, Answered, Refused, Fail, Interrupted, Idle, RefreshConn,
      NextIteration
<1>5. ASSUME NEW w \in Workers,
             Expire(w) \/ IntervalPasses(w) \/ ConnectionBreaks(w)
      PROVE  StatementsAreCurrent'
  BY <1>5 DEF IInv, StatementsAreCurrent, OnceInv, TypeOK, Usable, RunStart, Expire,
      IntervalPasses, ConnectionBreaks, Running, conns, shared, server
<1>6. CASE CreateView \/ Stop \/ TickerEnds \/ Return
  BY <1>6 DEF IInv, StatementsAreCurrent, OnceInv, TypeOK, Usable, RunStart, CreateView, Stop,
      TickerEnds, Return, conns, server, Running, Alive
<1>7. CASE Deadline \/ Signal \/ ForceExit \/ ServerDown \/ ServerUp
  BY <1>7 DEF IInv, StatementsAreCurrent, OnceInv, TypeOK, Usable, RunStart, Deadline, Signal,
      ForceExit, ServerDown, ServerUp, Alive, conns, shared, server
<1>8. CASE UNCHANGED vars
  BY <1>8 DEF IInv, StatementsAreCurrent, OnceInv, TypeOK, Usable, RunStart, vars, conns, shared,
      server
<1>9. QED
  BY <1>1, <1>2, <1>3, <1>4, <1>5, <1>6, <1>7, <1>8 DEF RunsNext, Goroutine, Loop, Run, RunQuery,
      Environment, Terminated

LEMMA FaultStep == IInv /\ [RunsNext]_vars => FaultInv'
<1> SUFFICES ASSUME IInv, [RunsNext]_vars  PROVE FaultInv'
  OBVIOUS
<1>1. ASSUME NEW w \in Workers,
             InitThread(w) \/ InitPanics(w) \/ Top(w) \/ RunFails(w) \/ Backoff(w) \/
             Cleanup(w)
      PROVE  FaultInv'
  BY <1>1 DEF IInv, FaultInv, Disturbed, TypeOK, RunStart, InitThread, InitPanics, Top, RunFails,
      Backoff, Cleanup, At, Running, Goto, shared, server, conns, NextIteration, CloseAllStmts
<1>2. ASSUME NEW w \in Workers,
             AutoRefresh(w) \/ NoRefresh(w) \/ InstallBegin(w) \/ InstallEnd(w) \/
             Installed(w) \/ StmtsReady(w) \/ PrepareStmts(w)
      PROVE  FaultInv'
  BY <1>2 DEF IInv, FaultInv, Disturbed, TypeOK, RunStart, AutoRefresh, NoRefresh, InstallBegin,
      InstallEnd, Installed, StmtsReady, PrepareStmts, At, Running, CloseAllStmts, RefreshConn,
      Goto, Fail, shared, server, conns, MayBreak
<1>3. ASSUME NEW w \in Workers,
             TxnCommits(w) \/ TxnConflict(w) \/ TxnError(w) \/ TxnTimesOut(w) \/
             TxnDisconnected(w) \/ Reconnect(w)
      PROVE  FaultInv'
  BY <1>3 DEF IInv, FaultInv, Disturbed, TypeOK, RunStart, TxnCommits, TxnConflict, TxnError,
      TxnTimesOut, TxnDisconnected, Reconnect, At, Running, NextIteration, Goto, conns, shared,
      server, Fail, MayBreak, CloseAllStmts, RefreshConn
<1>4. ASSUME NEW w \in Workers,
             DumpBegin(w) \/ DumpEnd(w) \/ Query(w) \/ QueryDisconnected(w) \/ Pause(w) \/
             Reopen(w) \/ Requery(w) \/ RowsRead(w) \/ RowsFail(w)
      PROVE  FaultInv'
  BY <1>4 DEF IInv, FaultInv, Disturbed, TypeOK, RunStart, DumpBegin, DumpEnd, Query,
      QueryDisconnected, Pause, Reopen, Requery, RowsRead, RowsFail, At, Running, Goto, conns,
      shared, server, MayBreak, Answered, Refused, Fail, Interrupted, Idle, RefreshConn,
      NextIteration
<1>5. ASSUME NEW w \in Workers,
             Expire(w) \/ IntervalPasses(w) \/ ConnectionBreaks(w)
      PROVE  FaultInv'
  BY <1>5 DEF IInv, FaultInv, Disturbed, TypeOK, RunStart, Expire, IntervalPasses,
      ConnectionBreaks, Running, conns, shared, server
<1>6. CASE CreateView \/ Stop \/ TickerEnds \/ Return
  BY <1>6 DEF IInv, FaultInv, Disturbed, TypeOK, RunStart, CreateView, Stop, TickerEnds, Return,
      conns, server, Running, Alive
<1>7. CASE Deadline \/ Signal \/ ForceExit \/ ServerDown \/ ServerUp
  BY <1>7 DEF IInv, FaultInv, Disturbed, TypeOK, RunStart, Deadline, Signal, ForceExit,
      ServerDown, ServerUp, Alive, conns, shared, server
<1>8. CASE UNCHANGED vars
  BY <1>8 DEF IInv, FaultInv, Disturbed, TypeOK, RunStart, vars, conns, shared, server
<1>9. QED
  BY <1>1, <1>2, <1>3, <1>4, <1>5, <1>6, <1>7, <1>8 DEF RunsNext, Goroutine, Loop, Run, RunQuery,
      Environment, Terminated

LEMMA ErrStep == IInv /\ [RunsNext]_vars => ErrInv'
<1> SUFFICES ASSUME IInv, [RunsNext]_vars  PROVE ErrInv'
  OBVIOUS
<1>1. ASSUME NEW w \in Workers,
             InitThread(w) \/ InitPanics(w) \/ Top(w) \/ RunFails(w) \/ Backoff(w) \/
             Cleanup(w)
      PROVE  ErrInv'
  BY <1>1 DEF IInv, ErrInv, FaultInv, Disturbed, ConnInv, OnceInv, Cause, TypeOK, RunStart,
      TpccSteps, QuerySteps, Recognized, IsTpcc, Usable, InitThread, InitPanics, Top, RunFails,
      Backoff, Cleanup, At, Running, Goto, shared, server, conns, NextIteration, CloseAllStmts
<1>2. ASSUME NEW w \in Workers,
             AutoRefresh(w) \/ NoRefresh(w) \/ InstallBegin(w) \/ InstallEnd(w) \/
             Installed(w) \/ StmtsReady(w) \/ PrepareStmts(w)
      PROVE  ErrInv'
  BY <1>2 DEF IInv, ErrInv, FaultInv, Disturbed, ConnInv, OnceInv, Cause, TypeOK, RunStart,
      TpccSteps, QuerySteps, Recognized, IsTpcc, Usable, AutoRefresh, NoRefresh, InstallBegin,
      InstallEnd, Installed, StmtsReady, PrepareStmts, At, Running, CloseAllStmts, RefreshConn,
      Goto, Fail, shared, server, conns, MayBreak
<1>3. ASSUME NEW w \in Workers,
             TxnCommits(w) \/ TxnConflict(w) \/ TxnError(w) \/ TxnTimesOut(w) \/
             TxnDisconnected(w) \/ Reconnect(w)
      PROVE  ErrInv'
  BY <1>3 DEF IInv, ErrInv, FaultInv, Disturbed, ConnInv, OnceInv, Cause, TypeOK, RunStart,
      TpccSteps, QuerySteps, Recognized, IsTpcc, Usable, TxnCommits, TxnConflict, TxnError,
      TxnTimesOut, TxnDisconnected, Reconnect, At, Running, NextIteration, Goto, conns, shared,
      server, Fail, MayBreak, CloseAllStmts, RefreshConn
<1>4. ASSUME NEW w \in Workers,
             DumpBegin(w) \/ DumpEnd(w) \/ Query(w) \/ QueryDisconnected(w) \/ Pause(w) \/
             Reopen(w) \/ Requery(w) \/ RowsRead(w) \/ RowsFail(w)
      PROVE  ErrInv'
  BY <1>4 DEF IInv, ErrInv, FaultInv, Disturbed, ConnInv, OnceInv, Cause, TypeOK, RunStart,
      TpccSteps, QuerySteps, Recognized, IsTpcc, Usable, DumpBegin, DumpEnd, Query,
      QueryDisconnected, Pause, Reopen, Requery, RowsRead, RowsFail, At, Running, Goto, conns,
      shared, server, MayBreak, Answered, Refused, Fail, Interrupted, Idle, RefreshConn,
      NextIteration
<1>5. ASSUME NEW w \in Workers,
             Expire(w) \/ IntervalPasses(w) \/ ConnectionBreaks(w)
      PROVE  ErrInv'
  BY <1>5 DEF IInv, ErrInv, FaultInv, Disturbed, ConnInv, OnceInv, Cause, TypeOK, RunStart,
      TpccSteps, QuerySteps, Recognized, IsTpcc, Usable, Expire, IntervalPasses, ConnectionBreaks,
      Running, conns, shared, server
<1>6. CASE CreateView \/ Stop \/ TickerEnds \/ Return
  BY <1>6 DEF IInv, ErrInv, FaultInv, Disturbed, ConnInv, OnceInv, Cause, TypeOK, RunStart,
      TpccSteps, QuerySteps, Recognized, IsTpcc, Usable, CreateView, Stop, TickerEnds, Return,
      conns, server, Running, Alive
<1>7. CASE Deadline \/ Signal \/ ForceExit \/ ServerDown \/ ServerUp
  BY <1>7 DEF IInv, ErrInv, FaultInv, Disturbed, ConnInv, OnceInv, Cause, TypeOK, RunStart,
      TpccSteps, QuerySteps, Recognized, IsTpcc, Usable, Deadline, Signal, ForceExit, ServerDown,
      ServerUp, Alive, conns, shared, server
<1>8. CASE UNCHANGED vars
  BY <1>8 DEF IInv, ErrInv, FaultInv, Disturbed, ConnInv, OnceInv, Cause, TypeOK, RunStart,
      TpccSteps, QuerySteps, Recognized, IsTpcc, Usable, vars, conns, shared, server
<1>9. QED
  BY <1>1, <1>2, <1>3, <1>4, <1>5, <1>6, <1>7, <1>8 DEF RunsNext, Goroutine, Loop, Run, RunQuery,
      Environment, Terminated

LEMMA CommandStep == IInv /\ [RunsNext]_vars => CommandInv'
<1> SUFFICES ASSUME IInv, [RunsNext]_vars  PROVE CommandInv'
  OBVIOUS
<1>1. ASSUME NEW w \in Workers,
             InitThread(w) \/ InitPanics(w) \/ Top(w) \/ RunFails(w) \/ Backoff(w) \/
             Cleanup(w)
      PROVE  CommandInv'
  BY <1>1 DEF IInv, CommandInv, TypeOK, RunStart, IsTpcc, InitThread, InitPanics, Top, RunFails,
      Backoff, Cleanup, At, Running, Goto, shared, server, conns, NextIteration, CloseAllStmts
<1>2. ASSUME NEW w \in Workers,
             AutoRefresh(w) \/ NoRefresh(w) \/ InstallBegin(w) \/ InstallEnd(w) \/
             Installed(w) \/ StmtsReady(w) \/ PrepareStmts(w)
      PROVE  CommandInv'
  BY <1>2 DEF IInv, CommandInv, TypeOK, RunStart, IsTpcc, AutoRefresh, NoRefresh, InstallBegin,
      InstallEnd, Installed, StmtsReady, PrepareStmts, At, Running, CloseAllStmts, RefreshConn,
      Goto, Fail, shared, server, conns, MayBreak
<1>3. ASSUME NEW w \in Workers,
             TxnCommits(w) \/ TxnConflict(w) \/ TxnError(w) \/ TxnTimesOut(w) \/
             TxnDisconnected(w) \/ Reconnect(w)
      PROVE  CommandInv'
  BY <1>3 DEF IInv, CommandInv, TypeOK, RunStart, IsTpcc, TxnCommits, TxnConflict, TxnError,
      TxnTimesOut, TxnDisconnected, Reconnect, At, Running, NextIteration, Goto, conns, shared,
      server, Fail, MayBreak, CloseAllStmts, RefreshConn
<1>4. ASSUME NEW w \in Workers,
             DumpBegin(w) \/ DumpEnd(w) \/ Query(w) \/ QueryDisconnected(w) \/ Pause(w) \/
             Reopen(w) \/ Requery(w) \/ RowsRead(w) \/ RowsFail(w)
      PROVE  CommandInv'
  BY <1>4 DEF IInv, CommandInv, TypeOK, RunStart, IsTpcc, DumpBegin, DumpEnd, Query,
      QueryDisconnected, Pause, Reopen, Requery, RowsRead, RowsFail, At, Running, Goto, conns,
      shared, server, MayBreak, Answered, Refused, Fail, Interrupted, Idle, RefreshConn,
      NextIteration
<1>5. ASSUME NEW w \in Workers,
             Expire(w) \/ IntervalPasses(w) \/ ConnectionBreaks(w)
      PROVE  CommandInv'
  BY <1>5 DEF IInv, CommandInv, TypeOK, RunStart, IsTpcc, Expire, IntervalPasses,
      ConnectionBreaks, Running, conns, shared, server
<1>6. CASE CreateView \/ Stop \/ TickerEnds \/ Return
  BY <1>6 DEF IInv, CommandInv, TypeOK, RunStart, IsTpcc, CreateView, Stop, TickerEnds, Return,
      conns, server, Running, Alive
<1>7. CASE Deadline \/ Signal \/ ForceExit \/ ServerDown \/ ServerUp
  BY <1>7 DEF IInv, CommandInv, TypeOK, RunStart, IsTpcc, Deadline, Signal, ForceExit, ServerDown,
      ServerUp, Alive, conns, shared, server
<1>8. CASE UNCHANGED vars
  BY <1>8 DEF IInv, CommandInv, TypeOK, RunStart, IsTpcc, vars, conns, shared, server
<1>9. QED
  BY <1>1, <1>2, <1>3, <1>4, <1>5, <1>6, <1>7, <1>8 DEF RunsNext, Goroutine, Loop, Run, RunQuery,
      Environment, Terminated

LEMMA InvStep == IInv /\ [RunsNext]_vars => IInv'
BY TypeStep, ConnStep, OnceStep, StmtsStep, FaultStep, ErrStep, CommandStep DEF IInv

THEOREM Invariance == RunsSpec => []IInv
<1>1. Init => IInv
  BY InvInit
<1>2. IInv /\ [RunsNext]_vars => IInv'
  BY InvStep
<1>3. QED
  BY <1>1, <1>2, PTL DEF RunsSpec

------------------------------------------------------------------------------
(* What the run command guarantees. *)

(* Every variable keeps its type, the counters of connections included: none is    *)
(* returned to the pool that was not taken from it (closeConn, RefreshConn).       *)
THEOREM TypeCorrect == RunsSpec => []TypeOK
<1>1. IInv => TypeOK
  BY DEF IInv
<1>2. QED
  BY <1>1, Invariance, PTL

(* A transaction never executes a statement prepared on a connection the worker    *)
(* has replaced, nor one prepared before the procedures are installed, however the *)
(* workers, the breaks and the timeouts interleave (closeAllStmts, RefreshConn,    *)
(* installProcsOnce).                                                              *)
THEOREM StatementsCurrent == RunsSpec => []StatementsAreCurrent
<1>1. IInv => StatementsAreCurrent
  BY DEF IInv
<1>2. QED
  BY <1>1, Invariance, PTL

(* A worker never has two connections of the pool, and when the command returns    *)
(* they are all back (RefreshConn, CleanupThread, executeWorkload).                *)
THEOREM ConnectionsBack == RunsSpec => []ConnectionsReturned
<1>1. IInv => ConnectionsReturned
  <2> SUFFICES ASSUME IInv, NEW w \in Workers
               PROVE  held[w] <= (IF Over THEN 0 ELSE 1)
    BY DEF ConnectionsReturned
  <2>1. held[w] = Pinned(w) /\ Pinned(w) <= 1
    BY DEF IInv, ConnInv, Pinned
  <2>2. Over => conn[w] = "closed"
    BY DEF IInv, ConnInv, CommandInv, Over
  <2>3. QED
    BY <2>1, <2>2 DEF Pinned
<1>2. QED
  BY <1>1, Invariance, PTL

(* A worker gives up only with an error that no option excuses and no              *)
(* reconnection could heal (Workloader.Run, runLoop, QueryContext with its retry). *)
THEOREM GivesUpOnlyForCause == RunsSpec => []GivesUpForCause
<1>1. IInv => GivesUpForCause
  BY DEF IInv, ErrInv, Cause, Disturbed, GivesUpForCause
<1>2. QED
  BY <1>1, Invariance, PTL

(* The command of TPC-C succeeds only if no worker gave up, and the error it fails *)
(* with is that of one that did (executeWorkload's channel, executeTpcc).          *)
THEOREM ErrorsReported == RunsSpec => []CommandReportsErrors
<1>1. IInv => CommandReportsErrors
  BY DEF IInv, CommandInv, CommandReportsErrors
<1>2. QED
  BY <1>1, Invariance, PTL
------------------------------------------------------------------------------
(* The share of a worker. *)

LEMMA ShareOfCount ==
  ASSUME TypeOK, PerWorker > 0
  PROVE  /\ PerWorker \in Nat /\ PerWorker < IterCap
         /\ Cardinality(Workers) \in Nat /\ Cardinality(Workers) > 0
         /\ Cardinality(Workers) * PerWorker = flags.count - (flags.count % Cardinality(Workers))
         /\ Cardinality(Workers) * PerWorker <= flags.count
<1> DEFINE n == Cardinality(Workers)
<1>1. flags.count \in Nat
  BY WorkerAssumption DEF TypeOK, WorkerAssumption, FlagSets
<1>2. n \in Nat /\ n > 0
  BY WorkerAssumption, FS_CardinalityType, FS_EmptySet DEF WorkerAssumption
<1> HIDE DEF n
<1>3. \A a, b \in Nat : b > 0 => /\ a \div b \in Nat /\ a \div b <= a
                                 /\ b * (a \div b) = a - (a % b)
                                 /\ b * (a \div b) <= a
  OBVIOUS
<1>4. /\ flags.count \div n \in Nat /\ flags.count \div n <= flags.count
      /\ n * (flags.count \div n) = flags.count - (flags.count % n)
      /\ n * (flags.count \div n) <= flags.count
  BY <1>1, <1>2, <1>3
<1>5. PerWorker = flags.count \div n
  BY DEF PerWorker, n
<1>6. PerWorker < IterCap
  BY <1>1, <1>4, <1>5 DEF IterCap
<1>7. QED
  BY <1>2, <1>4, <1>5, <1>6 DEF n

(* A worker is in an iteration only below its share, and has all of it when it ends  *)
(* unless it was cut short.                                                          *)
CountInv == PerWorker > 0 => \A w \in Workers :
    /\ iter[w] <= PerWorker
    /\ pc[w] \notin {"top", "cleanup", "done"} => iter[w] < PerWorker
    /\ pc[w] \in {"cleanup", "done"} /\ err[w] = "nil" /\ ctx = "live" => iter[w] = PerWorker

(* What a step that ends no iteration and leaves the loop nowhere does. *)
KeepsCount ==
    /\ UNCHANGED <<flags, iter>>
    /\ ctx # "live" => ctx' # "live"
    /\ \A w \in Workers :
          \/ pc'[w] = pc[w] /\ err'[w] = err[w]
          \/ pc[w] \notin {"top", "cleanup", "done"} /\ pc'[w] \notin {"cleanup", "done"}

LEMMA CountKept == TypeOK /\ CountInv /\ KeepsCount => CountInv'
<1> SUFFICES ASSUME TypeOK, CountInv, KeepsCount, PerWorker' > 0, NEW w \in Workers
             PROVE  /\ iter'[w] <= PerWorker'
                    /\ pc'[w] \notin {"top", "cleanup", "done"} => iter'[w] < PerWorker'
                    /\ pc'[w] \in {"cleanup", "done"} /\ err'[w] = "nil" /\ ctx' = "live" =>
                           iter'[w] = PerWorker'
  BY DEF CountInv
<1>1. PerWorker' = PerWorker /\ iter' = iter
  BY DEF KeepsCount, PerWorker
<1>2. QED
  BY <1>1 DEF CountInv, KeepsCount

LEMMA CountIterated ==
  ASSUME TypeOK, CountInv, NEW w \in Workers, NextIteration(w), UNCHANGED <<flags, ctx>>,
         pc[w] \notin {"top", "cleanup", "done"}
  PROVE  CountInv'
<1> SUFFICES ASSUME PerWorker > 0  PROVE CountInv'
  BY DEF CountInv, PerWorker
<1>1. PerWorker' = PerWorker /\ PerWorker \in Nat /\ PerWorker < IterCap /\ IterCap \in Nat
  BY ShareOfCount, WorkerAssumption DEF PerWorker, IterCap, TypeOK, WorkerAssumption, FlagSets
<1>2. iter[w] < PerWorker /\ iter[w] \in Nat
  BY DEF CountInv, TypeOK
<1>3. iter' = [iter EXCEPT ![w] = iter[w] + 1] /\ pc' = [pc EXCEPT ![w] = "top"]
      /\ err' = [err EXCEPT ![w] = "nil"]
  <2>1. iter[w] < IterCap
    BY <1>1, <1>2
  <2>2. iter' = [iter EXCEPT ![w] = IF iter[w] < IterCap THEN iter[w] + 1 ELSE iter[w]]
    BY Zenon DEF NextIteration
  <2>3. QED
    BY <2>1, <2>2 DEF NextIteration, Goto
<1>4. ASSUME NEW v \in Workers
      PROVE  /\ iter'[v] <= PerWorker
             /\ pc'[v] \notin {"top", "cleanup", "done"} => iter'[v] < PerWorker
             /\ pc'[v] \in {"cleanup", "done"} /\ err'[v] = "nil" /\ ctx' = "live" =>
                    iter'[v] = PerWorker
  <2>1. CASE v = w
    BY <1>1, <1>2, <1>3, <2>1 DEF TypeOK
  <2>2. CASE v # w
    BY <1>3, <2>2 DEF CountInv, TypeOK
  <2>3. QED
    BY <2>1, <2>2
<1>5. QED
  BY <1>1, <1>4 DEF CountInv

LEMMA CountStep == IInv /\ CountInv /\ [RunsNext]_vars => CountInv'
<1> SUFFICES ASSUME IInv, CountInv, [RunsNext]_vars  PROVE CountInv'
  OBVIOUS
<1>0. TypeOK /\ ErrInv
  BY DEF IInv
<1>k. KeepsCount => CountInv'
  BY <1>0, CountKept
<1>1. ASSUME NEW w \in Workers, InitThread(w)  PROVE CountInv'
  <2>1. /\ pc[w] = "init" /\ pc' = [pc EXCEPT ![w] = "top"] /\ UNCHANGED <<flags, iter, err, ctx>>
    BY <1>1 DEF InitThread, At, Goto
  <2>2. KeepsCount
    BY <2>1, <1>0 DEF KeepsCount, TypeOK
  <2>3. QED
    BY <2>2, <1>k
<1>2. ASSUME NEW w \in Workers, Top(w)  PROVE CountInv'
  <2> SUFFICES ASSUME PerWorker > 0  PROVE CountInv'
    BY <1>2 DEF CountInv, PerWorker, Top
  <2>1. /\ pc[w] = "top" /\ UNCHANGED <<flags, iter, err, ctx>>
        /\ \/ iter[w] < PerWorker /\ \E s \in RunSteps : pc' = [pc EXCEPT ![w] = s]
           \/ ~(iter[w] < PerWorker /\ ctx = "live") /\ pc' = [pc EXCEPT ![w] = "cleanup"]
    BY <1>2 DEF Top, At, Goto, MoreIterations, RunStart, RunSteps
  <2>2. PerWorker' = PerWorker /\ PerWorker \in Nat /\ iter[w] \in Nat
    BY <2>1, <1>0, ShareOfCount DEF PerWorker, TypeOK
  <2>3. QED
    BY <2>1, <2>2, <1>0 DEF CountInv, TypeOK, RunSteps
<1>3. ASSUME NEW w \in Workers, RunFails(w)  PROVE CountInv'
  <2>1. /\ pc[w] = "failed" /\ err[w] # "nil" /\ UNCHANGED <<flags, iter, ctx>>
        /\ \/ ctx # "live"
           \/ pc' = [pc EXCEPT ![w] = "backoff"]
           \/ UNCHANGED err
        /\ \E s \in {"cleanup", "backoff"} : pc' = [pc EXCEPT ![w] = s]
        /\ \E e \in {"nil", err[w]} : err' = [err EXCEPT ![w] = e]
    BY <1>3, <1>0 DEF RunFails, At, Goto, ErrInv, TypeOK
  <2>2. PerWorker' = PerWorker
    BY <2>1 DEF PerWorker
  <2>3. QED
    BY <2>1, <2>2, <1>0 DEF CountInv, TypeOK
<1>4. ASSUME NEW w \in Workers, Backoff(w)  PROVE CountInv'
  <2>1. pc[w] = "backoff" /\ UNCHANGED <<flags, ctx>>
    BY <1>4 DEF Backoff, At
  <2>2. CASE NextIteration(w)
    BY <2>1, <2>2, <1>0, CountIterated
  <2>3. CASE ctx # "live" /\ Goto(w, "cleanup") /\ UNCHANGED <<iter, err, expired>>
    <3>1. PerWorker' = PerWorker
      BY <2>1 DEF PerWorker
    <3>2. QED
      BY <2>1, <2>3, <3>1, <1>0 DEF CountInv, TypeOK, Goto
  <2>4. QED
    BY <1>4, <2>2, <2>3 DEF Backoff
<1>5. ASSUME NEW w \in Workers, Cleanup(w)  PROVE CountInv'
  <2>1. /\ pc[w] = "cleanup" /\ pc' = [pc EXCEPT ![w] = "done"]
        /\ UNCHANGED <<flags, iter, err, ctx>>
    BY <1>5 DEF Cleanup, At, Goto
  <2>2. PerWorker' = PerWorker
    BY <2>1 DEF PerWorker
  <2>3. QED
    BY <2>1, <2>2, <1>0 DEF CountInv, TypeOK
<1>6. ASSUME NEW w \in Workers,
             AutoRefresh(w) \/ NoRefresh(w) \/ InstallBegin(w) \/ InstallEnd(w) \/
             Installed(w) \/ StmtsReady(w) \/ PrepareStmts(w)
      PROVE  CountInv'
  <2>1. KeepsCount
    BY <1>6, <1>0 DEF KeepsCount, TypeOK, AutoRefresh, NoRefresh, InstallBegin, InstallEnd,
        Installed, StmtsReady, PrepareStmts, At, Goto, Fail, conns, shared
  <2>2. QED
    BY <2>1, <1>k
<1>7. ASSUME NEW w \in Workers, TxnError(w) \/ TxnTimesOut(w) \/ TxnDisconnected(w)
      PROVE  CountInv'
  <2>1. KeepsCount
    BY <1>7, <1>0 DEF KeepsCount, TypeOK, TxnError, TxnTimesOut, TxnDisconnected, At, Goto, Fail
  <2>2. QED
    BY <2>1, <1>k
<1>8. ASSUME NEW w \in Workers, TxnCommits(w) \/ TxnConflict(w) \/ Reconnect(w) \/ RowsRead(w)
      PROVE  CountInv'
  <2>1. pc[w] \in {"txn", "reconnect", "rows"} /\ UNCHANGED <<flags, ctx>>
    BY <1>8 DEF TxnCommits, TxnConflict, Reconnect, RowsRead, At
  <2>2. CASE NextIteration(w)
    BY <2>1, <2>2, <1>0, CountIterated
  <2>3. CASE \E e \in Errors : Fail(w, e)
    <3>1. KeepsCount
      BY <2>1, <2>3, <1>0 DEF KeepsCount, TypeOK, Goto, Fail
    <3>2. QED
      BY <3>1, <1>k
  <2>4. QED
    BY <1>8, <2>2, <2>3 DEF TxnCommits, TxnConflict, Reconnect, RowsRead, Errors
<1>9. ASSUME NEW w \in Workers,
             DumpBegin(w) \/ DumpEnd(w) \/ Query(w) \/ QueryDisconnected(w) \/ Pause(w) \/
             Reopen(w) \/ Requery(w) \/ RowsFail(w)
      PROVE  CountInv'
  <2>1. KeepsCount
    BY <1>9, <1>0 DEF KeepsCount, TypeOK, DumpBegin, DumpEnd, Query, QueryDisconnected, Pause,
        Reopen, Requery, RowsFail, At, Goto, Answered, Refused, Interrupted, Idle, Fail
  <2>2. QED
    BY <2>1, <1>k
<1>10. CASE \/ \E w \in Workers : InitPanics(w) \/ Expire(w) \/ IntervalPasses(w) \/ ConnectionBreaks(w)
            \/ CreateView \/ Stop \/ TickerEnds \/ Return
            \/ Deadline \/ Signal \/ ForceExit \/ ServerDown \/ ServerUp
            \/ UNCHANGED vars
  <2>1. UNCHANGED <<flags, iter, pc, err>> /\ (ctx # "live" => ctx' # "live")
    BY <1>10 DEF InitPanics, Expire, IntervalPasses, ConnectionBreaks, CreateView, Stop, TickerEnds,
        Return, Deadline, Signal, ForceExit, ServerDown, ServerUp, vars
  <2>2. KeepsCount
    BY <2>1 DEF KeepsCount
  <2>3. QED
    BY <2>2, <1>k
<1>11. QED
  BY <1>1, <1>2, <1>3, <1>4, <1>5, <1>6, <1>7, <1>8, <1>9, <1>10
     DEF RunsNext, Goroutine, Loop, Run, RunQuery, Environment, Terminated

LEMMA CountSums == IInv /\ CountInv => CountRespected
<1> SUFFICES ASSUME IInv, CountInv, PerWorker > 0
             PROVE  /\ SumFunction(iter) <= flags.count
                    /\ command = "ok" /\ errCh = "nil" /\ ctx = "live" =>
                           SumFunction(iter) = flags.count - (flags.count % Cardinality(Workers))
  BY DEF CountRespected
<1> DEFINE share == [w \in Workers |-> PerWorker]
<1>1. /\ DOMAIN iter = Workers /\ IsFiniteSet(Workers)
      /\ \A w \in Workers : iter[w] \in Int /\ iter[w] <= PerWorker
  BY WorkerAssumption DEF IInv, TypeOK, CountInv, WorkerAssumption
<1>2. /\ PerWorker \in Int /\ Cardinality(Workers) \in Nat
      /\ Cardinality(Workers) * PerWorker = flags.count - (flags.count % Cardinality(Workers))
      /\ Cardinality(Workers) * PerWorker <= flags.count
  BY ShareOfCount DEF IInv
<1>3. \A w \in Workers : share[w] = PerWorker
  OBVIOUS
<1> HIDE DEF share
<1>4. SumFunctionOnSet(share, Workers) = Cardinality(Workers) * PerWorker
  BY <1>1, <1>2, <1>3, SumConstant
<1>5. SumFunctionOnSet(iter, Workers) <= SumFunctionOnSet(share, Workers)
  BY <1>1, <1>2, <1>3, SumBelow
<1>6. ASSUME command = "ok", errCh = "nil", ctx = "live"
      PROVE  SumFunctionOnSet(iter, Workers) = Cardinality(Workers) * PerWorker
  <2>1. \A w \in Workers : iter[w] = PerWorker
    BY <1>6 DEF IInv, CommandInv, CountInv
  <2>2. QED
    BY <2>1, <1>1, <1>2, SumConstant
<1>7. SumFunctionOnSet(iter, Workers) \in Int /\ SumFunctionOnSet(share, Workers) \in Int
  BY <1>1, <1>2, <1>3, SumType
<1>8. SumFunctionOnSet(iter, Workers) <= flags.count
  <2>1. flags.count \in Int
    BY WorkerAssumption DEF IInv, TypeOK, WorkerAssumption, FlagSets
  <2>2. QED
    BY <2>1, <1>2, <1>4, <1>5, <1>7
<1>9. QED
  BY <1>1, <1>2, <1>6, <1>8 DEF SumFunction

(* No more iterations than --count, and all that divide evenly among the workers if  *)
(* nothing cut the benchmark short (misc.go, runLoop).                               *)
THEOREM CountKeptTo == RunsSpec => []CountRespected
<1>1. Init => CountInv
  <2> SUFFICES ASSUME Init, PerWorker > 0  PROVE CountInv
    BY DEF CountInv
  <2>1. PerWorker \in Nat
    BY InvInit, ShareOfCount DEF IInv
  <2>2. QED
    BY <2>1 DEF Init, CountInv
<1>2. QED
  BY <1>1, CountStep, CountSums, Invariance, PTL DEF RunsSpec
==============================================================================
