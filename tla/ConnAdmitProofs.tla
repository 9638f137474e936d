--------------------------- MODULE ConnAdmitProofs ---------------------------
(***************************************************************************)
(* Proofs about ConnAdmit, for any callers, any --conn-admit-retries and   *)
(* any number of calls.                                                    *)
(***************************************************************************)
EXTENDS ConnAdmit, SumTheorems

(* A connection is opened only below the limit, and the count of a Connect does *)
(* not change while the connection is judged.                                   *)
BelowLimit == \A c \in Callers : pc[c] \in {"judge", "keep"} => rejections[c] < MaxRejections

(* OnlyAdmittedUsed by its parts, the first as two inclusions. *)
OpenIsKnown == \A n \in open : n \in pool \/ \E c \in Callers : Holding(c) /\ conn[c] = n
KnownIsOpen == pool \subseteq open /\ \A c \in Callers : Holding(c) => conn[c] \in open
PoolAdmitted == \A p \in pool : verdict[p] = "true"
KeptAdmitted == \A c \in Callers : pc[c] \in {"keep", "have"} => verdict[conn[c]] = "true"
OneHolder == \A c, d \in Callers : Holding(c) /\ Holding(d) /\ conn[c] = conn[d] => c = d
HeldOrIdle == \A c \in Callers : Holding(c) => conn[c] \notin pool

UseInv == /\ OpenIsKnown /\ KnownIsOpen /\ PoolAdmitted
          /\ KeptAdmitted /\ OneHolder /\ HeldOrIdle

LEMMA UseByParts == UseInv <=> OnlyAdmittedUsed
  BY DEF UseInv, OpenIsKnown, KnownIsOpen, PoolAdmitted, KeptAdmitted, OneHolder, HeldOrIdle,
         OnlyAdmittedUsed

IInv == TypeOK /\ BelowLimit /\ UseInv

LEMMA ConstantTypes == MaxRejections \in Nat /\ MaxRejections > 0 /\ MaxConnects \in Nat
  BY AdmitAssumption DEF AdmitAssumption

LEMMA InvInit == Init => IInv
<1> SUFFICES ASSUME Init  PROVE IInv
  OBVIOUS
<1>1. TypeOK
  BY ConstantTypes DEF Init, TypeOK, Verdicts
<1>2. BelowLimit /\ UseInv
  BY DEF Init, BelowLimit, UseInv, OpenIsKnown, KnownIsOpen, PoolAdmitted, KeptAdmitted,
         OneHolder, HeldOrIdle, Holding
<1>3. QED
  BY <1>1, <1>2 DEF IInv

(* The record keeps its type when a Connect that is below the limit returns. *)
LEMMA RecordTyped ==
  ASSUME NEW c \in Callers, TypeOK, NEW accepted \in BOOLEAN,
         accepted => rejections[c] < MaxRejections, Record(c, accepted)
  PROVE  /\ stats'.accepted \in Nat
         /\ stats'.rejections \in Nat
         /\ stats'.connections \in Seq(0..(MaxRejections - 1))
<1>1. rejections[c] \in Nat /\ (accepted => rejections[c] \in 0..(MaxRejections - 1))
  BY ConstantTypes DEF TypeOK
<1>2. /\ stats'.accepted = (IF accepted THEN stats.accepted + 1 ELSE stats.accepted)
      /\ stats'.rejections = stats.rejections + rejections[c]
      /\ stats'.connections = IF accepted THEN Append(stats.connections, rejections[c])
                              ELSE stats.connections
  BY DEF Record, Recorded
<1>3. stats'.accepted \in Nat /\ stats'.rejections \in Nat
  BY <1>1, <1>2 DEF TypeOK
<1>4. stats'.connections \in Seq(0..(MaxRejections - 1))
  <2>1. stats.connections \in Seq(0..(MaxRejections - 1))
    BY DEF TypeOK
  <2>2. CASE accepted
    BY <2>1, <2>2, <1>1, <1>2, AppendProperties
  <2>3. CASE ~accepted
    BY <2>1, <2>3, <1>2
  <2>4. QED
    BY <2>2, <2>3
<1>5. QED
  BY <1>3, <1>4

(* A verdict changes one entry; a new connection adds one. *)
LEMMA Judged ==
  ASSUME NEW c \in Callers, NEW v \in {"true", "false", "error"}, IInv, Judge(c, v)
  PROVE  /\ pc[c] = "judge" /\ verdict' \in Seq(Verdicts) /\ Len(verdict') = Len(verdict)
         /\ verdict'[conn[c]] = v
         /\ \A n \in 1..Len(verdict) : n # conn[c] => verdict'[n] = verdict[n]
<1>1. conn[c] \in 1..Len(verdict)
  BY DEF Judge, IInv, UseInv, KnownIsOpen, Holding, TypeOK
<1>2. v \in Verdicts
  BY DEF Verdicts
<1>3. QED
  BY <1>1, <1>2, ExceptSeq DEF Judge, IInv, TypeOK

LEMMA Opened ==
  ASSUME NEW c \in Callers, IInv, NewConn(c)
  PROVE  /\ verdict' \in Seq(Verdicts) /\ Len(verdict') = Len(verdict) + 1
         /\ \A n \in 1..Len(verdict) : verdict'[n] = verdict[n]
         /\ open' = open \cup {Len(verdict) + 1}
         /\ conn' = [conn EXCEPT ![c] = Len(verdict) + 1]
         /\ Len(verdict) + 1 \notin open \cup pool
<1>1. "none" \in Verdicts
  BY DEF Verdicts
<1>2. QED
  BY <1>1, AppendProperties DEF NewConn, IInv, TypeOK

(* TypeOK by its parts: what callers do, which connections there are, the record. *)
CallersTyped == /\ pc \in [Callers -> {"idle", "open", "judge", "keep", "have", "failed"}]
                /\ rejections \in [Callers -> 0..MaxRejections]
                /\ connects \in 0..MaxConnects

ConnsTyped == /\ verdict \in Seq(Verdicts)
              /\ conn \in [Callers -> 0..Len(verdict)]
              /\ open \subseteq 1..Len(verdict)
              /\ pool \subseteq 1..Len(verdict)

StatsTyped == /\ stats.accepted \in Nat
              /\ stats.rejections \in Nat
              /\ stats.connections \in Seq(0..(MaxRejections - 1))

LEMMA TypesByPart == TypeOK <=> CallersTyped /\ ConnsTyped /\ StatsTyped
  BY DEF TypeOK, CallersTyped, ConnsTyped, StatsTyped

LEMMA CallersStep == IInv /\ [Next]_vars => CallersTyped' /\ BelowLimit'
<1> SUFFICES ASSUME IInv, [Next]_vars  PROVE CallersTyped' /\ BelowLimit'
  OBVIOUS
<1>0. CallersTyped /\ BelowLimit /\ MaxRejections \in Nat /\ MaxConnects \in Nat
  BY ConstantTypes, TypesByPart DEF IInv
<1> USE DEF Goto, CallersTyped, BelowLimit
<1>1. ASSUME NEW c \in Callers, Reuse(c) \/ Release(c) \/ Discard(c) \/ AskAgain(c)
      PROVE  CallersTyped' /\ BelowLimit'
  BY <1>0, <1>1 DEF Reuse, Release, Discard, AskAgain
<1>2. ASSUME NEW c \in Callers, Connect(c)  PROVE CallersTyped' /\ BelowLimit'
  BY <1>0, <1>2 DEF Connect
<1>3. ASSUME NEW c \in Callers, Open(c)  PROVE CallersTyped' /\ BelowLimit'
  BY <1>0, <1>3 DEF Open, NewConn
<1>4. ASSUME NEW c \in Callers, OpenFails(c) \/ Accept(c) \/ JudgeFails(c) \/ GiveUp(c)
      PROVE  CallersTyped' /\ BelowLimit'
  BY <1>0, <1>4 DEF OpenFails, Accept, JudgeFails, GiveUp
<1>5. ASSUME NEW c \in Callers, Keep(c)  PROVE CallersTyped' /\ BelowLimit'
  BY <1>0, <1>5 DEF Keep, Judge
<1>6. ASSUME NEW c \in Callers, Reject(c)  PROVE CallersTyped' /\ BelowLimit'
  <2>1. rejections[c] + 1 \in 0..MaxRejections
    BY <1>0, <1>6 DEF Reject, Judge
  <2>2. QED
    BY <2>1, <1>0, <1>6 DEF Reject
<1>7. CASE UNCHANGED vars
  BY <1>0, <1>7 DEF vars
<1>8. QED
  BY <1>1, <1>2, <1>3, <1>4, <1>5, <1>6, <1>7 DEF Next, Caller

LEMMA ConnsStep == IInv /\ [Next]_vars => ConnsTyped'
<1> SUFFICES ASSUME IInv, [Next]_vars  PROVE ConnsTyped'
  OBVIOUS
<1>0. ConnsTyped /\ Len(verdict) \in Nat /\ 0 \in 0..Len(verdict)
  BY TypesByPart DEF IInv, ConnsTyped
<1>1. ASSUME NEW c \in Callers, Reuse(c)  PROVE ConnsTyped'
  <2>1. PICK p \in pool : pool' = pool \ {p} /\ conn' = [conn EXCEPT ![c] = p]
    BY <1>1 DEF Reuse
  <2>2. p \in 0..Len(verdict) /\ UNCHANGED <<verdict, open>>
    BY <1>0, <1>1 DEF Reuse, ConnsTyped
  <2>3. conn' \in [Callers -> 0..Len(verdict)]
    BY <2>1, <2>2, <1>0 DEF ConnsTyped
  <2>4. QED
    BY <2>1, <2>2, <2>3, <1>0 DEF ConnsTyped
<1>2. ASSUME NEW c \in Callers,
             Connect(c) \/ AskAgain(c) \/ OpenFails(c) \/ Accept(c) \/ GiveUp(c)
      PROVE  ConnsTyped'
  BY <1>0, <1>2 DEF Connect, AskAgain, OpenFails, Accept, GiveUp, ConnsTyped
<1>3. ASSUME NEW c \in Callers, Release(c)  PROVE ConnsTyped'
  <2>1. conn[c] \in open
    BY <1>3 DEF Release, IInv, UseInv, KnownIsOpen, Holding
  <2>2. pool' \subseteq 1..Len(verdict)
    BY <2>1, <1>0, <1>3 DEF Release, ConnsTyped
  <2>3. QED
    BY <2>2, <1>0, <1>3 DEF Release, ConnsTyped
<1>4. ASSUME NEW c \in Callers, Discard(c)  PROVE ConnsTyped'
  BY <1>0, <1>4 DEF Discard, ConnsTyped
<1>5. ASSUME NEW c \in Callers, Open(c)  PROVE ConnsTyped'
  <2>1. /\ verdict' \in Seq(Verdicts) /\ Len(verdict') = Len(verdict) + 1
        /\ open' = open \cup {Len(verdict) + 1}
        /\ conn' = [conn EXCEPT ![c] = Len(verdict) + 1] /\ UNCHANGED pool
    BY <1>5, Opened DEF Open, NewConn
  <2>2. 0..Len(verdict) \subseteq 0..Len(verdict') /\ 1..Len(verdict) \subseteq 1..Len(verdict')
    BY <2>1, <1>0
  <2>3. Len(verdict) + 1 \in 1..Len(verdict') /\ 1..Len(verdict') \subseteq 0..Len(verdict')
    BY <2>1, <1>0
  <2> HIDE <1>0
  <2>4. conn \in [Callers -> 0..Len(verdict)] /\ open \subseteq 1..Len(verdict)
        /\ pool \subseteq 1..Len(verdict)
    BY <1>0 DEF ConnsTyped
  <2> DEFINE Old == 0..Len(verdict)
             New == 0..Len(verdict')
             OldOnes == 1..Len(verdict)
             NewOnes == 1..Len(verdict')
  <2>5. conn' \in [Callers -> New] /\ open' \subseteq NewOnes /\ pool' \subseteq NewOnes
    <3>1. /\ Old \subseteq New /\ OldOnes \subseteq NewOnes /\ Len(verdict) + 1 \in NewOnes
          /\ NewOnes \subseteq New /\ conn \in [Callers -> Old] /\ open \subseteq OldOnes
          /\ pool \subseteq OldOnes
      BY <2>2, <2>3, <2>4
    <3> HIDE DEF Old, New, OldOnes, NewOnes
    <3>2. QED
      BY <3>1, <2>1
  <2>6. QED
    BY <2>1, <2>5 DEF ConnsTyped
<1>6. ASSUME NEW c \in Callers, Keep(c)  PROVE ConnsTyped'
  <2>1. verdict' \in Seq(Verdicts) /\ Len(verdict') = Len(verdict)
    BY <1>6, Judged DEF Keep
  <2>2. QED
    BY <2>1, <1>0, <1>6 DEF Keep, ConnsTyped
<1>7. ASSUME NEW c \in Callers, Reject(c) \/ JudgeFails(c)  PROVE ConnsTyped'
  <2>1. verdict' \in Seq(Verdicts) /\ Len(verdict') = Len(verdict)
    BY <1>7, Judged DEF Reject, JudgeFails
  <2>2. open' = open \ {conn[c]} /\ conn' = [conn EXCEPT ![c] = 0] /\ UNCHANGED pool
    BY <1>7 DEF Reject, JudgeFails, Close
  <2>3. open' \subseteq 1..Len(verdict)
    BY <2>2, <1>0 DEF ConnsTyped
  <2>4. conn' \in [Callers -> 0..Len(verdict)]
    BY <2>2, <1>0 DEF ConnsTyped
  <2>5. QED
    BY <2>1, <2>2, <2>3, <2>4, <1>0 DEF ConnsTyped
<1>8. CASE UNCHANGED vars
  BY <1>0, <1>8 DEF vars, ConnsTyped
<1>9. QED
  BY <1>1, <1>2, <1>3, <1>4, <1>5, <1>6, <1>7, <1>8 DEF Next, Caller

LEMMA StatsStep == IInv /\ [Next]_vars => StatsTyped'
<1> SUFFICES ASSUME IInv, [Next]_vars  PROVE StatsTyped'
  OBVIOUS
<1>1. ASSUME NEW c \in Callers, Accept(c)  PROVE StatsTyped'
  <2>1. rejections[c] < MaxRejections
    BY <1>1 DEF Accept, IInv, BelowLimit
  <2>2. QED
    BY <2>1, <1>1, RecordTyped DEF Accept, IInv, StatsTyped
<1>2. ASSUME NEW c \in Callers, OpenFails(c) \/ JudgeFails(c) \/ GiveUp(c)  PROVE StatsTyped'
  <2>1. Record(c, FALSE)
    BY <1>2 DEF OpenFails, JudgeFails, GiveUp
  <2>2. QED
    BY <2>1, RecordTyped DEF IInv, StatsTyped
<1>3. CASE UNCHANGED stats
  BY <1>3, TypesByPart DEF IInv, StatsTyped
<1>4. QED
  BY <1>1, <1>2, <1>3 DEF Next, Caller, vars, Reuse, Connect, Release, Discard, AskAgain, Open,
                          NewConn, Keep, Reject

LEMMA TypeStep == IInv /\ [Next]_vars => TypeOK' /\ BelowLimit'
<1>1. CallersTyped' /\ ConnsTyped' /\ StatsTyped' => TypeOK'
  BY DEF TypeOK, CallersTyped, ConnsTyped, StatsTyped
<1>2. QED
  BY <1>1, CallersStep, ConnsStep, StatsStep

-------------------------------------------------------------------------------

LEMMA UseStep == IInv /\ [Next]_vars => UseInv'
<1> SUFFICES ASSUME IInv, [Next]_vars  PROVE UseInv'
  OBVIOUS
<1> USE DEF UseInv, OpenIsKnown, KnownIsOpen, PoolAdmitted, KeptAdmitted, OneHolder, HeldOrIdle,
            Holding
<1>0. /\ UseInv /\ conn \in [Callers -> 0..Len(verdict)]
      /\ pc \in [Callers -> {"idle", "open", "judge", "keep", "have", "failed"}]
  BY DEF IInv, TypeOK
<1>k. \A n \in open \cup pool : n \in 1..Len(verdict)
  BY DEF IInv, TypeOK
<1>1. ASSUME NEW c \in Callers, Reuse(c)  PROVE UseInv'
  BY <1>0, <1>1 DEF Reuse, Goto
<1>2. ASSUME NEW c \in Callers, Connect(c) \/ AskAgain(c) \/ OpenFails(c) \/ GiveUp(c)
      PROVE  UseInv'
  <2>1. /\ UNCHANGED <<conn, verdict, open, pool>> /\ ~Holding(c)
        /\ \E l \in {"open", "idle", "failed"} : pc' = [pc EXCEPT ![c] = l]
    BY <1>2 DEF Connect, AskAgain, OpenFails, GiveUp, Goto
  <2>2. QED
    BY <2>1, <1>0
<1>3. ASSUME NEW c \in Callers, Release(c)  PROVE UseInv'
  BY <1>0, <1>3 DEF Release, Goto
<1>4. ASSUME NEW c \in Callers, Discard(c)  PROVE UseInv'
  BY <1>0, <1>4 DEF Discard, Goto
<1>5. ASSUME NEW c \in Callers, Open(c)  PROVE UseInv'
  <2>1. /\ \A n \in 1..Len(verdict) : verdict'[n] = verdict[n]
        /\ open' = open \cup {Len(verdict) + 1}
        /\ conn' = [conn EXCEPT ![c] = Len(verdict) + 1]
        /\ Len(verdict) + 1 \notin open \cup pool
    BY <1>5, Opened DEF Open
  <2>2. pc' = [pc EXCEPT ![c] = "judge"] /\ ~Holding(c) /\ UNCHANGED pool
    BY <1>5 DEF Open, NewConn, Goto
  <2>3. /\ \A n \in open \cup pool : verdict'[n] = verdict[n] /\ n # Len(verdict) + 1
        /\ \A d \in Callers : d # c => conn'[d] = conn[d] /\ pc'[d] = pc[d]
        /\ conn'[c] = Len(verdict) + 1 /\ pc'[c] = "judge"
    BY <2>1, <2>2, <1>0, <1>k
  <2>4. OpenIsKnown' /\ KnownIsOpen' /\ HeldOrIdle'
    BY <2>1, <2>2, <2>3, <1>0
  <2>5. OneHolder' /\ PoolAdmitted' /\ KeptAdmitted'
    BY <2>1, <2>2, <2>3, <1>0
  <2>6. QED
    BY <2>4, <2>5
<1>6. ASSUME NEW c \in Callers, Keep(c)  PROVE UseInv'
  <2>1. /\ pc[c] = "judge" /\ verdict'[conn[c]] = "true"
        /\ \A n \in 1..Len(verdict) : n # conn[c] => verdict'[n] = verdict[n]
    BY <1>6, Judged DEF Keep
  <2>2. pc' = [pc EXCEPT ![c] = "keep"] /\ UNCHANGED <<conn, open, pool>>
    BY <1>6 DEF Keep, Goto
  <2>3. \A n \in open \cup pool : n # conn[c] => verdict'[n] = verdict[n]
    BY <2>1, <1>k
  <2>4. OpenIsKnown' /\ KnownIsOpen' /\ HeldOrIdle' /\ OneHolder'
    BY <2>1, <2>2, <1>0
  <2>5. PoolAdmitted' /\ KeptAdmitted'
    BY <2>1, <2>2, <2>3, <1>0
  <2>6. QED
    BY <2>4, <2>5
<1>7. ASSUME NEW c \in Callers, Accept(c)  PROVE UseInv'
  BY <1>0, <1>7 DEF Accept, Goto
<1>8. ASSUME NEW c \in Callers, Reject(c) \/ JudgeFails(c)  PROVE UseInv'
  <2>1. /\ pc[c] = "judge"
        /\ \A n \in 1..Len(verdict) : n # conn[c] => verdict'[n] = verdict[n]
    BY <1>8, Judged DEF Reject, JudgeFails
  <2>2. /\ \E l \in {"open", "failed"} : pc' = [pc EXCEPT ![c] = l]
        /\ open' = open \ {conn[c]} /\ conn' = [conn EXCEPT ![c] = 0] /\ UNCHANGED pool
    BY <1>8 DEF Reject, JudgeFails, Close, Goto
  <2>3. \A n \in open \cup pool : n # conn[c] => verdict'[n] = verdict[n]
    BY <2>1, <1>k
  <2>4. \A d \in Callers : /\ d # c => conn'[d] = conn[d] /\ pc'[d] = pc[d]
                           /\ d = c => pc'[d] \in {"open", "failed"}
    BY <2>2, <1>0
  <2>5. OpenIsKnown' /\ KnownIsOpen' /\ HeldOrIdle' /\ OneHolder'
    BY <2>1, <2>2, <2>4, <1>0
  <2>6. PoolAdmitted' /\ KeptAdmitted'
    BY <2>1, <2>2, <2>3, <2>4, <1>0
  <2>7. QED
    BY <2>5, <2>6
<1>9. CASE UNCHANGED vars
  BY <1>0, <1>9 DEF vars
<1>10. QED
  BY <1>1, <1>2, <1>3, <1>4, <1>5, <1>6, <1>7, <1>8, <1>9 DEF Next, Caller

(* The record: a connection that is being judged has no verdict yet.              *)
Unjudged == \A c \in Callers : pc[c] = "judge" => verdict[conn[c]] = "none"

(* RecordAgrees by its parts. *)
Keeping == {c \in Callers : pc[c] = "keep"}
AcceptedAgree == Count("true") = stats.accepted + Cardinality(Keeping)
RejectedAgree == Count("false") = stats.rejections + SumFunctionOnSet(rejections, InConnect)
ListedAgree == /\ Len(stats.connections) = stats.accepted
               /\ SumFunction(stats.connections) <= stats.rejections

RecordInv == Unjudged /\ AcceptedAgree /\ RejectedAgree /\ ListedAgree

LEMMA RecordByParts == RecordAgrees <=> AcceptedAgree /\ RejectedAgree /\ ListedAgree
  BY DEF RecordAgrees, AcceptedAgree, RejectedAgree, ListedAgree, Keeping

(* A verdict given to a connection without one is counted, and no other count changes; *)
(* nor does any when a connection is opened.                                           *)
LEMMA CountJudged ==
  ASSUME NEW c \in Callers, NEW v \in {"true", "false", "error"}, IInv, Unjudged, Judge(c, v),
         NEW w \in {"true", "false", "error"}
  PROVE  Count(w)' = IF w = v THEN Count(w) + 1 ELSE Count(w)
<1> DEFINE Old == {n \in 1..Len(verdict) : verdict[n] = w}
<1>1. /\ pc[c] = "judge" /\ verdict' \in Seq(Verdicts) /\ Len(verdict') = Len(verdict)
      /\ verdict'[conn[c]] = v
      /\ \A n \in 1..Len(verdict) : n # conn[c] => verdict'[n] = verdict[n]
  BY Judged
<1>2. verdict \in Seq(Verdicts) /\ Len(verdict) \in Nat /\ conn[c] \in 1..Len(verdict)
  BY <1>1 DEF IInv, TypeOK, UseInv, KnownIsOpen, Holding
<1>3. IsFiniteSet(Old) /\ conn[c] \notin Old
  <2>1. IsFiniteSet(1..Len(verdict))
    BY <1>2, FS_Interval
  <2>2. QED
    BY <2>1, <1>1, FS_Subset DEF Unjudged
<1>4. {n \in 1..Len(verdict') : verdict'[n] = w} = IF w = v THEN Old \cup {conn[c]} ELSE Old
  <2>1. \A n \in 1..Len(verdict) :
            verdict'[n] = w <=> n \in (IF w = v THEN Old \cup {conn[c]} ELSE Old)
    BY <1>1, <1>3
  <2>2. QED
    BY <2>1, <1>1, <1>2
<1>5. Count(w) = Cardinality(Old)
  <2>1. DOMAIN verdict = 1..Len(verdict)
    BY <1>2
  <2>2. {n \in DOMAIN verdict : verdict[n] = w} = Old
    BY <2>1
  <2>3. QED
    BY <2>2 DEF Count
<1>6. Count(w)' = Cardinality({n \in 1..Len(verdict') : verdict'[n] = w})
  <2>1. DOMAIN verdict' = 1..Len(verdict')
    BY <1>1
  <2>2. {n \in DOMAIN verdict' : verdict'[n] = w} = {n \in 1..Len(verdict') : verdict'[n] = w}
    BY <2>1
  <2>3. QED
    BY <2>2 DEF Count
<1> HIDE DEF Old
<1>7. QED
  BY <1>3, <1>4, <1>5, <1>6, FS_AddElement

LEMMA CountOpened ==
  ASSUME NEW c \in Callers, IInv, NewConn(c), NEW w \in {"true", "false", "error"}
  PROVE  Count(w)' = Count(w)
<1>1. /\ verdict' = Append(verdict, "none") /\ verdict' \in Seq(Verdicts)
      /\ Len(verdict') = Len(verdict) + 1
      /\ \A n \in 1..Len(verdict) : verdict'[n] = verdict[n]
  BY Opened DEF NewConn
<1>2. verdict \in Seq(Verdicts) /\ Len(verdict) \in Nat
  BY DEF IInv, TypeOK
<1>3. verdict'[Len(verdict) + 1] = "none"
  BY <1>1, <1>2, AppendProperties
<1>4. DOMAIN verdict' = DOMAIN verdict \cup {Len(verdict) + 1} /\ DOMAIN verdict = 1..Len(verdict)
  BY <1>1, <1>2
<1>5. {n \in DOMAIN verdict' : verdict'[n] = w} = {n \in DOMAIN verdict : verdict[n] = w}
  BY <1>1, <1>3, <1>4
<1>6. QED
  BY <1>5 DEF Count

LEMMA UnjudgedStep == IInv /\ Unjudged /\ [Next]_vars => Unjudged'
<1> SUFFICES ASSUME IInv, Unjudged, [Next]_vars  PROVE Unjudged'
  OBVIOUS
<1> USE DEF Unjudged, Goto
<1>0. /\ conn \in [Callers -> 0..Len(verdict)] /\ verdict \in Seq(Verdicts)
      /\ pc \in [Callers -> {"idle", "open", "judge", "keep", "have", "failed"}]
      /\ \A d \in Callers : pc[d] = "judge" => conn[d] \in 1..Len(verdict)
      /\ \A d, e \in Callers : pc[d] = "judge" /\ pc[e] = "judge" /\ conn[d] = conn[e] => d = e
  BY DEF IInv, TypeOK, UseInv, KnownIsOpen, OneHolder, Holding
<1>1. ASSUME NEW c \in Callers, Reuse(c) \/ Release(c) \/ Discard(c)  PROVE Unjudged'
  BY <1>0, <1>1 DEF Reuse, Release, Discard
<1>2. ASSUME NEW c \in Callers, Connect(c) \/ AskAgain(c) \/ OpenFails(c) \/ Accept(c) \/ GiveUp(c)
      PROVE  Unjudged'
  BY <1>0, <1>2 DEF Connect, AskAgain, OpenFails, Accept, GiveUp
<1>3. ASSUME NEW c \in Callers, Open(c)  PROVE Unjudged'
  <2>1. /\ verdict' = Append(verdict, "none") /\ conn' = [conn EXCEPT ![c] = Len(verdict) + 1]
        /\ pc' = [pc EXCEPT ![c] = "judge"]
        /\ \A n \in 1..Len(verdict) : verdict'[n] = verdict[n]
    BY <1>3, Opened DEF Open, NewConn
  <2>2. verdict'[Len(verdict) + 1] = "none"
    BY <1>0, <2>1, AppendProperties
  <2>3. QED
    BY <1>0, <2>1, <2>2
<1>4. ASSUME NEW c \in Callers, Keep(c) \/ Reject(c) \/ JudgeFails(c)  PROVE Unjudged'
  <2>1. /\ pc[c] = "judge"
        /\ \A n \in 1..Len(verdict) : n # conn[c] => verdict'[n] = verdict[n]
    BY <1>4, Judged DEF Keep, Reject, JudgeFails
  <2>2. /\ \E l \in {"keep", "open", "failed"} : pc' = [pc EXCEPT ![c] = l]
        /\ \A d \in Callers : d # c => conn'[d] = conn[d]
    BY <1>0, <1>4 DEF Keep, Reject, JudgeFails, Close
  <2>3. QED
    BY <1>0, <2>1, <2>2
<1>5. CASE UNCHANGED vars
  BY <1>5 DEF vars
<1>6. QED
  BY <1>1, <1>2, <1>3, <1>4, <1>5 DEF Next, Caller

(* What a Connect that returns adds to the record is what it takes out of the sum. *)
LEMMA Returned ==
  ASSUME NEW c \in InConnect, NEW accepted \in BOOLEAN, IInv, ListedAgree, Record(c, accepted),
         UNCHANGED rejections, InConnect' = InConnect \ {c}
  PROVE  /\ stats'.accepted = stats.accepted + (IF accepted THEN 1 ELSE 0)
         /\ stats'.rejections + SumFunctionOnSet(rejections', InConnect') =
                stats.rejections + SumFunctionOnSet(rejections, InConnect)
         /\ ListedAgree'
<1>1. /\ stats'.accepted = (IF accepted THEN stats.accepted + 1 ELSE stats.accepted)
      /\ stats'.rejections = stats.rejections + rejections[c]
      /\ stats'.connections = IF accepted THEN Append(stats.connections, rejections[c])
                              ELSE stats.connections
  BY DEF Record, Recorded
<1>2. /\ stats.accepted \in Nat /\ stats.rejections \in Nat /\ c \in Callers
      /\ stats.connections \in Seq(Int) /\ \A d \in InConnect : rejections[d] \in Nat
  <2>1. \A s \in Seq(0..(MaxRejections - 1)) : s \in Seq(Int)
    BY ConstantTypes
  <2>2. QED
    BY <2>1, ConstantTypes DEF IInv, TypeOK, InConnect
<1>3. IsFiniteSet(InConnect) /\ IsFiniteSet(InConnect \ {c})
  BY AdmitAssumption, FS_Subset DEF InConnect, AdmitAssumption
<1>4. SumFunctionOnSet(rejections, InConnect) =
          rejections[c] + SumFunctionOnSet(rejections, InConnect \ {c})
  BY <1>2, <1>3, SumTakesOut
<1>5. SumFunctionOnSet(rejections, InConnect \ {c}) \in Int
  BY <1>2, <1>3, SumType
<1>6. SumFunction(stats.connections) \in Int
  <2>1. IsFiniteSet(DOMAIN stats.connections)
    BY <1>2, FS_Interval, LenProperties
  <2>2. \A i \in DOMAIN stats.connections : stats.connections[i] \in Int
    BY <1>2
  <2>3. QED
    BY <2>1, <2>2, SumType DEF SumFunction
<1>7. ListedAgree'
  <2>1. CASE accepted
    <3>1. SumFunction(stats'.connections) = SumFunction(stats.connections) + rejections[c]
      BY <1>1, <1>2, <2>1, SumAppend
    <3>2. Len(stats'.connections) = Len(stats.connections) + 1
      BY <1>1, <1>2, <2>1, AppendProperties
    <3>3. QED
      BY <1>1, <1>2, <1>6, <2>1, <3>1, <3>2 DEF ListedAgree
  <2>2. CASE ~accepted
    BY <1>1, <1>2, <1>6, <2>2 DEF ListedAgree
  <2>3. QED
    BY <2>1, <2>2
<1>8. stats'.rejections + SumFunctionOnSet(rejections', InConnect') =
          stats.rejections + SumFunctionOnSet(rejections, InConnect)
  BY <1>1, <1>2, <1>4, <1>5
<1>9. QED
  BY <1>1, <1>2, <1>7, <1>8

LEMMA RecordStep == IInv /\ RecordInv /\ [Next]_vars => AcceptedAgree' /\ RejectedAgree' /\ ListedAgree'
<1> SUFFICES ASSUME IInv, RecordInv, [Next]_vars
             PROVE  AcceptedAgree' /\ RejectedAgree' /\ ListedAgree'
  OBVIOUS
<1> USE DEF Goto
<1> DEFINE Sum == SumFunctionOnSet(rejections, InConnect)
<1>0. /\ pc \in [Callers -> {"idle", "open", "judge", "keep", "have", "failed"}]
      /\ rejections \in [Callers -> 0..MaxRejections] /\ MaxRejections \in Nat
      /\ stats.accepted \in Nat /\ stats.rejections \in Nat
      /\ AcceptedAgree /\ RejectedAgree /\ ListedAgree /\ Unjudged
  BY ConstantTypes DEF IInv, TypeOK, RecordInv
<1>f. IsFiniteSet(InConnect) /\ IsFiniteSet(Keeping) /\ Cardinality(Keeping) \in Nat
  BY AdmitAssumption, FS_Subset, FS_CardinalityType DEF InConnect, Keeping, AdmitAssumption
<1>s. Sum \in Int /\ \A c \in InConnect : rejections[c] \in Int
  <2>1. \A c \in InConnect : rejections[c] \in Int
    BY <1>0 DEF InConnect
  <2>2. QED
    BY <2>1, <1>f, SumType
<1> HIDE DEF Sum
<1>1. ASSUME NEW c \in Callers,
             \/ Reuse(c) \/ Release(c) \/ Discard(c) \/ AskAgain(c)
      PROVE  AcceptedAgree' /\ RejectedAgree' /\ ListedAgree'
  <2>1. Keeping' = Keeping /\ InConnect' = InConnect /\ UNCHANGED <<rejections, verdict, stats>>
    BY <1>0, <1>1 DEF Reuse, Release, Discard, AskAgain, Keeping, InConnect
  <2>2. QED
    BY <2>1, <1>0 DEF AcceptedAgree, RejectedAgree, ListedAgree, Count
<1>2. ASSUME NEW c \in Callers, Connect(c)
      PROVE  AcceptedAgree' /\ RejectedAgree' /\ ListedAgree'
  <2>1. /\ Keeping' = Keeping /\ InConnect' = InConnect \cup {c} /\ c \notin InConnect
        /\ UNCHANGED <<verdict, stats>> /\ rejections' = [rejections EXCEPT ![c] = 0]
    BY <1>0, <1>2 DEF Connect, Keeping, InConnect
  <2>2. rejections'[c] = 0 /\ \A d \in InConnect : rejections'[d] = rejections[d]
    BY <2>1, <1>0 DEF InConnect
  <2>3. \A d \in InConnect \cup {c} : rejections'[d] \in Int
    BY <2>2, <1>s
  <2>4. /\ SumFunctionOnSet(rejections', InConnect \cup {c}) =
               SumFunctionOnSet(rejections', InConnect) + rejections'[c]
        /\ SumFunctionOnSet(rejections', InConnect) = Sum
    <3>1. SumFunctionOnSet(rejections', InConnect \cup {c}) =
              SumFunctionOnSet(rejections', InConnect) + rejections'[c]
      BY <2>1, <2>3, <1>f, SumAdds
    <3>2. SumFunctionOnSet(rejections', InConnect) = Sum
      BY <2>2, <1>f, SumSame DEF Sum
    <3>3. QED
      BY <3>1, <3>2
  <2>5. SumFunctionOnSet(rejections', InConnect') = Sum
    BY <2>1, <2>2, <2>4, <1>s
  <2>6. QED
    BY <2>1, <2>5, <1>0 DEF AcceptedAgree, RejectedAgree, ListedAgree, Count, Sum
<1>3. ASSUME NEW c \in Callers, Open(c)
      PROVE  AcceptedAgree' /\ RejectedAgree' /\ ListedAgree'
  <2>1. Keeping' = Keeping /\ InConnect' = InConnect /\ UNCHANGED <<rejections, stats>>
    BY <1>0, <1>3 DEF Open, NewConn, Keeping, InConnect
  <2>2. Count("true")' = Count("true") /\ Count("false")' = Count("false")
    BY <1>3, CountOpened DEF Open
  <2>3. QED
    BY <2>1, <2>2, <1>0 DEF AcceptedAgree, RejectedAgree, ListedAgree
<1>4. ASSUME NEW c \in Callers, OpenFails(c) \/ GiveUp(c)
      PROVE  AcceptedAgree' /\ RejectedAgree' /\ ListedAgree'
  <2>1. /\ Keeping' = Keeping /\ InConnect' = InConnect \ {c} /\ c \in InConnect
        /\ UNCHANGED <<rejections, verdict>> /\ Record(c, FALSE)
    BY <1>0, <1>4 DEF OpenFails, GiveUp, Keeping, InConnect
  <2>2. /\ stats'.accepted = stats.accepted + 0 /\ ListedAgree'
        /\ stats'.rejections + SumFunctionOnSet(rejections', InConnect') = stats.rejections + Sum
    BY <2>1, <1>0, Returned DEF Sum
  <2>3. QED
    BY <2>1, <2>2, <1>0 DEF AcceptedAgree, RejectedAgree, Count, Sum
<1>5. ASSUME NEW c \in Callers, Keep(c)
      PROVE  AcceptedAgree' /\ RejectedAgree' /\ ListedAgree'
  <2>1. /\ Keeping' = Keeping \cup {c} /\ c \notin Keeping /\ InConnect' = InConnect
        /\ UNCHANGED <<rejections, stats>>
    BY <1>0, <1>5 DEF Keep, Judge, Keeping, InConnect
  <2>2. Count("true")' = Count("true") + 1 /\ Count("false")' = Count("false")
    BY <1>0, <1>5, CountJudged DEF Keep
  <2>3. Cardinality(Keeping') = Cardinality(Keeping) + 1
    BY <2>1, <1>f, FS_AddElement
  <2>4. QED
    <3>1. AcceptedAgree'
      BY <2>1, <2>2, <2>3, <1>0, <1>f DEF AcceptedAgree
    <3>2. RejectedAgree' /\ ListedAgree'
      BY <2>1, <2>2, <1>0 DEF RejectedAgree, ListedAgree
    <3>3. QED
      BY <3>1, <3>2
<1>6. ASSUME NEW c \in Callers, Accept(c)
      PROVE  AcceptedAgree' /\ RejectedAgree' /\ ListedAgree'
  <2>1. /\ Keeping' = Keeping \ {c} /\ c \in Keeping
        /\ InConnect' = InConnect \ {c} /\ c \in InConnect
        /\ UNCHANGED <<rejections, verdict>> /\ Record(c, TRUE)
    BY <1>0, <1>6 DEF Accept, Keeping, InConnect
  <2>2. /\ stats'.accepted = stats.accepted + 1 /\ ListedAgree'
        /\ stats'.rejections + SumFunctionOnSet(rejections', InConnect') = stats.rejections + Sum
    BY <2>1, <1>0, Returned DEF Sum
  <2>3. Cardinality(Keeping') = Cardinality(Keeping) - 1
    BY <2>1, <1>f, FS_RemoveElement
  <2>4. QED
    BY <2>1, <2>2, <2>3, <1>0, <1>f DEF AcceptedAgree, RejectedAgree, Count, Sum
<1>7. ASSUME NEW c \in Callers, Reject(c)
      PROVE  AcceptedAgree' /\ RejectedAgree' /\ ListedAgree'
  <2>1. /\ Keeping' = Keeping /\ InConnect' = InConnect /\ c \in InConnect /\ UNCHANGED stats
        /\ rejections' = [rejections EXCEPT ![c] = @ + 1]
    BY <1>0, <1>7 DEF Reject, Judge, Keeping, InConnect
  <2>2. Count("true")' = Count("true") /\ Count("false")' = Count("false") + 1
    BY <1>0, <1>7, CountJudged DEF Reject
  <2>3. rejections'[c] = rejections[c] + 1 /\ \A d \in InConnect \ {c} : rejections'[d] = rejections[d]
    BY <2>1, <1>0 DEF InConnect
  <2>4. rejections'[c] \in Int /\ rejections[c] \in Int /\ c \in InConnect
    BY <2>1, <2>3, <1>s
  <2>5. SumFunctionOnSet(rejections', InConnect) = (Sum - rejections[c]) + rejections'[c]
    BY <2>3, <2>4, <1>f, <1>s, SumChanges DEF Sum
  <2>6. SumFunctionOnSet(rejections', InConnect') = Sum + 1
    BY <2>1, <2>3, <2>5, <1>s
  <2>7. QED
    BY <2>1, <2>2, <2>6, <1>0, <1>s DEF AcceptedAgree, RejectedAgree, ListedAgree, Sum
<1>8. ASSUME NEW c \in Callers, JudgeFails(c)
      PROVE  AcceptedAgree' /\ RejectedAgree' /\ ListedAgree'
  <2>1. /\ Keeping' = Keeping /\ InConnect' = InConnect \ {c} /\ c \in InConnect
        /\ UNCHANGED rejections /\ Record(c, FALSE)
    BY <1>0, <1>8 DEF JudgeFails, Judge, Keeping, InConnect
  <2>2. /\ stats'.accepted = stats.accepted + 0 /\ ListedAgree'
        /\ stats'.rejections + SumFunctionOnSet(rejections', InConnect') = stats.rejections + Sum
    BY <2>1, <1>0, Returned DEF Sum
  <2>3. Count("true")' = Count("true") /\ Count("false")' = Count("false")
    BY <1>0, <1>8, CountJudged DEF JudgeFails
  <2>4. QED
    BY <2>1, <2>2, <2>3, <1>0 DEF AcceptedAgree, RejectedAgree, Sum
<1>9. CASE UNCHANGED vars
  <2>1. UNCHANGED <<verdict, stats, rejections>> /\ Keeping' = Keeping /\ InConnect' = InConnect
    BY <1>9 DEF vars, Keeping, InConnect
  <2>2. QED
    BY <2>1, <1>0 DEF AcceptedAgree, RejectedAgree, ListedAgree, Count
<1>10. QED
  BY <1>1, <1>2, <1>3, <1>4, <1>5, <1>6, <1>7, <1>8, <1>9 DEF Next, Caller

LEMMA RecordInit == Init => RecordInv
<1> SUFFICES ASSUME Init  PROVE RecordInv
  OBVIOUS
<1>1. Keeping = {} /\ InConnect = {} /\ Unjudged
  BY DEF Init, Keeping, InConnect, Unjudged
<1>2. \A v : Count(v) = 0
  <2>1. \A v : {n \in DOMAIN verdict : verdict[n] = v} = {}
    BY DEF Init
  <2>2. QED
    BY <2>1, FS_EmptySet DEF Count
<1>3. SumFunctionOnSet(rejections, {}) = 0 /\ SumFunction(stats.connections) = 0
  <2>1. DOMAIN stats.connections = {}
    BY DEF Init
  <2>2. QED
    BY <2>1, SumEmpty DEF SumFunction
<1>4. QED
  BY <1>1, <1>2, <1>3, FS_EmptySet
     DEF RecordInv, AcceptedAgree, RejectedAgree, ListedAgree, Init

-------------------------------------------------------------------------------

LEMMA Invariance == Spec => [](IInv /\ RecordInv)
<1>1. IInv /\ RecordInv /\ [Next]_vars => (IInv /\ RecordInv)'
  BY TypeStep, UseStep, UnjudgedStep, RecordStep DEF IInv, RecordInv
<1>2. QED
  BY <1>1, InvInit, RecordInit, PTL DEF Spec

(* Types, and a Connect opens no connection after --conn-admit-retries rejections *)
(* (connadmit.go:71-90).                                                          *)
THEOREM TypeCorrect == Spec => []TypeOK
<1>1. IInv => TypeOK
  BY DEF IInv
<1>2. QED
  BY <1>1, Invariance, PTL

(* Only admitted connections are used or pooled, by one caller each, and every    *)
(* other connection is closed (connadmit.go:75-79).                               *)
THEOREM AdmittedOnly == Spec => []OnlyAdmittedUsed
<1>1. IInv => OnlyAdmittedUsed
  BY UseByParts DEF IInv
<1>2. QED
  BY <1>1, Invariance, PTL

(* The record of outcomes counts every admitted connection and every rejected     *)
(* attempt of a Connect that has returned, and lists the rejections of each       *)
(* admitted one (connadmit.go:24-26, :52-59).                                     *)
THEOREM OutcomesRecorded == Spec => []RecordAgrees
<1>1. RecordInv => RecordAgrees
  BY RecordByParts DEF RecordInv
<1>2. QED
  BY <1>1, Invariance, PTL
=============================================================================
