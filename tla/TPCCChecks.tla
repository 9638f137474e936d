----------------------------- MODULE TPCCChecks -----------------------------
(***************************************************************************)
(* tpcc/check.go: the queries of `go-tpc tpcc check`, as they are written: *)
(* an inner join drops districts that miss on one side, and a comparison   *)
(* with the SUM of no rows, NULL, selects nothing.  A check passes when    *)
(* its query finds no offending row.                                       *)
(***************************************************************************)
EXTENDS TPCC, FiniteSetsExt, Functions

OrderKeysOf(w, d) == {key \in DOMAIN orders : key[1] = w /\ key[2] = d}

LineCount(key) == Cardinality(DOMAIN order_line[key].qty)

(* SUM(ol_amount) of the delivered lines of a customer, NULL when there are none. *)
DeliveredTo(ck) ==
  {key \in DOMAIN orders : /\ <<key[1], key[2], orders[key].c>> = ck
                           /\ order_line[key].delivered}

DeliveredAmount(ck) == SumFunction([key \in DeliveredTo(ck) |-> order_line[key].amount])

PaidBy(ck) == SumFunction([dk \in DistrictKeys |-> history[<<dk, ck>>]])

PaidAt(dk) == SumFunction([ck \in CustomerKeys |-> history[<<dk, ck>>]])

checkCondition1(w) == w_ytd[w] = SumFunction([d \in Districts |-> d_ytd[<<w, d>>]])

checkCondition2(w) ==
  \A d \in Districts : OrdersOf(w, d) # {} /\ NewOrdersOf(w, d) # {} =>
    /\ d_next_o_id[<<w, d>>] - 1 = Max(OrdersOf(w, d))
    /\ d_next_o_id[<<w, d>>] - 1 = Max(NewOrdersOf(w, d))

checkCondition3(w) ==
  \A d \in Districts : NewOrdersOf(w, d) # {} =>
    Max(NewOrdersOf(w, d)) - Min(NewOrdersOf(w, d)) + 1 = Cardinality(NewOrdersOf(w, d))

checkCondition4(w) ==
  \A d \in Districts : OrdersOf(w, d) # {} =>
    SumFunction([key \in OrderKeysOf(w, d) |-> orders[key].ol_cnt])
      = SumFunction([key \in OrderKeysOf(w, d) |-> LineCount(key)])

checkCondition5(w) ==
  \A key \in DOMAIN orders : key[1] = w => orders[key].carrier = (key \notin new_order)

checkCondition6(w) ==
  \A key \in DOMAIN orders : key[1] = w /\ LineCount(key) > 0 =>
    orders[key].ol_cnt = LineCount(key)

checkCondition7(w) ==
  \A key \in DOMAIN orders : key[1] = w => orders[key].carrier = order_line[key].delivered

checkCondition8(w) ==
  w_ytd[w] = SumFunction([d \in Districts |-> PaidAt(<<w, d>>)])

checkCondition9(w) == \A d \in Districts : d_ytd[<<w, d>>] = PaidAt(<<w, d>>)

checkCondition10(w) ==
  \A ck \in CustomerKeys : ck[1] = w /\ DeliveredTo(ck) # {} =>
    c_balance[ck] = DeliveredAmount(ck) - PaidBy(ck)

(* After a run, only the lower bound is checked. *)
checkCondition11(w) ==
  \A d \in Districts : NewOrdersOf(w, d) # {} =>
    Cardinality(OrdersOf(w, d)) - Cardinality(NewOrdersOf(w, d)) >= DeliveredPerDistrict

checkCondition12(w) ==
  \A ck \in CustomerKeys : ck[1] = w /\ DeliveredTo(ck) # {} =>
    c_balance[ck] + c_ytd_payment[ck] = DeliveredAmount(ck)

(* Whenever the check is run, at any point of any interleaving, it finds the   *)
(* tables consistent.                                                          *)
ChecksPass ==
  \A w \in Warehouses :
    /\ checkCondition1(w) /\ checkCondition2(w) /\ checkCondition3(w) /\ checkCondition4(w)
    /\ checkCondition5(w) /\ checkCondition6(w) /\ checkCondition7(w) /\ checkCondition8(w)
    /\ checkCondition9(w) /\ checkCondition10(w) /\ checkCondition11(w) /\ checkCondition12(w)

(* Every customer's balance is what was delivered to it less what it has paid, *)
(* the ones the check's NULLs leave out included: no delivery is charged twice *)
(* or to another customer, no payment is lost.                                 *)
BalancesMatch ==
  \A ck \in CustomerKeys : /\ c_balance[ck] = DeliveredAmount(ck) - PaidBy(ck)
                           /\ c_ytd_payment[ck] = PaidBy(ck)

(* Orders of the run that have ordered from stock row s.                       *)
OrdersFrom(s) == {key \in DOMAIN orders : /\ key[3] > OrderPerDistrict
                                          /\ s \in DOMAIN order_line[key].qty}

(* No stock update is lost: a stock row counts every order line that names it, *)
(* and its quantity, refilled by 91 at a time, is what those lines have left.  *)
StockMatchesLines ==
  \A s \in StockKeys :
    LET sold == SumFunction([key \in OrdersFrom(s) |-> order_line[key].qty[s]])
    IN /\ stock[s].ytd = sold
       /\ stock[s].order_cnt = Cardinality(OrdersFrom(s))
       /\ stock[s].remote_cnt = Cardinality({key \in OrdersFrom(s) : key[1] # s[1]})
       /\ (stock[s].quantity + sold - 10) % 91 = 0
       /\ stock[s].quantity >= 10

(* No update of a row is lost or made twice by concurrent transactions.        *)
NothingLost == BalancesMatch /\ StockMatchesLines
=============================================================================
