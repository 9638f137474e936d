-------------------------------- MODULE DbGen --------------------------------
(***************************************************************************)
(* The numbers in the rows that dbgen makes for TPC-H (tpch/dbgen): keys   *)
(* and the keys they refer to, dates, the places in a supplier's comment,  *)
(* and the positions of the streams of random numbers from row to row.     *)
(* What a random number is drawn for is left out.                          *)
(***************************************************************************)
EXTENDS Integers

CONSTANTS ScaleFactor,         \* --sf
          Multiplier, Modulus  \* of the generator: 16807 and 2147483647 in the code

ASSUME DbGenAssumption == /\ ScaleFactor \in Nat \ {0}
                          /\ Modulus \in Nat \ {0, 1}
                          /\ Multiplier \in 1 .. Modulus - 1

(* initTDefs: the rows of each table. *)
Parts == 200000 * ScaleFactor
Suppliers == 10000 * ScaleFactor
Customers == 150000 * ScaleFactor
Orders == 1500000 * ScaleFactor

------------------------------------------------------------------------------
(* Keys. *)

\* Mutant: the three lowest bits of an order's number are dropped.
SparseByEights(idx) == (idx \div 8) * 32

(* The keys of orders: of every 32, the first 8. *)
makeSparse(idx) == (idx \div 8) * 32 + (idx % 8)

suppPerPart == 4

\* Mutant: supplier 0.
BridgeFromZero(p, s) == (p + s * (Suppliers \div suppPerPart + (p - 1) \div Suppliers)) % Suppliers

(* The supplier s, from 0 to 3, of part p. *)
partSuppBridge(p, s) ==
    ((p + s * (Suppliers \div suppPerPart + (p - 1) \div Suppliers)) % Suppliers) + 1

(* makeOrder: customers with a key divisible by three place no orders; one up,
   then one down, until the key is another, but never over the last. *)
OrderingFrom[at \in Int \X {1, -1}] ==
    LET key == at[1]
        delta == at[2]
    IN  IF key % 3 # 0 THEN key
        ELSE OrderingFrom[<<IF key + delta < Customers THEN key + delta ELSE Customers, -delta>>]

OrderingCustomer(key) == OrderingFrom[<<key, 1>>]

------------------------------------------------------------------------------
(* Dates, as numbers of days: startDate is 1 January 1992. *)

startDate == 92001
currentDate == 95168
totDate == 2557

odateMax == startDate + totDate - (121 + 30) - 1

ShipDelays == {1, 2, 60, 120, 121}
CommitDelays == {30, 31, 90}
ReceiptDelays == {1, 2, 29, 30}

yeap(year) == IF year % 4 = 0 /\ year % 100 # 0 THEN 1 ELSE 0

(* A day counted from startDate as a year and the day in it: years are taken
   off; result, the first day of year yr, grows with them. *)
julianFrom[at \in Nat \X Nat] ==
    LET yr == at[1]
        offset == at[2]
        result == yr * 1000 + 1
        yend == yr * 1000 + 365 + yeap(yr)
    IN  IF result + offset > yend THEN julianFrom[<<yr + 1, offset - (yend - result + 1)>>]
                                  ELSE result + offset

julian(date) == julianFrom[<<startDate \div 1000, date - startDate>>]

(* makeAscDate: the calendar, from 1992 to 1998. *)
LeapYears == {92, 96}
DayOf(year, day) == 365 * (year - 92)
                    + (IF year > 92 THEN 1 ELSE 0) + (IF year > 96 THEN 1 ELSE 0)
                    + day - 1
ascDate == [n \in 0 .. totDate - 1 |->
               CHOOSE yearDay \in (92 .. 98) \X (1 .. 366) :
                  /\ yearDay[2] = 366 => yearDay[1] \in LeapYears
                  /\ DayOf(yearDay[1], yearDay[2]) = n]

------------------------------------------------------------------------------
(* makeSupp: where "Customer " and the rest of a remark go into a comment. *)

bbbBaseLen == 9
bbbCmntLen == 19
RemarkLen == 10

Noises(len) == 0 .. len - bbbCmntLen
Offsets(len, noise) == 0 .. len - (bbbCmntLen + noise)

------------------------------------------------------------------------------
(* Streams of random numbers. *)

nextRand(z) == (z * Multiplier) % Modulus

\* Mutant: the last bit of n is not used.
NthWithoutLast(n, z) ==
    LET Nth[m \in Int, mult \in Nat, y \in Nat] ==
            IF m <= 1 THEN y
            ELSE Nth[m \div 2, (mult * mult) % Modulus, IF m % 2 # 0 THEN (mult * y) % Modulus ELSE y]
    IN  Nth[n, Multiplier, z]

(* n numbers further, in log n steps. *)
NthFrom[at \in Int \X Nat \X Nat] ==
    LET n == at[1]
        mult == at[2]
        z == at[3]
    IN  IF n <= 0 THEN z
        ELSE NthFrom[<<n \div 2, (mult * mult) % Modulus,
                       IF n % 2 # 0 THEN (mult * z) % Modulus ELSE z>>]

nthElement(n, z) == NthFrom[<<n, Multiplier, z>>]

RoundUp(n, d) == (n + d - 1) \div d

(* aRand: the length, and a number for every five characters. *)
aRand(min, max) == {1 + RoundUp(len, 5) : len \in min .. max}

Stream(boundary, drawn) == [boundary |-> boundary, drawn |-> drawn]

(* The streams that rowStart and rowStop keep for a table, with initSeeds'
   boundary, and how many numbers makePart, makeSupp, makeCust and makeOrder
   may draw from each for a row. *)
PartStreams == {Stream(1, {1}), Stream(2, {2}), Stream(92, {92})}
PartSuppStreams == {Stream(suppPerPart, {4}), Stream(suppPerPart * 2, {8})}
SupplierStreams == {Stream(9, aRand(10, 40)), Stream(1, {1}), Stream(3, {3}), Stream(2, {2})}
CustomerStreams == {Stream(9, aRand(10, 40)), Stream(1, {1}), Stream(3, {3}), Stream(2, {2})}
OrderStreams == {Stream(1, {0}), Stream(1, {1}), Stream(2, {2})}
LineItemStreams == {Stream(7, 1 .. 7), Stream(7, 0 .. 7), Stream(14, {2 * n : n \in 1 .. 7}),
                    Stream(1, {0})}
NationStreams == {Stream(2, {2})}

Streams(table) ==
    CASE table = "part"     -> PartStreams
      [] table = "partsupp" -> PartSuppStreams
      [] table = "supplier" -> SupplierStreams
      [] table = "customer" -> CustomerStreams
      [] table = "orders"   -> OrderStreams
      [] table = "lineitem" -> LineItemStreams
      [] table \in {"nation", "region"} -> NationStreams

(* rowStop: what the row has not drawn is skipped. *)
rowStop(boundary, usage, z) == nthElement(boundary - usage, z)

------------------------------------------------------------------------------
(* What the rows need of these numbers. *)

(* No two orders get the same key. *)
DistinctOrders(sample) ==
    \A i, j \in sample : makeSparse(i) = makeSparse(j) => i = j

(* The suppliers of a part are four, and exist. *)
FourSuppliers(sample) ==
    \A p \in sample : \A s \in 0 .. 3 :
        /\ partSuppBridge(p, s) \in 1 .. Suppliers
        /\ \A r \in 0 .. 3 : partSuppBridge(p, s) = partSuppBridge(p, r) => s = r

(* The customers of orders exist, and a third of them places none. *)
CustomersExist(sample) ==
    \A key \in sample : OrderingCustomer(key) \in 1 .. Customers /\ OrderingCustomer(key) % 3 # 0

(* No date of a line is outside the calendar. *)
DatesInCalendar ==
    \A o \in {startDate, startDate + 1, odateMax - 1, odateMax} : \A c \in CommitDelays :
        /\ o + c - startDate \in 0 .. totDate - 1
        /\ \A s \in ShipDelays : \A r \in ReceiptDelays : o + s + r - startDate \in 0 .. totDate - 1

(* The status of a line is decided by the date that is written in it. *)
JulianIsCalendar(sample) ==
    \A n \in sample \cap (0 .. totDate - 1) :
        julian(startDate + n) = 1000 * ascDate[n][1] + ascDate[n][2]

(* The parts of a comment that the remark replaces are in it, and in order. *)
RemarkFits(sample) ==
    \A len \in sample : \A noise \in Noises(len) : \A offset \in Offsets(len, noise) :
        /\ offset + bbbBaseLen <= bbbBaseLen + offset + noise
        /\ bbbBaseLen + offset + noise + RemarkLen <= len

(* The z that follows n others. *)
SteppedFrom[at \in Nat \X Nat] ==
    IF at[1] = 0 THEN at[2] ELSE SteppedFrom[<<at[1] - 1, nextRand(at[2])>>]

Stepped(n, z) == SteppedFrom[<<n, z>>]

(* However many numbers a row has drawn, the next row begins at the same one. *)
NextRowInStep(table) ==
    \A stream \in Streams(table) : \A usage \in stream.drawn : \A z \in {1, 2, Modulus - 1} :
        rowStop(stream.boundary, usage, Stepped(usage, z)) = Stepped(stream.boundary, z)
==============================================================================
