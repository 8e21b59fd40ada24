---------------------------- MODULE AmountsProofs ----------------------------
(***************************************************************************)
(* What OrderAmounts.tla promises, proved for every company, order,        *)
(* product, basket, price, cost and rate.  The loops of ReserveStockTx and *)
(* ShipStockTx are folds over an order's lines: a set that every line keeps *)
(* holds after all of them (ReserveInduction, ShipInduction).  The books   *)
(* agree because every entry is two sides of one amount (TransferMoves,    *)
(* InvoiceMoves), and because the error of every rounding is counted       *)
(* (RoundedError, AverageError, StockError).                               *)
(***************************************************************************)
EXTENDS OrderAmounts, Totals

\* The statuses of an order, "NONE" where there is no row.
Statuses == {"NONE", "DRAFT", "CONFIRMED", "SHIPPED", "INVOICED", "PAID", "CANCELLED"}

\* Invoice documents, and the rows of orders and items.
Docs == [company : Companies, number : Nat]

OrderLine == [product : Products, qty : Int, total : Int]

OrderRow ==
  [status : Statuses, lines : Seq(OrderLine), total : Int, rate : Nat \ {0},
   doc : Docs \cup {Null}, whole : BOOLEAN]

ItemRow == [exists : BOOLEAN, onHand : Int, reserved : Int, cost : Int]

\* The types of the variables.
Types ==
  /\ order \in [Orders -> OrderRow]
  /\ item \in [Products -> ItemRow]
  /\ gl \in [Companies -> [Tracked -> Int]]
  /\ siDocs \subseteq Docs /\ IsFiniteSet(siDocs)
  /\ receipts \in [Products -> [count : Int, averaged : Int, rounded : Int]]
  /\ issues \in [Companies -> Int]

\* A quantity that a stock can store as it is.
Storable(q) == \E k \in Int : q = k * QtyStep

\* No stock is negative, at whatever cost; a service has none.
ItemFits(i) ==
  /\ 0 <= i.onHand /\ 0 <= i.cost /\ Storable(i.onHand)
  /\ ~i.exists => i.onHand = 0 /\ i.reserved = 0

\* The stored totals of an order's lines.
LineTotals(r) == [i \in DOMAIN r.lines |-> r.lines[i].total]

\* An order has lines, of its company's products; they add up to its total
\* unless one of several was rounded.
OrderFits(r, o) ==
  r.status # "NONE" =>
    /\ r.lines # <<>>
    /\ \A i \in DOMAIN r.lines : CompanyOf[r.lines[i].product] = CompanyOf[o]
    /\ \A i \in DOMAIN r.lines : Storable(r.lines[i].qty)
    /\ r.whole \/ Len(r.lines) = 1 => r.total = SumFunction(LineTotals(r))
    /\ r.status \in {"INVOICED", "PAID"} => r.total > 0

\* The inductive invariant: the types, what every item and every order is
\* like, and the two properties of the books and of the reservations.
IInv ==
  /\ Types
  /\ \A p \in Products : ItemFits(item[p])
  /\ \A o \in Orders : OrderFits(order[o], o)
  /\ BooksAgree
  /\ StockBounds
-----------------------------------------------------------------------------
(* Rounding *)

\* What a NUMERIC column stores is an integer of its unit.
LEMMA RoundedType ==
  ASSUME NEW x \in Int, NEW u \in Nat \ {0}
  PROVE  Rounded(x, u) \in Int
<1>1. CASE x < 0
  <2>1. -x \in Nat
    BY <1>1
  <2>2. RoundTo(-x, u) \in Nat
    BY <2>1, RoundToError
  <2> QED
    BY <1>1, <2>2 DEF Rounded
<1>2. CASE ~(x < 0)
  <2>1. x \in Nat
    BY <1>2
  <2>2. RoundTo(x, u) \in Nat
    BY <2>1, RoundToError
  <2> QED
    BY <1>2, <2>2 DEF Rounded
<1> QED
  BY <1>1, <1>2

\* What is whole already is stored as it is.
LEMMA RoundedExact ==
  ASSUME NEW k \in Int, NEW u \in Nat \ {0}
  PROVE  Rounded(k * u, u) = k
<1>1. CASE k < 0
  <2>1. -k \in Nat /\ (-k) * u = -(k * u) /\ k * u < 0
    BY <1>1
  <2>2. RoundTo((-k) * u, u) = -k
    BY <2>1, RoundToExact
  <2> QED
    BY <2>1, <2>2 DEF Rounded
<1>2. CASE ~(k < 0)
  <2>1. k \in Nat /\ ~(k * u < 0)
    BY <1>2
  <2>2. RoundTo(k * u, u) = k
    BY <2>1, RoundToExact
  <2> QED
    BY <2>1, <2>2 DEF Rounded
<1> QED
  BY <1>1, <1>2

\* The line of an order stores fewer decimals than a stock does.
LEMMA LineStorable ==
  ASSUME NEW q \in Int
  PROVE  Column(q, LineStep) \in Int /\ Storable(Column(q, LineStep))
<1>1. /\ LineStep \in Nat \ {0} /\ QtyStep \in Nat \ {0} /\ LineStep % QtyStep = 0
  BY AmountsAssumption
<1>2. PICK n \in Int : LineStep = n * QtyStep
  <2>1. LineStep = (LineStep \div QtyStep) * QtyStep /\ LineStep \div QtyStep \in Int
    BY <1>1
  <2> QED
    BY <2>1
<1> DEFINE r == Rounded(q, LineStep)
<1>3. r \in Int
  BY <1>1, RoundedType
<1> HIDE DEF r
<1>4. r * LineStep \in Int /\ r * LineStep = (r * n) * QtyStep /\ r * n \in Int
  BY <1>1, <1>2, <1>3
<1>5. Column(q, LineStep) = r * LineStep
  BY DEF Column, r
<1> QED
  BY <1>4, <1>5 DEF Storable

\* Multiples of the unit add up to a multiple.
Multiple(x, u) == x % u = 0

LEMMA RoundedParts ==
  ASSUME NEW S, IsFiniteSet(S), NEW u \in Nat \ {0}, NEW f, NEW g,
         \A i \in S : f[i] \in Int /\ Multiple(f[i], u) /\ g[i] = Rounded(f[i], u)
  PROVE  Rounded(SumFunctionOnSet(f, S), u) = SumFunctionOnSet(g, S)
<1>1. ASSUME NEW i \in S PROVE g[i] \in Int /\ f[i] = u * g[i]
  <2> DEFINE k == f[i] \div u
  <2>1. f[i] \in Int /\ f[i] % u = 0
    BY DEF Multiple
  <2>2. k \in Int /\ f[i] = k * u
    BY <2>1
  <2> HIDE DEF k
  <2>3. g[i] = k
    BY <2>2, RoundedExact
  <2>4. u * k = k * u
    BY <2>2
  <2> QED
    BY <2>2, <2>3, <2>4
<1>2. SumFunctionOnSet(g, S) \in Int
  BY <1>1, SumType
<1>3. SumFunctionOnSet(f, S) = u * SumFunctionOnSet(g, S)
  <2>1. u \in Int /\ \A i \in S : g[i] \in Int /\ f[i] = u * g[i]
    BY <1>1
  <2> QED
    BY <2>1, SumScaled
<1>4. SumFunctionOnSet(f, S) = SumFunctionOnSet(g, S) * u
  BY <1>2, <1>3
<1>5. Rounded(SumFunctionOnSet(g, S) * u, u) = SumFunctionOnSet(g, S)
  BY <1>2, RoundedExact
<1> QED
  BY <1>4, <1>5, Zenon

\* A sum over one index.
LEMMA SumOfOne ==
  ASSUME NEW f, NEW x, f[x] \in Int
  PROVE  SumFunctionOnSet(f, {x}) = f[x]
<1>1. IsFiniteSet({x}) /\ IsFiniteSet({}) /\ {x} \ {x} = {}
  BY FS_Singleton, FS_EmptySet
<1>2. SumFunctionOnSet(f, {}) = 0
  BY <1>1, SumEquation
<1>3. SumFunctionOnSet(f, {x}) = f[x] + SumFunctionOnSet(f, {x} \ {x})
  BY <1>1, SumSplit
<1>4. SumFunctionOnSet(f, {x}) = f[x] + 0
  BY <1>1, <1>2, <1>3, Zenon
<1> QED
  BY <1>4

\* The units are positive, whatever the scales of quantities and prices.
LEMMA Units == /\ AmtUnit \in Nat \ {0} /\ RateUnit \in Nat \ {0} /\ Unit \in Nat \ {0}
               /\ Unit = AmtUnit * RateUnit
BY UnitAssumption, UnitIsNat DEF Unit
-----------------------------------------------------------------------------
(* Entries of two lines *)

\* The entry that a receipt, a shipment and a payment make: one debit and one
\* credit of the same amount.
Transfer(c, type, rate, from, to, amt) ==
  Entry(c, type, rate, <<[acct |-> from, debit |-> TRUE, amt |-> amt],
                         [acct |-> to, debit |-> FALSE, amt |-> amt]>>)

\* The document types of the entries of sales and stock.
EntryTypes == {"GR", "GI", "SI", "JE"}

\* Validate passes such an entry when its amount is positive.
LEMMA TransferValid ==
  ASSUME NEW c \in Companies, NEW type \in EntryTypes, NEW rate \in Nat \ {0},
         NEW from, NEW to, NEW amt \in Nat \ {0}
  PROVE  Validate(Transfer(c, type, rate, from, to, amt))
<1> DEFINE e == Transfer(c, type, rate, from, to, amt)
           S == 1 .. 2
           b == amt * rate
           X == Exacts(e.lines, rate, TRUE)
           Y == Exacts(e.lines, rate, FALSE)
<1>1. /\ e.company = c /\ e.type = type /\ e.currency = "currency" /\ e.postDate = "day"
      /\ e.docDate = "day" /\ e.rate = rate
      /\ Len(e.lines) = 2 /\ DOMAIN e.lines = S
      /\ e.lines[1].debit = TRUE /\ e.lines[2].debit = FALSE
      /\ e.lines[1].amt = amt /\ e.lines[2].amt = amt
  BY DEF Transfer, Entry
<1> HIDE DEF e
<1>2. /\ Blank \notin {e.type, e.company, e.currency, e.postDate}
      /\ Malformed \notin {e.postDate, e.docDate}
  BY <1>1, AmountsAssumption DEF EntryTypes
<1>3. \A x \in Int : x \notin {Blank, Malformed, OtherZero}
  BY AmountsAssumption
<1>4. b \in Int
  OBVIOUS
<1>5. \A i \in S : ExactBase(e.lines[i], rate) = b /\ e.lines[i].amt = amt
  BY <1>1 DEF ExactBase
<1> HIDE DEF b
<1>6. X[1] = b /\ X[2] = 0 /\ Y[1] = 0 /\ Y[2] = b
  BY <1>1, <1>5 DEF Exacts
<1>7. IsFiniteSet(S)
  <2>1. 1 \in Int /\ 2 \in Int
    OBVIOUS
  <2> QED
    BY <2>1, FS_Interval
<1> HIDE DEF X, Y
<1>8. X[1] + X[2] = b /\ Y[1] + Y[2] = b
  BY <1>4, <1>6
<1>9. SumFunctionOnSet(X, S) = b /\ SumFunctionOnSet(Y, S) = b
  BY <1>4, <1>6, <1>8, SumOfTwo
<1> HIDE DEF S
<1>10. /\ ExactTotal(e.lines, rate, TRUE) = SumFunctionOnSet(X, S)
       /\ ExactTotal(e.lines, rate, FALSE) = SumFunctionOnSet(Y, S)
  <2>1. IsFiniteSet(DOMAIN e.lines) /\ \A i \in DOMAIN e.lines : ExactBase(e.lines[i], rate) \in Int
    BY <1>1, <1>4, <1>5, <1>7
  <2>2. /\ ExactTotal(e.lines, rate, TRUE) = SumFunctionOnSet(X, DOMAIN e.lines)
        /\ ExactTotal(e.lines, rate, FALSE) = SumFunctionOnSet(Y, DOMAIN e.lines)
    BY <2>1, ExactTotalIsSum, Zenon DEF X, Y
  <2> QED
    BY <1>1, <2>2
<1>11. ExactlyBalanced(e)
  BY <1>1, <1>9, <1>10 DEF ExactlyBalanced
<1>12. /\ e.rate \notin {Blank, Malformed, OtherZero} /\ e.rate > 0
       /\ Len(e.lines) >= 2
  BY <1>1, <1>3
<1>13. \A i \in DOMAIN e.lines : e.lines[i].amt \notin {Blank, Malformed} /\ e.lines[i].amt > 0
  BY <1>1, <1>3, <1>5
<1>14. Validate(e)
  BY <1>2, <1>11, <1>12, <1>13 DEF Validate
<1> QED
  BY <1>14 DEF e

\* What the rows of such an entry do to an account.
LEMMA TransferMoves ==
  ASSUME NEW c, NEW type, NEW rate \in Int, NEW from, NEW to, NEW amt \in Int,
         Validate(Transfer(c, type, rate, from, to, amt)), from # to
  PROVE  /\ rate > 0 /\ amt > 0
         /\ RoundTo(amt * rate, Unit) \in Nat
         /\ \A a : Movement(StoredLines(Transfer(c, type, rate, from, to, amt)), a) =
                     CASE a = from -> RoundTo(amt * rate, Unit)
                       [] a = to   -> -RoundTo(amt * rate, Unit)
                       [] OTHER    -> 0
<1> DEFINE e == Transfer(c, type, rate, from, to, amt)
           rows == StoredLines(e)
           b == RoundTo(amt * rate, Unit)
           f(a) == [i \in DOMAIN rows |->
                      IF rows[i].acct = a THEN rows[i].debit - rows[i].credit ELSE 0]
<1>1. /\ e.rate = rate /\ Len(e.lines) = 2 /\ DOMAIN e.lines = 1 .. 2
      /\ e.lines[1].debit = TRUE /\ e.lines[2].debit = FALSE
      /\ e.lines[1].acct = from /\ e.lines[2].acct = to
      /\ e.lines[1].amt = amt /\ e.lines[2].amt = amt
  BY DEF Transfer, Entry
<1> HIDE DEF e
<1>2. rate > 0 /\ amt > 0
  BY <1>1 DEF Validate, e
<1>3. amt * rate \in Nat
  BY <1>2
<1>4. b \in Nat
  BY <1>3, Units, RoundToError
<1>5. /\ DOMAIN rows = 1 .. 2
      /\ rows[1].acct = from /\ rows[1].debit = b /\ rows[1].credit = 0
      /\ rows[2].acct = to /\ rows[2].debit = 0 /\ rows[2].credit = b
  BY <1>1 DEF StoredLines, StoredLine, StoredBase, ExactBase, Unit
<1> HIDE DEF rows, b
<1>6. ASSUME NEW a
      PROVE  Movement(rows, a) = CASE a = from -> b [] a = to -> -b [] OTHER -> 0
  <2>1. /\ f(a)[1] = IF a = from THEN b ELSE 0
        /\ f(a)[2] = IF a = to THEN -b ELSE 0
        /\ DOMAIN f(a) = 1 .. 2
    BY <1>4, <1>5
  <2>2. Movement(rows, a) = SumFunctionOnSet(f(a), 1 .. 2)
    <3>1. Movement(rows, a) = SumFunction(f(a))
      BY DEF Movement
    <3> HIDE DEF f
    <3> QED
      BY <2>1, <3>1 DEF SumFunction
  <2> HIDE DEF f
  <2>3. f(a)[1] \in Int /\ f(a)[2] \in Int
    BY <1>4, <2>1
  <2>4. SumFunctionOnSet(f(a), 1 .. 2) = f(a)[1] + f(a)[2]
    BY <2>3, SumOfTwo
  <2> QED
    BY <1>4, <2>1, <2>2, <2>4
<1> QED
  BY <1>2, <1>4, <1>6 DEF rows, b, e

-----------------------------------------------------------------------------
(* Sums and folds over the lines *)

\* The partial results of a fold stay in a set that every step keeps.
LEMMA LeftFoldIn ==
  ASSUME NEW S \in SUBSET Int, IsFiniteSet(S), NEW J, NEW step \in [S \X J -> J], NEW base \in J
  PROVE  \E g : LeftFold(g, step, base, S) /\ \A s \in SUBSET S : g[s] \in J
<1>1. PICK g : LeftFold(g, step, base, S)
  BY LeftFoldExists
<1>2. g[{}] = base
  BY <1>1 DEF LeftFold
<1>3. ASSUME NEW s \in SUBSET S, s # {}, g[s \ {Max(s)}] \in J
      PROVE  g[s] \in J
  <2>1. IsFiniteSet(s) /\ s \in SUBSET Int
    BY FS_Subset
  <2>2. Max(s) \in S
    BY <1>3, <2>1, MaxIn
  <2>3. g[s] = step[<<Max(s), g[s \ {Max(s)}]>>]
    BY <1>1, <1>3 DEF LeftFold
  <2>4. <<Max(s), g[s \ {Max(s)}]>> \in S \X J
    BY <1>3, <2>2
  <2> QED
    BY <2>3, <2>4
<1>4. \A s \in SUBSET S : g[s] \in J
  BY <1>2, <1>3, FoldStays
<1> QED
  BY <1>1, <1>4

\* What holds before the lines of an order are reserved, and after each of them
\* if it held before, holds after all: the loop of ReserveStockTx.
LEMMA ReserveInduction ==
  ASSUME NEW lines, IsFiniteSet(DOMAIN lines), DOMAIN lines \in SUBSET Int,
         NEW J, [ok |-> TRUE, item |-> item] \in J,
         \A i \in DOMAIN lines : \A s \in J : ReserveLine(s, lines[i]) \in J
  PROVE  ReserveLines(lines) \in J
<1> DEFINE S == DOMAIN lines
           base == [ok |-> TRUE, item |-> item]
           P(g) == g = [s \in SUBSET S |->
                          IF s = {} THEN base ELSE ReserveLine(g[s \ {Max(s)}], lines[Max(s)])]
           step == [x \in S \X J |-> ReserveLine(x[2], lines[x[1]])]
<1>1. ReserveLines(lines) = (CHOOSE g : P(g))[S]
  BY DEF ReserveLines, FoldLeft, MapThenFoldSet
<1>2. \A s \in SUBSET S : s # {} => Max(s) \in S
  <2>1. \A s \in SUBSET S : IsFiniteSet(s) /\ s \in SUBSET Int
    BY FS_Subset
  <2> QED
    BY <2>1, MaxIn
<1>3. step \in [S \X J -> J] /\ base \in J
  OBVIOUS
<1>4. \A i \in S : \A s \in J : step[<<i, s>>] = ReserveLine(s, lines[i]) /\ step[<<i, s>>] \in J
  OBVIOUS
<1> HIDE DEF step, base
<1>5. \E g : P(g)
  <2>1. PICK g : LeftFold(g, step, base, S) /\ \A s \in SUBSET S : g[s] \in J
    BY <1>3, LeftFoldIn
  <2>2. \A s \in SUBSET S : s # {} =>
          step[<<Max(s), g[s \ {Max(s)}]>>] = ReserveLine(g[s \ {Max(s)}], lines[Max(s)])
    <3> TAKE s \in SUBSET S
    <3> HAVE s # {}
    <3>1. Max(s) \in S /\ s \ {Max(s)} \in SUBSET S
      BY <1>2
    <3> QED
      BY <1>4, <2>1, <3>1
  <2>3. P(g)
    BY <2>1, <2>2 DEF LeftFold
  <2> QED
    BY <2>3
<1>6. PICK g : P(g) /\ ReserveLines(lines) = g[S]
  <2> HIDE DEF P
  <2> QED
    BY <1>1, <1>5
<1>7. g[{}] \in J
  BY <1>3, <1>6
<1>8. ASSUME NEW s \in SUBSET S, s # {}, g[s \ {Max(s)}] \in J PROVE g[s] \in J
  <2>1. Max(s) \in S
    BY <1>2, <1>8
  <2>2. g[s] = ReserveLine(g[s \ {Max(s)}], lines[Max(s)])
    BY <1>6, <1>8
  <2> QED
    BY <1>8, <2>1, <2>2
<1>9. \A s \in SUBSET S : g[s] \in J
  <2> HIDE DEF P
  <2> QED
    BY <1>7, <1>8, FoldStays
<1>10. S \in SUBSET S
  OBVIOUS
<1> HIDE DEF P
<1> QED
  BY <1>6, <1>9, <1>10

\* The same of the loop of ShipStockTx.
LEMMA ShipInduction ==
  ASSUME NEW lines, IsFiniteSet(DOMAIN lines), DOMAIN lines \in SUBSET Int,
         NEW J, [ok |-> TRUE, cogs |-> 0, item |-> item] \in J,
         \A i \in DOMAIN lines : \A s \in J : ShipLine(s, lines[i]) \in J
  PROVE  ShipLines(lines) \in J
<1> DEFINE S == DOMAIN lines
           base == [ok |-> TRUE, cogs |-> 0, item |-> item]
           P(g) == g = [s \in SUBSET S |->
                          IF s = {} THEN base ELSE ShipLine(g[s \ {Max(s)}], lines[Max(s)])]
           step == [x \in S \X J |-> ShipLine(x[2], lines[x[1]])]
<1>1. ShipLines(lines) = (CHOOSE g : P(g))[S]
  BY DEF ShipLines, FoldLeft, MapThenFoldSet
<1>2. \A s \in SUBSET S : s # {} => Max(s) \in S
  <2>1. \A s \in SUBSET S : IsFiniteSet(s) /\ s \in SUBSET Int
    BY FS_Subset
  <2> QED
    BY <2>1, MaxIn
<1>3. step \in [S \X J -> J] /\ base \in J
  OBVIOUS
<1>4. \A i \in S : \A s \in J : step[<<i, s>>] = ShipLine(s, lines[i]) /\ step[<<i, s>>] \in J
  OBVIOUS
<1> HIDE DEF step, base
<1>5. \E g : P(g)
  <2>1. PICK g : LeftFold(g, step, base, S) /\ \A s \in SUBSET S : g[s] \in J
    BY <1>3, LeftFoldIn
  <2>2. \A s \in SUBSET S : s # {} =>
          step[<<Max(s), g[s \ {Max(s)}]>>] = ShipLine(g[s \ {Max(s)}], lines[Max(s)])
    <3> TAKE s \in SUBSET S
    <3> HAVE s # {}
    <3>1. Max(s) \in S /\ s \ {Max(s)} \in SUBSET S
      BY <1>2
    <3> QED
      BY <1>4, <2>1, <3>1
  <2>3. P(g)
    BY <2>1, <2>2 DEF LeftFold
  <2> QED
    BY <2>3
<1>6. PICK g : P(g) /\ ShipLines(lines) = g[S]
  <2> HIDE DEF P
  <2> QED
    BY <1>1, <1>5
<1>7. g[{}] \in J
  BY <1>3, <1>6
<1>8. ASSUME NEW s \in SUBSET S, s # {}, g[s \ {Max(s)}] \in J PROVE g[s] \in J
  <2>1. Max(s) \in S
    BY <1>2, <1>8
  <2>2. g[s] = ShipLine(g[s \ {Max(s)}], lines[Max(s)])
    BY <1>6, <1>8
  <2> QED
    BY <1>8, <2>1, <2>2
<1>9. \A s \in SUBSET S : g[s] \in J
  <2> HIDE DEF P
  <2> QED
    BY <1>7, <1>8, FoldStays
<1>10. S \in SUBSET S
  OBVIOUS
<1> HIDE DEF P
<1> QED
  BY <1>6, <1>9, <1>10

\* A sum after one index of a larger set changed.
LEMMA SumChangeOn ==
  ASSUME NEW S, IsFiniteSet(S), NEW f, NEW g, NEW x, f[x] \in Int, g[x] \in Int,
         \A y \in S \ {x} : f[y] \in Int /\ g[y] = f[y]
  PROVE  /\ SumFunctionOnSet(f, S) \in Int
         /\ SumFunctionOnSet(g, S) = SumFunctionOnSet(f, S)
                                      + IF x \in S THEN g[x] - f[x] ELSE 0
<1> DEFINE rest == S \ {x}
<1>1. IsFiniteSet(rest)
  BY FS_Subset
<1>2. SumFunctionOnSet(f, rest) = SumFunctionOnSet(g, rest) /\ SumFunctionOnSet(f, rest) \in Int
  BY <1>1, SumSame, SumType
<1>3. \A y \in S : f[y] \in Int /\ g[y] \in Int
  OBVIOUS
<1>4. CASE x \in S
  <2>1. /\ SumFunctionOnSet(f, S) = f[x] + SumFunctionOnSet(f, rest)
        /\ SumFunctionOnSet(g, S) = g[x] + SumFunctionOnSet(g, rest)
    BY <1>3, <1>4, SumSplit
  <2> HIDE DEF rest
  <2> QED
    BY <1>2, <1>4, <2>1
<1>5. CASE x \notin S
  <2>1. rest = S
    BY <1>5
  <2> HIDE DEF rest
  <2> QED
    BY <1>2, <1>5, <2>1
<1> QED
  BY <1>4, <1>5

-----------------------------------------------------------------------------
(* Reserving and shipping *)

\* The greater of two numbers.
LEMMA MaxOfTwo ==
  ASSUME NEW a \in Int, NEW b \in Int
  PROVE  Max({a, b}) = IF a >= b THEN a ELSE b
<1> DEFINE m == Max({a, b})
<1>1. \E x \in {a, b} : \A y \in {a, b} : x >= y
  OBVIOUS
<1>2. m \in {a, b} /\ \A y \in {a, b} : m >= y
  BY <1>1 DEF Max
<1> HIDE DEF m
<1>3. m = IF a >= b THEN a ELSE b
  BY <1>2
<1> QED
  BY <1>3 DEF m

\* The indices of a sequence, and what it holds at each.
LEMMA SeqDomain ==
  ASSUME NEW T, NEW s \in Seq(T)
  PROVE  /\ Len(s) \in Nat /\ DOMAIN s = 1 .. Len(s) /\ IsFiniteSet(DOMAIN s)
         /\ DOMAIN s \in SUBSET Int /\ \A i \in DOMAIN s : s[i] \in T
         /\ s # <<>> => Len(s) >= 1
<1>1. Len(s) \in Nat /\ DOMAIN s = 1 .. Len(s) /\ s \in [1 .. Len(s) -> T]
  OBVIOUS
<1>2. IsFiniteSet(1 .. Len(s))
  BY <1>1, FS_Interval
<1>3. s # <<>> => Len(s) >= 1
  <2>1. s # <<>> => Len(s) # 0
    OBVIOUS
  <2> QED
    BY <1>1, <2>1
<1> QED
  BY <1>1, <1>2, <1>3

\* What is reserved of an item is on hand.
Bounded(i) == 0 <= i.reserved /\ i.reserved <= i.onHand

\* No line takes p backwards.
Forward(lines, p) == \A i \in DOMAIN lines : lines[i].product = p => lines[i].qty >= 0

\* What ReserveStockTx may leave after any number of lines: only reservations
\* differ, services have none, and a product no line takes backwards stays
\* within its bounds as long as no line was refused.
Reserved(lines) ==
  {s \in [ok : BOOLEAN, item : [Products -> ItemRow]] :
     \A p \in Products :
       /\ s.item[p].exists = item[p].exists /\ s.item[p].cost = item[p].cost
       /\ s.item[p].onHand = item[p].onHand
       /\ ~item[p].exists => s.item[p].reserved = item[p].reserved
       /\ Forward(lines, p) /\ Bounded(item[p]) /\ s.ok => Bounded(s.item[p])}

\* A reservation changes nothing else of a row.
LEMMA RowWith ==
  ASSUME NEW r \in ItemRow, NEW n \in Int
  PROVE  [r EXCEPT !.reserved = @ + n] \in ItemRow
BY DEF ItemRow

\* A shipment changes a row's stock and reservation, and nothing else.
LEMMA RowSold ==
  ASSUME NEW r \in ItemRow, NEW n \in Int, NEW m \in Int
  PROVE  LET s == [r EXCEPT !.onHand = n, !.reserved = m]
         IN /\ s \in ItemRow
            /\ s.exists = r.exists /\ s.onHand = n /\ s.reserved = m /\ s.cost = r.cost
BY DEF ItemRow

\* ReserveStockTx leaves such a state, line after line.
LEMMA ReserveKeeps ==
  ASSUME item \in [Products -> ItemRow], NEW lines \in Seq(OrderLine)
  PROVE  ReserveLines(lines) \in Reserved(lines)
<1> DEFINE J == Reserved(lines)
           base == [ok |-> TRUE, item |-> item]
<1>1. IsFiniteSet(DOMAIN lines) /\ DOMAIN lines \in SUBSET Int
      /\ \A i \in DOMAIN lines : lines[i] \in OrderLine
  BY SeqDomain
<1>2. base \in J
  BY DEF Reserved
<1>3. ASSUME NEW i \in DOMAIN lines, NEW s \in J
      PROVE  ReserveLine(s, lines[i]) \in J
  <2> DEFINE l == lines[i]
             q == lines[i].product
             t == ReserveLine(s, l)
             left == s.item[q].onHand - s.item[q].reserved
  <2>1. q \in Products /\ l.qty \in Int /\ l.product = q
    BY <1>1 DEF OrderLine
  <2>2. CASE ~s.item[q].exists
    BY <2>2 DEF ReserveLine
  <2>3. CASE s.item[q].exists
    <3>1. t = [ok |-> s.ok /\ left >= l.qty,
               item |-> [s.item EXCEPT ![q].reserved = @ + l.qty]]
      BY <2>1, <2>3 DEF ReserveLine
    <3>2. /\ s.item \in [Products -> ItemRow] /\ s.ok \in BOOLEAN
          /\ \A p \in Products : item[p] \in ItemRow
      BY DEF Reserved
    <3>3. /\ t.ok = (s.ok /\ left >= l.qty)
          /\ t.item = [s.item EXCEPT ![q].reserved = @ + l.qty]
      BY <3>1
    <3>4. /\ s.item[q].reserved \in Int /\ s.item[q].onHand \in Int
          /\ s.item[q].exists \in BOOLEAN /\ s.item[q].cost \in Int
      BY <2>1, <3>2 DEF ItemRow
    <3>5. /\ t.item[q].exists = s.item[q].exists /\ t.item[q].cost = s.item[q].cost
          /\ t.item[q].onHand = s.item[q].onHand
          /\ t.item[q].reserved = s.item[q].reserved + l.qty
          /\ \A p \in Products \ {q} : t.item[p] = s.item[p]
      BY <2>1, <3>2, <3>3 DEF ItemRow
    <3>6. t \in [ok : BOOLEAN, item : [Products -> ItemRow]]
      <4>1. [s.item[q] EXCEPT !.reserved = @ + l.qty] \in ItemRow
        <5>1. s.item[q] \in ItemRow
          BY <2>1, <3>2
        <5> QED
          BY <2>1, <5>1, RowWith
      <4>2. [s.item EXCEPT ![q].reserved = @ + l.qty] \in [Products -> ItemRow]
        BY <2>1, <3>2, <4>1
      <4>3. (s.ok /\ left >= l.qty) \in BOOLEAN
        OBVIOUS
      <4> QED
        BY <3>1, <4>2, <4>3
    <3>7. \A p \in Products :
            /\ s.item[p].exists = item[p].exists /\ s.item[p].cost = item[p].cost
            /\ s.item[p].onHand = item[p].onHand
            /\ ~item[p].exists => s.item[p].reserved = item[p].reserved
            /\ Forward(lines, p) /\ Bounded(item[p]) /\ s.ok => Bounded(s.item[p])
      BY DEF Reserved
    <3>8. \A p \in Products :
            /\ t.item[p].exists = item[p].exists /\ t.item[p].cost = item[p].cost
            /\ t.item[p].onHand = item[p].onHand
            /\ ~item[p].exists => t.item[p].reserved = item[p].reserved
      BY <2>1, <2>3, <3>5, <3>7
    <3>9. ASSUME NEW p \in Products, Forward(lines, p), Bounded(item[p]), t.ok
          PROVE  Bounded(t.item[p])
      <4>1. Bounded(s.item[p]) /\ left >= l.qty
        BY <3>3, <3>7, <3>9
      <4>2. CASE p # q
        BY <3>5, <4>1, <4>2
      <4>3. CASE p = q
        <5>1. l.qty >= 0
          BY <3>9, <4>3 DEF Forward
        <5> QED
          BY <2>1, <3>4, <3>5, <4>1, <4>3, <5>1, SMTT(20) DEF Bounded
      <4> QED
        BY <4>2, <4>3
    <3> HIDE DEF t
    <3>10. t \in J
      BY <3>6, <3>8, <3>9 DEF Reserved
    <3> QED
      BY <3>10 DEF t
  <2> QED
    BY <2>2, <2>3
<1> HIDE DEF J
<1>4. ReserveLines(lines) \in J
  BY <1>1, <1>2, <1>3, ReserveInduction
<1> QED
  BY <1>4 DEF J

\* The value of the stock of each product.
ValueIn(items) == [p \in Products |-> items[p].onHand * items[p].cost]

\* What ShipStockTx may leave after any number of lines of one company's order:
\* no cost changes, no stock is negative unless a line was refused, and the cost
\* of goods sold so far is what the value of that company's stock lost.
Shipped(lines, c) ==
  {s \in [ok : BOOLEAN, cogs : Int, item : [Products -> ItemRow]] :
     /\ \A p \in Products :
          /\ s.item[p].exists = item[p].exists /\ s.item[p].cost = item[p].cost
          /\ ~item[p].exists => s.item[p] = item[p]
          /\ s.ok => 0 <= s.item[p].onHand
          /\ Storable(item[p].onHand) => Storable(s.item[p].onHand)
          /\ Forward(lines, p) /\ Bounded(item[p]) /\ s.ok => Bounded(s.item[p])
     /\ \A d \in Companies :
          OverStock(ValueIn(s.item), d) + (IF d = c THEN s.cogs ELSE 0)
            = OverStock(ValueIn(item), d)}

\* ShipStockTx leaves such a state, line after line.
LEMMA ShipKeeps ==
  ASSUME item \in [Products -> ItemRow], \A p \in Products : 0 <= item[p].onHand,
         NEW c \in Companies, NEW lines \in Seq(OrderLine),
         \A i \in DOMAIN lines : CompanyOf[lines[i].product] = c /\ Storable(lines[i].qty)
  PROVE  ShipLines(lines) \in Shipped(lines, c)
<1> DEFINE J == Shipped(lines, c)
           base == [ok |-> TRUE, cogs |-> 0, item |-> item]
<1>1. IsFiniteSet(DOMAIN lines) /\ DOMAIN lines \in SUBSET Int
      /\ \A i \in DOMAIN lines : lines[i] \in OrderLine
  BY SeqDomain
<1>2. \A d : IsFiniteSet(StockOf(d)) /\ StockOf(d) \subseteq Products
  BY AmountsAssumption, FS_Subset DEF StockOf
<1>3. ASSUME NEW items \in [Products -> ItemRow], NEW p \in Products
      PROVE  ValueIn(items)[p] = items[p].onHand * items[p].cost /\ ValueIn(items)[p] \in Int
  BY DEF ItemRow, ValueIn
<1>4. \A items \in [Products -> ItemRow] : \A d : OverStock(ValueIn(items), d) \in Int
  <2> TAKE items \in [Products -> ItemRow]
  <2> TAKE d
  <2>1. \A p \in StockOf(d) : ValueIn(items)[p] \in Int
    BY <1>2, <1>3
  <2> QED
    BY <1>2, <2>1, SumType DEF OverStock
<1>5. base \in J
  <2>1. \A d \in Companies : OverStock(ValueIn(item), d) + (IF d = c THEN 0 ELSE 0)
                             = OverStock(ValueIn(item), d)
    BY <1>4
  <2>2. base.ok = TRUE /\ base.cogs = 0 /\ base.item = item
    OBVIOUS
  <2>3. base \in [ok : BOOLEAN, cogs : Int, item : [Products -> ItemRow]]
    OBVIOUS
  <2> HIDE DEF base
  <2> QED
    BY <2>1, <2>2, <2>3 DEF Shipped
<1>6. ASSUME NEW i \in DOMAIN lines, NEW s \in J
      PROVE  ShipLine(s, lines[i]) \in J
  <2> DEFINE l == lines[i]
             q == lines[i].product
             row == s.item[q]
             left == Max({row.reserved - LeastOf(l.qty, row.reserved), 0})
             rest == row.onHand - l.qty
             sold == [row EXCEPT !.onHand = rest, !.reserved = left]
             t == ShipLine(s, l)
  <2>1. /\ q \in Products /\ l.qty \in Int /\ l.product = q /\ CompanyOf[q] = c
        /\ Storable(l.qty)
        /\ s.item \in [Products -> ItemRow] /\ s.ok \in BOOLEAN /\ s.cogs \in Int
    BY <1>1 DEF OrderLine, Shipped
  <2>2. row \in ItemRow
    BY <2>1
  <2>3. CASE ~row.exists
    BY <2>1, <2>3 DEF ShipLine
  <2>4. CASE row.exists
    <3>1. t = [ok |-> s.ok /\ row.onHand >= l.qty, cogs |-> s.cogs + l.qty * row.cost,
               item |-> [s.item EXCEPT ![q] = sold]]
      BY <2>1, <2>4 DEF ShipLine
    <3>2. /\ t.ok = (s.ok /\ row.onHand >= l.qty) /\ t.cogs = s.cogs + l.qty * row.cost
          /\ t.item = [s.item EXCEPT ![q] = sold]
      BY <3>1
    <3>3. row.reserved \in Int /\ row.onHand \in Int /\ row.exists \in BOOLEAN /\ row.cost \in Int
      BY <2>2 DEF ItemRow
    <3>4. /\ left \in Int /\ 0 <= left
          /\ Bounded(row) /\ l.qty >= 0 /\ row.onHand >= l.qty => left <= row.onHand - l.qty
      <4>1. LeastOf(l.qty, row.reserved) = IF l.qty < row.reserved THEN l.qty ELSE row.reserved
        BY DEF LeastOf
      <4>2. LeastOf(l.qty, row.reserved) \in Int
        BY <2>1, <3>3, <4>1
      <4>3. left = IF row.reserved - LeastOf(l.qty, row.reserved) >= 0
                   THEN row.reserved - LeastOf(l.qty, row.reserved) ELSE 0
        BY <3>3, <4>2, MaxOfTwo
      <4> HIDE DEF left
      <4> QED
        BY <2>1, <3>3, <4>1, <4>3, SMTT(20) DEF Bounded
    <3> HIDE DEF left
    <3>5. rest \in Int
      BY <2>1, <3>3
    <3> HIDE DEF rest, row
    <3>6. sold \in ItemRow
      BY <2>2, <3>4, <3>5, RowSold
    <3>7. /\ sold.exists = row.exists /\ sold.onHand = row.onHand - l.qty
          /\ sold.reserved = left /\ sold.cost = row.cost
      <4>1. /\ sold.exists = row.exists /\ sold.onHand = rest
            /\ sold.reserved = left /\ sold.cost = row.cost
        BY <2>2, <3>4, <3>5 DEF ItemRow
      <4> QED
        BY <4>1 DEF rest
    <3> USE DEF row
    <3> HIDE DEF sold
    <3>8. t.item[q] = sold /\ \A p \in Products \ {q} : t.item[p] = s.item[p]
      BY <2>1, <3>2
    <3>9. t \in [ok : BOOLEAN, cogs : Int, item : [Products -> ItemRow]]
      <4>1. [s.item EXCEPT ![q] = sold] \in [Products -> ItemRow]
        BY <2>1, <3>6
      <4>2. (s.ok /\ row.onHand >= l.qty) \in BOOLEAN /\ s.cogs + l.qty * row.cost \in Int
        BY <2>1, <3>3
      <4> QED
        BY <3>1, <4>1, <4>2
    <3>10. /\ \A p \in Products :
                /\ s.item[p].exists = item[p].exists /\ s.item[p].cost = item[p].cost
                /\ ~item[p].exists => s.item[p] = item[p]
                /\ s.ok => 0 <= s.item[p].onHand
                /\ Storable(item[p].onHand) => Storable(s.item[p].onHand)
                /\ Forward(lines, p) /\ Bounded(item[p]) /\ s.ok => Bounded(s.item[p])
           /\ \A d \in Companies :
                OverStock(ValueIn(s.item), d) + (IF d = c THEN s.cogs ELSE 0)
                  = OverStock(ValueIn(item), d)
      BY DEF Shipped
    <3> HIDE DEF t, row
    <3>11. \A p \in Products :
             /\ t.item[p].exists = item[p].exists /\ t.item[p].cost = item[p].cost
             /\ ~item[p].exists => t.item[p] = item[p]
             /\ t.ok => 0 <= t.item[p].onHand
             /\ Storable(item[p].onHand) => Storable(t.item[p].onHand)
      <4>1. item[q].exists /\ row.exists = item[q].exists /\ row.cost = item[q].cost
        BY <2>1, <2>4, <3>10 DEF row
      <4>2. t.item[q].exists = item[q].exists /\ t.item[q].cost = item[q].cost
        BY <3>7, <3>8, <4>1
      <4>3. t.ok => 0 <= t.item[q].onHand
        <5>1. t.ok => row.onHand >= l.qty
          BY <3>2
        <5>2. row.onHand >= l.qty => 0 <= row.onHand - l.qty
          BY <2>1, <3>3
        <5> QED
          BY <3>7, <3>8, <5>1, <5>2
      <4>4. t.ok => s.ok
        BY <3>2
      <4>5. ASSUME Storable(item[q].onHand) PROVE Storable(t.item[q].onHand)
        <5>1. Storable(row.onHand)
          BY <2>1, <3>10, <4>5 DEF row
        <5>2. PICK k \in Int : row.onHand = k * QtyStep
          BY <5>1 DEF Storable
        <5>3. PICK j \in Int : l.qty = j * QtyStep
          BY <2>1 DEF Storable
        <5>4. row.onHand - l.qty = (k - j) * QtyStep /\ k - j \in Int
          BY <5>2, <5>3, AmountsAssumption
        <5> QED
          BY <3>7, <3>8, <5>4 DEF Storable
      <4> QED
        BY <3>8, <3>10, <4>1, <4>2, <4>3, <4>4, <4>5
    <3>12. ASSUME NEW p \in Products, Forward(lines, p), Bounded(item[p]), t.ok
           PROVE  Bounded(t.item[p])
      <4>1. Bounded(s.item[p]) /\ row.onHand >= l.qty
        BY <3>2, <3>10, <3>12
      <4>2. CASE p # q
        BY <3>8, <4>1, <4>2
      <4>3. CASE p = q
        <5>1. l.qty >= 0
          BY <3>12, <4>3 DEF Forward
        <5>2. left <= row.onHand - l.qty /\ 0 <= left
          BY <3>4, <4>1, <4>3, <5>1 DEF row
        <5> QED
          BY <3>7, <3>8, <4>3, <5>2 DEF Bounded
      <4> QED
        BY <4>2, <4>3
    <3>13. ASSUME NEW d \in Companies
           PROVE  OverStock(ValueIn(t.item), d) + (IF d = c THEN t.cogs ELSE 0)
                    = OverStock(ValueIn(item), d)
      <4> DEFINE f == ValueIn(s.item)
                 g == ValueIn(t.item)
      <4>1. /\ f[q] = row.onHand * row.cost /\ f[q] \in Int
            /\ g[q] = (row.onHand - l.qty) * row.cost /\ g[q] \in Int
            /\ \A p \in StockOf(d) \ {q} : f[p] \in Int /\ g[p] = f[p]
        <5>1. t.item \in [Products -> ItemRow]
          BY <3>9
        <5>2. \A p \in Products : /\ f[p] = s.item[p].onHand * s.item[p].cost /\ f[p] \in Int
                                  /\ g[p] = t.item[p].onHand * t.item[p].cost /\ g[p] \in Int
          BY <1>3, <2>1, <5>1
        <5>3. /\ q \in Products /\ l.qty \in Int /\ s.item[q] = row
              /\ t.item[q].onHand = row.onHand - l.qty /\ t.item[q].cost = row.cost
          BY <2>1, <3>7, <3>8 DEF row
        <5>4. \A p \in StockOf(d) \ {q} : p \in Products /\ t.item[p] = s.item[p]
          BY <1>2, <3>8
        <5> HIDE DEF f, g, t, row
        <5> QED
          BY <5>2, <5>3, <5>4
      <4>2. g[q] - f[q] = -(l.qty * row.cost) /\ l.qty * row.cost \in Int
        BY <2>1, <3>3, <4>1
      <4> HIDE DEF f, g
      <4>3. /\ SumFunctionOnSet(f, StockOf(d)) \in Int
            /\ SumFunctionOnSet(g, StockOf(d)) = SumFunctionOnSet(f, StockOf(d))
                 + IF q \in StockOf(d) THEN g[q] - f[q] ELSE 0
        BY <1>2, <4>1, SumChangeOn
      <4>4. q \in StockOf(d) <=> d = c
        BY <2>1 DEF StockOf
      <4>5. SumFunctionOnSet(f, StockOf(d)) + (IF d = c THEN s.cogs ELSE 0)
              = OverStock(ValueIn(item), d)
        BY <3>10 DEF f, OverStock
      <4>6. SumFunctionOnSet(g, StockOf(d)) + (IF d = c THEN t.cogs ELSE 0)
              = OverStock(ValueIn(item), d)
        <5> DEFINE x == l.qty * row.cost
        <5>1. x \in Int /\ g[q] - f[q] = -x /\ t.cogs = s.cogs + x
          BY <3>2, <4>2
        <5> HIDE DEF x
        <5> QED
          BY <2>1, <4>3, <4>4, <4>5, <5>1
      <4> QED
        BY <4>6 DEF g, OverStock
    <3>14. t \in J
      BY <3>9, <3>11, <3>12, <3>13 DEF Shipped
    <3> QED
      BY <3>14 DEF t
  <2> QED
    BY <2>3, <2>4
<1> HIDE DEF J
<1>7. ShipLines(lines) \in J
  BY <1>1, <1>5, <1>6, ShipInduction
<1> QED
  BY <1>7 DEF J

-----------------------------------------------------------------------------
(* The parts of an invoice *)

\* A function that is one to one and onto is a bijection.
LEMMA BijectionIs ==
  ASSUME NEW D, NEW S, NEW b \in [D -> S], \A x, y \in D : b[x] = b[y] => x = y,
         \A z \in S : \E x \in D : b[x] = z
  PROVE  b \in Bijection(D, S)
BY DEF Bijection, Injection, Surjection, IsInjective

\* A sequence with one more element in front lists that one and the rest.
LEMMA Prepended ==
  ASSUME NEW T, NEW s \in Seq(T), NEW x
  PROVE  /\ Len(<<x>> \o s) = Len(s) + 1
         /\ DOMAIN (<<x>> \o s) = 1 .. (Len(s) + 1)
         /\ (<<x>> \o s)[1] = x
         /\ \A i \in 2 .. (Len(s) + 1) : (<<x>> \o s)[i] = s[i - 1] /\ i - 1 \in 1 .. Len(s)
<1>1. s \in Seq(T \cup {x}) /\ <<x>> \in Seq(T \cup {x})
  OBVIOUS
<1>2. Len(<<x>>) = 1 /\ <<x>>[1] = x
  OBVIOUS
<1>3. Len(s) \in Nat
  OBVIOUS
<1> QED
  BY <1>1, <1>2, <1>3

\* The credits of an order's invoice, one for each revenue account.
Earned(o) == {Credit(a, Revenue(o, a)) : a \in RevenueAccounts(o)}

\* The types of an order's parts.
LEMMA LineFacts ==
  ASSUME Types, NEW o \in Orders
  PROVE  /\ order[o].lines \in Seq(OrderLine)
         /\ order[o].total \in Int /\ order[o].rate \in Nat \ {0}
         /\ order[o].status \in Statuses
         /\ IsFiniteSet(DOMAIN order[o].lines) /\ DOMAIN order[o].lines \in SUBSET Int
         /\ \A i \in DOMAIN order[o].lines :
              /\ order[o].lines[i].product \in Products
              /\ order[o].lines[i].qty \in Int /\ order[o].lines[i].total \in Int
<1>1. order[o] \in OrderRow
  BY DEF Types
<1>2. /\ order[o].lines \in Seq(OrderLine)
      /\ order[o].total \in Int /\ order[o].rate \in Nat \ {0}
      /\ order[o].status \in Statuses
  BY <1>1 DEF OrderRow
<1>3. /\ IsFiniteSet(DOMAIN order[o].lines) /\ DOMAIN order[o].lines \in SUBSET Int
      /\ \A i \in DOMAIN order[o].lines : order[o].lines[i] \in OrderLine
  BY <1>2, SeqDomain
<1>4. \A l \in OrderLine : l.product \in Products /\ l.qty \in Int /\ l.total \in Int
  BY DEF OrderLine
<1> QED
  BY <1>2, <1>3, <1>4

\* The revenue accounts of an order are finitely many, and not tracked.
LEMMA RevenueFacts ==
  ASSUME Types, NEW o \in Orders
  PROVE  /\ IsFiniteSet(RevenueAccounts(o)) /\ AR \notin RevenueAccounts(o)
         /\ Inventory \notin RevenueAccounts(o)
         /\ \A a : Revenue(o, a) \in Int
<1> DEFINE S == DOMAIN order[o].lines
           A == RevenueAccounts(o)
           key == [i \in S |-> RevenueOf[order[o].lines[i].product]]
<1>1. IsFiniteSet(S) /\ \A i \in S : /\ order[o].lines[i].product \in Products
                                    /\ order[o].lines[i].total \in Int
  BY LineFacts
<1>2. key \in Surjection(S, A)
  BY DEF RevenueAccounts, Surjection
<1>3. IsFiniteSet(A)
  <2> HIDE DEF key, A, S
  <2> QED
    BY <1>1, <1>2, FS_Surjection
<1>4. AR \notin A /\ Inventory \notin A
  BY <1>1, AmountsAssumption DEF RevenueAccounts
<1>5. ASSUME NEW a PROVE Revenue(o, a) \in Int
  <2> DEFINE f == [i \in S |-> IF RevenueOf[order[o].lines[i].product] = a
                               THEN order[o].lines[i].total ELSE 0]
  <2>1. DOMAIN f = S /\ \A i \in S : f[i] \in Int
    BY <1>1
  <2>2. Revenue(o, a) = SumFunction(f)
    BY DEF Revenue
  <2> HIDE DEF f
  <2> QED
    BY <1>1, <2>1, <2>2, SumType DEF SumFunction
<1> QED
  BY <1>3, <1>4, <1>5 DEF A

\* An invoice is the debit of its receivable and then each credit once, in the
\* order in which they happen to be listed.
LEMMA InvoiceParts ==
  ASSUME Types, NEW o \in Orders
  PROVE  LET ls == Invoice(o).lines
             n == Cardinality(Earned(o))
         IN /\ n \in Nat /\ IsFiniteSet(Earned(o))
            /\ Len(ls) = n + 1 /\ DOMAIN ls = 1 .. (n + 1)
            /\ ls[1] = Debit(AR, order[o].total)
            /\ \E b \in Bijection(2 .. (n + 1), Earned(o)) :
                 \A i \in 2 .. (n + 1) : ls[i] = b[i]
<1> DEFINE A == RevenueAccounts(o)
           E == Earned(o)
           n == Cardinality(E)
           s == SetToSeq(E)
           d == Debit(AR, order[o].total)
           ls == Invoice(o).lines
           k == [a \in A |-> Credit(a, Revenue(o, a))]
           I == 2 .. (n + 1)
           b == [i \in I |-> s[i - 1]]
<1>1. IsFiniteSet(E)
  <2>1. k \in Surjection(A, E)
    BY DEF Surjection, Earned
  <2>2. IsFiniteSet(A)
    BY RevenueFacts
  <2> HIDE DEF k, A, E
  <2> QED
    BY <2>1, <2>2, FS_Surjection
<1>2. ls = <<d>> \o s
  BY DEF Invoice, Entry, Earned
<1> HIDE DEF E, d, ls
<1>3. /\ n \in Nat /\ Len(s) = n /\ s \in Seq(E)
      /\ s \in Bijection(1 .. n, E)
  BY <1>1, SetToSeqLists
<1> HIDE DEF s
<1>4. /\ Len(ls) = Len(s) + 1 /\ DOMAIN ls = 1 .. (Len(s) + 1) /\ ls[1] = d
      /\ \A i \in 2 .. (Len(s) + 1) : ls[i] = s[i - 1] /\ i - 1 \in 1 .. Len(s)
  BY <1>2, <1>3, Prepended
<1> HIDE DEF n
<1>5. /\ s \in [1 .. n -> E] /\ \A x, y \in 1 .. n : s[x] = s[y] => x = y
      /\ \A z \in E : \E x \in 1 .. n : s[x] = z
  BY <1>3 DEF Bijection, Injection, Surjection, IsInjective
<1>6. \A i \in I : i - 1 \in 1 .. n /\ i = (i - 1) + 1
  BY <1>3
<1>7. \A x \in 1 .. n : x + 1 \in I /\ (x + 1) - 1 = x
  BY <1>3
<1>8. b \in [I -> E] /\ \A i \in I : b[i] = s[i - 1]
  BY <1>5, <1>6
<1> HIDE DEF b, I
<1>9. \A x, y \in I : b[x] = b[y] => x = y
  <2> SUFFICES ASSUME NEW x \in I, NEW y \in I, b[x] = b[y] PROVE x = y
    OBVIOUS
  <2>1. x - 1 = y - 1
    BY <1>5, <1>6, <1>8
  <2> QED
    BY <1>6, <2>1
<1>10. \A z \in E : \E x \in I : b[x] = z
  <2> SUFFICES ASSUME NEW z \in E PROVE \E x \in I : b[x] = z
    OBVIOUS
  <2>1. PICK x \in 1 .. n : s[x] = z
    BY <1>5
  <2>2. x + 1 \in I /\ b[x + 1] = z
    BY <1>7, <1>8, <2>1
  <2> QED
    BY <2>2
<1>11. b \in Bijection(I, E)
  BY <1>8, <1>9, <1>10, BijectionIs
<1>12. \A i \in I : ls[i] = b[i]
  BY <1>3, <1>4, <1>8 DEF I
<1>13. \E x \in Bijection(I, E) : \A i \in I : ls[i] = x[i]
  BY <1>11, <1>12
<1> QED
  BY <1>1, <1>3, <1>4, <1>13 DEF E, n, d, ls, I

-----------------------------------------------------------------------------
(* What entries move *)

\* Money at a rate is rounded as the exact product of the two is.
LEMMA OwedRounds ==
  ASSUME NEW t \in Nat, NEW r \in Nat
  PROVE  RoundTo((t * AmtUnit) * r, Unit) = RoundTo(t * r, RateUnit)
<1>1. t * r \in Nat /\ (t * AmtUnit) * r = (t * r) * AmtUnit /\ Unit = RateUnit * AmtUnit
  BY Units
<1>2. RoundTo((t * r) * AmtUnit, RateUnit * AmtUnit) = RoundTo(t * r, RateUnit)
  BY <1>1, Units, RoundToScaled
<1> QED
  BY <1>1, <1>2, Zenon

\* A payment takes from the receivables what the order owes.
LEMMA PaymentMoves ==
  ASSUME Types, NEW o \in Orders, Validate(Payment(o))
  PROVE  /\ order[o].total > 0
         /\ Movement(StoredLines(Payment(o)), AR) = -Owed(o)
         /\ Movement(StoredLines(Payment(o)), Inventory) = 0
<1> DEFINE t == order[o].total
           r == order[o].rate
           amt == t * AmtUnit
           e == Transfer(CompanyOf[o], "JE", r, Others, AR, amt)
           x == RoundTo(amt * r, Unit)
<1>1. e = Payment(o)
  BY DEF Payment, Transfer, Debit, Credit
<1>2. t \in Int /\ r \in Int /\ amt \in Int /\ Others # AR /\ AR # Inventory /\ Others # Inventory
  BY LineFacts, Units, AmountsAssumption
<1>3. Validate(e)
  BY <1>1
<1> HIDE DEF amt, r, t
<1>4. /\ r > 0 /\ amt > 0
      /\ \A a : Movement(StoredLines(e), a) =
                  CASE a = Others -> x [] a = AR -> -x [] OTHER -> 0
  BY <1>2, <1>3, TransferMoves
<1> HIDE DEF e, x
<1>5. Movement(StoredLines(e), AR) = -x /\ Movement(StoredLines(e), Inventory) = 0
  BY <1>2, <1>4
<1>6. t > 0 /\ t \in Nat
  BY <1>2, <1>4, Units DEF amt
<1>7. x = Owed(o)
  <2>1. RoundTo((t * AmtUnit) * r, Unit) = RoundTo(t * r, RateUnit)
    BY <1>2, <1>4, <1>6, OwedRounds
  <2> QED
    BY <2>1 DEF x, amt, Owed, t, r
<1> QED
  BY <1>1, <1>5, <1>6, <1>7 DEF t

\* A shipment takes its rounded cost from the inventory account.
LEMMA IssueMoves ==
  ASSUME NEW c, NEW cogs \in Int, Validate(GoodsIssue(c, cogs))
  PROVE  /\ Rounded(cogs, AmtUnit) > 0
         /\ Movement(StoredLines(GoodsIssue(c, cogs)), AR) = 0
         /\ Movement(StoredLines(GoodsIssue(c, cogs)), Inventory) = -Rounded(cogs, AmtUnit)
<1> DEFINE t == Rounded(cogs, AmtUnit)
           amt == t * AmtUnit
           e == Transfer(c, "GI", RateUnit, Others, Inventory, amt)
           x == RoundTo(amt * RateUnit, Unit)
<1>1. e = GoodsIssue(c, cogs)
  BY DEF GoodsIssue, Transfer, Debit, Credit
<1>2. t \in Int /\ Others # AR /\ AR # Inventory /\ Others # Inventory
  BY RoundedType, Units, AmountsAssumption
<1>3. amt \in Int /\ RateUnit \in Int
  BY <1>2, Units
<1>4. Validate(e)
  BY <1>1
<1> HIDE DEF amt, t
<1>5. /\ amt > 0
      /\ \A a : Movement(StoredLines(e), a) =
                  CASE a = Others -> x [] a = Inventory -> -x [] OTHER -> 0
  BY <1>2, <1>3, <1>4, TransferMoves
<1> HIDE DEF e, x
<1>6. Movement(StoredLines(e), Inventory) = -x /\ Movement(StoredLines(e), AR) = 0
  BY <1>2, <1>5
<1>7. t > 0 /\ t \in Nat
  BY <1>2, <1>5, Units DEF amt
<1>8. x = t
  <2>1. amt * RateUnit = t * Unit
    BY <1>7, Units DEF amt
  <2>2. RoundTo(t * Unit, Unit) = t
    BY <1>7, Units, RoundToExact
  <2> QED
    BY <2>1, <2>2 DEF x
<1> QED
  BY <1>1, <1>6, <1>7, <1>8 DEF t

\* The entry of a goods receipt.
Receipt(p, qty, cost) == Transfer(CompanyOf[p], "GR", RateUnit, Inventory, Others, qty * cost)

\* A receipt adds its cost to the inventory account, rounded as the row is.
LEMMA ReceiptMoves ==
  ASSUME NEW p, NEW qty \in Nat, NEW cost \in Nat, Validate(Receipt(p, qty, cost))
  PROVE  /\ qty * cost > 0
         /\ Movement(StoredLines(Receipt(p, qty, cost)), AR) = 0
         /\ Movement(StoredLines(Receipt(p, qty, cost)), Inventory) = RoundTo(qty * cost, AmtUnit)
<1> DEFINE amt == qty * cost
           e == Transfer(CompanyOf[p], "GR", RateUnit, Inventory, Others, amt)
           x == RoundTo(amt * RateUnit, Unit)
<1>1. e = Receipt(p, qty, cost)
  BY DEF Receipt
<1>2. amt \in Nat /\ Others # AR /\ AR # Inventory /\ Others # Inventory
  BY AmountsAssumption
<1>3. Validate(e) /\ RateUnit \in Int
  BY <1>1, Units
<1> HIDE DEF amt
<1>4. /\ amt > 0
      /\ \A a : Movement(StoredLines(e), a) =
                  CASE a = Inventory -> x [] a = Others -> -x [] OTHER -> 0
  BY <1>2, <1>3, TransferMoves
<1> HIDE DEF e, x
<1>5. Movement(StoredLines(e), Inventory) = x /\ Movement(StoredLines(e), AR) = 0
  BY <1>2, <1>4
<1>6. x = RoundTo(amt, AmtUnit)
  <2>1. RoundTo(amt * RateUnit, AmtUnit * RateUnit) = RoundTo(amt, AmtUnit)
    BY <1>2, Units, RoundToScaled
  <2> QED
    BY <2>1, Units DEF x
<1> QED
  BY <1>1, <1>4, <1>5, <1>6 DEF amt

\* The rows of an invoice: what the customer owes, and revenue.
LEMMA InvoiceMoves ==
  ASSUME Types, NEW o \in Orders, Validate(Invoice(o))
  PROVE  /\ order[o].total > 0
         /\ Movement(StoredLines(Invoice(o)), AR) = Owed(o)
         /\ Movement(StoredLines(Invoice(o)), Inventory) = 0
<1> DEFINE t == order[o].total
           r == order[o].rate
           e == Invoice(o)
           ls == e.lines
           n == Cardinality(Earned(o))
           rows == StoredLines(e)
           m(a) == [i \in DOMAIN rows |->
                      IF rows[i].acct = a THEN rows[i].debit - rows[i].credit ELSE 0]
           I == 1 .. (n + 1)
<1>1. /\ n \in Nat /\ Len(ls) = n + 1 /\ DOMAIN ls = I /\ ls[1] = Debit(AR, t)
      /\ \E b \in Bijection(2 .. (n + 1), Earned(o)) : \A i \in 2 .. (n + 1) : ls[i] = b[i]
  BY InvoiceParts
<1>2. e.rate = r /\ r \in Nat \ {0} /\ t \in Int
  BY LineFacts DEF Invoice, Entry
<1> HIDE DEF e, n
<1>3. \A i \in 2 .. (n + 1) : \E a \in RevenueAccounts(o) : ls[i] = Credit(a, Revenue(o, a))
  <2>1. PICK b \in Bijection(2 .. (n + 1), Earned(o)) : \A i \in 2 .. (n + 1) : ls[i] = b[i]
    BY <1>1
  <2>2. b \in [2 .. (n + 1) -> Earned(o)]
    BY DEF Bijection, Surjection
  <2>3. \A i \in 2 .. (n + 1) : ls[i] \in Earned(o)
    BY <2>1, <2>2
  <2> QED
    BY <2>3 DEF Earned
<1>4. 1 \in I /\ IsFiniteSet(I) /\ \A i \in I \ {1} : i \in 2 .. (n + 1)
  <2>1. 1 \in I /\ 1 \in Int /\ n + 1 \in Int /\ \A i \in I \ {1} : i \in 2 .. (n + 1)
    BY <1>1
  <2> QED
    BY <2>1, FS_Interval
<1>5. t > 0 /\ t \in Nat
  <2>1. ls[1].amt > 0 /\ ls[1].amt = t * AmtUnit
    BY <1>1, <1>4 DEF Validate, Debit, e
  <2> QED
    BY <1>2, <2>1, Units
<1>6. /\ DOMAIN rows = I /\ rows[1].acct = AR /\ rows[1].credit = 0
      /\ rows[1].debit = RoundTo((t * AmtUnit) * r, AmtUnit * RateUnit)
  BY <1>1, <1>2, <1>4 DEF StoredLines, StoredLine, StoredBase, ExactBase, Debit
<1>7. \A i \in I \ {1} : rows[i].acct \in RevenueAccounts(o)
  <2> SUFFICES ASSUME NEW i \in I \ {1} PROVE rows[i].acct \in RevenueAccounts(o)
    OBVIOUS
  <2>1. PICK a \in RevenueAccounts(o) : ls[i] = Credit(a, Revenue(o, a))
    BY <1>3, <1>4
  <2>2. ls[i].acct = a
    BY <2>1 DEF Credit
  <2>3. rows[i].acct = ls[i].acct
    BY <1>1 DEF StoredLines, StoredLine
  <2> QED
    BY <2>2, <2>3
<1>8. rows[1].debit = Owed(o) /\ Owed(o) \in Nat
  <2>1. RoundTo((t * AmtUnit) * r, Unit) = RoundTo(t * r, RateUnit)
    BY <1>2, <1>5, OwedRounds
  <2>2. t * r \in Nat
    BY <1>2, <1>5
  <2>3. RoundTo(t * r, RateUnit) \in Nat
    BY <2>2, Units, RoundToError
  <2> QED
    BY <1>6, <2>1, <2>3, Units DEF Owed, Unit
<1> HIDE DEF rows, I
<1>9. \A a : Movement(rows, a) = SumFunctionOnSet(m(a), I)
  <2> TAKE a
  <2>1. Movement(rows, a) = SumFunction(m(a)) /\ DOMAIN m(a) = I
    BY <1>6 DEF Movement
  <2> HIDE DEF m
  <2> QED
    BY <2>1 DEF SumFunction
<1>10. Movement(rows, AR) = Owed(o)
  <2>1. m(AR)[1] = Owed(o) /\ \A i \in I \ {1} : m(AR)[i] = 0
    BY <1>4, <1>6, <1>7, <1>8, RevenueFacts
  <2> HIDE DEF m
  <2>2. IsFiniteSet(I \ {1})
    BY <1>4, FS_Subset
  <2>3. SumFunctionOnSet(m(AR), I \ {1}) = 0
    BY <2>1, <2>2, SumZero
  <2>4. \A i \in I : m(AR)[i] \in Int
    BY <1>8, <2>1
  <2>5. SumFunctionOnSet(m(AR), I) = m(AR)[1] + SumFunctionOnSet(m(AR), I \ {1})
    BY <1>4, <2>4, SumSplit
  <2> QED
    BY <1>8, <1>9, <2>1, <2>3, <2>5
<1>11. Movement(rows, Inventory) = 0
  <2>1. \A i \in I : m(Inventory)[i] = 0
    BY <1>6, <1>7, RevenueFacts, AmountsAssumption
  <2> HIDE DEF m
  <2> QED
    BY <1>4, <1>9, <2>1, SumZero
<1> QED
  BY <1>5, <1>10, <1>11 DEF rows, e

\* A stored amount is at most half a unit away from the exact one.
LEMMA RoundedError ==
  ASSUME NEW x \in Int, NEW u \in Nat \ {0}
  PROVE  /\ Rounded(x, u) \in Int
         /\ 2 * (u * Rounded(x, u) - x) <= u /\ 2 * (x - u * Rounded(x, u)) <= u
<1>1. CASE x < 0
  <2> DEFINE y == -x
             r == RoundTo(y, u)
  <2>1. y \in Nat
    BY <1>1
  <2> HIDE DEF y
  <2>2. r \in Nat /\ 2 * u * r - 2 * y <= u /\ 2 * y - 2 * u * r <= u
    BY <2>1, RoundToError
  <2>3. Rounded(x, u) = -r
    BY <1>1 DEF Rounded, y
  <2> HIDE DEF r
  <2>4. u * (-r) = -(u * r) /\ u * r \in Int /\ 2 * u * r = 2 * (u * r)
    BY <2>2
  <2>5. x = -y /\ -r \in Int
    BY <2>2 DEF y
  <2> QED
    BY <2>1, <2>2, <2>3, <2>4, <2>5
<1>2. CASE ~(x < 0)
  <2> DEFINE r == RoundTo(x, u)
  <2>1. r \in Nat /\ 2 * u * r - 2 * x <= u /\ 2 * x - 2 * u * r <= u
    BY <1>2, RoundToError
  <2>2. Rounded(x, u) = r
    BY <1>2 DEF Rounded
  <2> HIDE DEF r
  <2>3. u * r \in Int /\ 2 * u * r = 2 * (u * r)
    BY <2>1
  <2> QED
    BY <2>1, <2>2, <2>3
<1> QED
  BY <1>1, <1>2

\* What an entry does to the tracked balances: its company's move by what its
\* rows add up to, no other company's move at all.
LEMMA BookMoves ==
  ASSUME Types, NEW c \in Companies, NEW e, Book(c, e),
         NEW x \in Int, x = Movement(StoredLines(e), AR),
         NEW y \in Int, y = Movement(StoredLines(e), Inventory)
  PROVE  /\ gl' \in [Companies -> [Tracked -> Int]]
         /\ \A d \in Companies :
              /\ gl'[d][AR] = gl[d][AR] + (IF d = c THEN x ELSE 0)
              /\ gl'[d][Inventory] = gl[d][Inventory] + (IF d = c THEN y ELSE 0)
<1> DEFINE row == [a \in Tracked |-> gl[c][a] + Movement(StoredLines(e), a)]
<1>1. gl \in [Companies -> [Tracked -> Int]] /\ AR \in Tracked /\ Inventory \in Tracked
  BY DEF Types, Tracked
<1>2. gl' = [gl EXCEPT ![c] = row]
  BY DEF Book
<1>3. \A d \in Companies :
        gl[d] \in [Tracked -> Int] /\ gl[d][AR] \in Int /\ gl[d][Inventory] \in Int
  BY <1>1
<1>4. \A a \in Tracked : gl[c][a] + Movement(StoredLines(e), a) \in Int
  BY <1>1 DEF Tracked
<1>5. row \in [Tracked -> Int] /\ row[AR] = gl[c][AR] + x /\ row[Inventory] = gl[c][Inventory] + y
  BY <1>1, <1>4
<1> HIDE DEF row
<1>6. /\ gl' \in [Companies -> [Tracked -> Int]] /\ gl'[c] = row
      /\ \A d \in Companies : d # c => gl'[d] = gl[d]
  BY <1>1, <1>2, <1>5
<1> QED
  BY <1>3, <1>5, <1>6

-----------------------------------------------------------------------------
(* Receivables *)

\* What an order owes, and what it owes while it is invoiced and not paid.
OwedIn(r) == RoundTo(r.total * r.rate, RateUnit)
Debt(r) == IF r.status = "INVOICED" THEN OwedIn(r) ELSE 0
OrdersOf(c) == {o \in Orders : CompanyOf[o] = c}
Debts(orders) == [o \in Orders |-> Debt(orders[o])]

\* Both are integers.
LEMMA DebtType ==
  ASSUME NEW r \in OrderRow
  PROVE  OwedIn(r) \in Int /\ Debt(r) \in Int
<1> DEFINE x == r.total * r.rate
<1>1. r.total \in Int /\ r.rate \in Int
  BY DEF OrderRow
<1>2. x \in Int /\ 2 * RateUnit > 0 /\ RateUnit \in Int
  BY <1>1, Units
<1> HIDE DEF x
<1>3. RoundTo(x, RateUnit) \in Int
  BY <1>2 DEF RoundTo
<1> QED
  BY <1>3 DEF Debt, OwedIn, x

\* What the invoiced orders owe is a sum over all the orders of the company.
LEMMA DebtsAdd ==
  ASSUME NEW orders \in [Orders -> OrderRow], NEW c
  PROVE  SumFunctionOnSet([o \in Orders |-> OwedIn(orders[o])],
                          {o \in {o \in Orders : orders[o].status \in {"INVOICED"}} :
                             CompanyOf[o] = c})
           = SumFunctionOnSet(Debts(orders), OrdersOf(c))
<1> DEFINE A == {o \in {o \in Orders : orders[o].status \in {"INVOICED"}} : CompanyOf[o] = c}
           B == OrdersOf(c) \ A
           f == [o \in Orders |-> OwedIn(orders[o])]
           g == Debts(orders)
<1>1. IsFiniteSet(A) /\ IsFiniteSet(B) /\ A \cap B = {} /\ A \cup B = OrdersOf(c)
  <2>1. A \subseteq Orders /\ B \subseteq Orders /\ A \subseteq OrdersOf(c) /\ A \cap B = {}
    BY DEF OrdersOf
  <2> HIDE DEF A
  <2> QED
    BY <2>1, AmountsAssumption, FS_Subset
<1>2. \A o \in Orders : orders[o] \in OrderRow /\ f[o] = OwedIn(orders[o]) /\ g[o] = Debt(orders[o])
  BY DEF Debts
<1>3. \A o \in A : f[o] = g[o]
  BY <1>2 DEF Debt
<1>4. \A o \in B : g[o] = 0
  BY <1>2 DEF Debt, OrdersOf
<1>5. \A o \in A \cup B : g[o] \in Int
  BY <1>2, DebtType DEF OrdersOf
<1> HIDE DEF A, B, f, g
<1>6. SumFunctionOnSet(f, A) = SumFunctionOnSet(g, A)
  BY <1>1, <1>3, SumSame
<1>7. SumFunctionOnSet(g, B) = 0 /\ SumFunctionOnSet(g, A) \in Int
  BY <1>1, <1>4, <1>5, SumZero, SumType
<1>8. SumFunctionOnSet(g, A \cup B) = SumFunctionOnSet(g, A) + SumFunctionOnSet(g, B)
  BY <1>1, <1>5, SumUnion
<1>9. SumFunctionOnSet(f, A) = SumFunctionOnSet(g, OrdersOf(c))
  <2>1. SumFunctionOnSet(g, A \cup B) = SumFunctionOnSet(g, OrdersOf(c))
    BY <1>1, Zenon
  <2> QED
    BY <1>6, <1>7, <1>8, <2>1
<1> QED
  BY <1>9 DEF A, f, g

\* Receivables as a sum over every order of the company.
Settled(orders, balances) ==
  \A c \in Companies : balances[c][AR] = SumFunctionOnSet(Debts(orders), OrdersOf(c))

\* Receivables are what the invoiced orders owe exactly when they are that sum.
LEMMA OpenIsSettled ==
  order \in [Orders -> OrderRow] => (ReceivablesOpen <=> Settled(order, gl))
<1> SUFFICES ASSUME order \in [Orders -> OrderRow] PROVE ReceivablesOpen <=> Settled(order, gl)
  OBVIOUS
<1> DEFINE f == [o \in Orders |-> OwedIn(order[o])]
           A(c) == {o \in {o \in Orders : order[o].status \in {"INVOICED"}} : CompanyOf[o] = c}
<1>1. ReceivablesOpen <=> \A c \in Companies : gl[c][AR] = SumFunctionOnSet(f, A(c))
  BY DEF ReceivablesOpen, Owed, OwedIn, Ordered
<1>2. \A c : SumFunctionOnSet(f, A(c)) = SumFunctionOnSet(Debts(order), OrdersOf(c))
  BY DebtsAdd
<1> HIDE DEF f, A
<1> QED
  BY <1>1, <1>2 DEF Settled

\* When one order changes, receivables agree after it if its company's balance
\* moved by the change of what that order owes.
LEMMA SettledMoves ==
  ASSUME NEW orders \in [Orders -> OrderRow], NEW moved \in [Orders -> OrderRow],
         NEW o \in Orders, \A p \in Orders \ {o} : moved[p] = orders[p],
         NEW old, NEW new, Settled(orders, old),
         \A c \in Companies :
           new[c][AR] = old[c][AR] + (IF c = CompanyOf[o]
                                      THEN Debt(moved[o]) - Debt(orders[o]) ELSE 0)
  PROVE  Settled(moved, new)
<1> DEFINE f == Debts(orders)
           g == Debts(moved)
<1> SUFFICES ASSUME NEW c \in Companies
             PROVE  new[c][AR] = SumFunctionOnSet(g, OrdersOf(c))
  BY DEF Settled
<1>1. IsFiniteSet(OrdersOf(c)) /\ OrdersOf(c) \subseteq Orders
  BY AmountsAssumption, FS_Subset DEF OrdersOf
<1>2. \A p \in Orders : /\ f[p] = Debt(orders[p]) /\ g[p] = Debt(moved[p])
                        /\ f[p] \in Int /\ g[p] \in Int
  BY DebtType DEF Debts
<1>3. \A p \in OrdersOf(c) \ {o} : f[p] \in Int /\ g[p] = f[p]
  BY <1>1, <1>2
<1>4. o \in OrdersOf(c) <=> c = CompanyOf[o]
  BY DEF OrdersOf
<1>5. old[c][AR] = SumFunctionOnSet(f, OrdersOf(c))
  BY DEF Settled
<1> HIDE DEF f, g
<1>6. /\ SumFunctionOnSet(f, OrdersOf(c)) \in Int
      /\ SumFunctionOnSet(g, OrdersOf(c)) = SumFunctionOnSet(f, OrdersOf(c))
           + IF o \in OrdersOf(c) THEN g[o] - f[o] ELSE 0
  BY <1>1, <1>2, <1>3, SumChangeOn
<1> QED
  BY <1>2, <1>4, <1>5, <1>6

\* The same in the next state.
LEMMA OpenIsSettledNext ==
  (order \in [Orders -> OrderRow])' => (ReceivablesOpen' <=> Settled(order, gl)')
BY OpenIsSettled, PTL

\* How an operation on one order keeps ReceivablesOpen.
LEMMA OpenMoves ==
  ASSUME Types, Types', ReceivablesOpen,
         NEW o \in Orders, \A p \in Orders \ {o} : order'[p] = order[p],
         \A c \in Companies :
           gl'[c][AR] = gl[c][AR] + (IF c = CompanyOf[o]
                                     THEN Debt(order'[o]) - Debt(order[o]) ELSE 0)
  PROVE  ReceivablesOpen'
<1>1. order \in [Orders -> OrderRow] /\ order' \in [Orders -> OrderRow]
  BY DEF Types
<1>2. Settled(order, gl)
  BY <1>1, OpenIsSettled
<1>3. Settled(order', gl')
  BY <1>1, <1>2, SettledMoves
<1> QED
  BY <1>1, <1>3, OpenIsSettledNext

-----------------------------------------------------------------------------
(* Stock and its value *)

\* A balance g in cents and a value v, apart by at most half a cent for each of
\* n entries and half of a.
Near(g, v, n, a) == 2 * Distance(g * AmtUnit, v) <= n * AmtUnit + a

\* They stay near when what both gain is within what the budget gains.
LEMMA NearMoves ==
  ASSUME NEW g \in Int, NEW v \in Int, NEW n \in Int, NEW a \in Int, Near(g, v, n, a),
         NEW dg \in Int, NEW dv \in Int, NEW dn \in Int, NEW da \in Int,
         2 * (AmtUnit * dg - dv) <= dn * AmtUnit + da,
         2 * (dv - AmtUnit * dg) <= dn * AmtUnit + da
  PROVE  Near(g + dg, v + dv, n + dn, a + da)
<1> DEFINE x == g * AmtUnit
           y == AmtUnit * dg
           m == n * AmtUnit
           e == dn * AmtUnit
<1>1. AmtUnit \in Int
  BY Units
<1>2. /\ x \in Int /\ y \in Int /\ m \in Int /\ e \in Int
      /\ (g + dg) * AmtUnit = x + y /\ (n + dn) * AmtUnit = m + e
  BY <1>1
<1>3. 2 * Distance(x, v) <= m + a
  BY DEF Near
<1>4. 2 * (y - dv) <= e + da /\ 2 * (dv - y) <= e + da
  OBVIOUS
<1> HIDE DEF x, y, m, e
<1>5. 2 * Distance(x + y, v + dv) <= (m + e) + (a + da)
  BY <1>2, <1>3, <1>4 DEF Distance
<1> QED
  BY <1>2, <1>5 DEF Near

\* The receipts of each product, and the stock they averaged.
CountsIn(rows) == [p \in Products |-> rows[p].count]
AveragedIn(rows) == [p \in Products |-> rows[p].averaged]
RoundedIn(rows) == [p \in Products |-> rows[p].rounded]

\* What their roundings may have moved the value by, twice.
Rounding(rows, c) ==
  OverStock(AveragedIn(rows), c) * (CostStep + 1) + OverStock(RoundedIn(rows), c) * QtyStep

\* StockValueDrift of any items, balances, receipts and shipments.
Drifts(items, balances, rows, sent) ==
  \A c \in Companies :
    Near(balances[c][Inventory], OverStock(ValueIn(items), c),
         sent[c] + OverStock(CountsIn(rows), c), Rounding(rows, c))

\* It is StockValueDrift, in this state.
LEMMA DriftIsNear == StockValueDrift <=> Drifts(item, gl, receipts, issues)
BY DEF StockValueDrift, Drifts, Near, ValueIn, Value, CountsIn, Receipts, AveragedIn, Averaged,
       RoundedIn, RoundedAt, Rounding

\* The same in the next state.
LEMMA DriftIsNearNext == StockValueDrift' <=> Drifts(item', gl', receipts', issues')
BY DEF StockValueDrift, Drifts, Near, ValueIn, Value, CountsIn, Receipts, AveragedIn, Averaged,
       RoundedIn, RoundedAt, Rounding

\* The products of a company are finitely many.
LEMMA StockFinite ==
  ASSUME NEW c
  PROVE  IsFiniteSet(StockOf(c)) /\ StockOf(c) \subseteq Products
BY AmountsAssumption, FS_Subset DEF StockOf

\* A sum over a company's products.
LEMMA OverStockType ==
  ASSUME NEW f, \A p \in Products : f[p] \in Int, NEW c
  PROVE  OverStock(f, c) \in Int
<1>1. IsFiniteSet(StockOf(c)) /\ \A p \in StockOf(c) : f[p] \in Int
  BY StockFinite
<1> QED
  BY <1>1, SumType DEF OverStock

\* The value, the receipts and the roundings of a company.
LEMMA StockTypes ==
  ASSUME NEW items \in [Products -> ItemRow], NEW c,
         NEW rows \in [Products -> [count : Int, averaged : Int, rounded : Int]]
  PROVE  /\ OverStock(ValueIn(items), c) \in Int
         /\ OverStock(CountsIn(rows), c) \in Int /\ OverStock(AveragedIn(rows), c) \in Int
         /\ OverStock(RoundedIn(rows), c) \in Int /\ Rounding(rows, c) \in Int
<1>1. \A p \in Products : ValueIn(items)[p] \in Int
  BY DEF ValueIn, ItemRow
<1>2. \A p \in Products : /\ CountsIn(rows)[p] \in Int /\ AveragedIn(rows)[p] \in Int
                         /\ RoundedIn(rows)[p] \in Int
  BY DEF CountsIn, AveragedIn, RoundedIn
<1>3. /\ OverStock(AveragedIn(rows), c) \in Int /\ OverStock(RoundedIn(rows), c) \in Int
  BY <1>2, OverStockType
<1>4. Rounding(rows, c) \in Int
  BY <1>3, AmountsAssumption DEF Rounding
<1> QED
  BY <1>1, <1>2, <1>3, <1>4, OverStockType

\* An operation that leaves stock and inventory accounts alone keeps the drift.
LEMMA DriftSame ==
  ASSUME StockValueDrift, UNCHANGED <<item, receipts, issues>>,
         \A c \in Companies : gl'[c][Inventory] = gl[c][Inventory]
  PROVE  StockValueDrift'
BY DEF StockValueDrift, Value, Receipts, Averaged, RoundedAt

(* Bounds *)
\* The statuses of an order that was confirmed.
Later == {"CONFIRMED", "SHIPPED", "INVOICED", "PAID"}

\* Some confirmed order takes p backwards: the exception of StockBounds.
Backward(orders, p) ==
  \E o \in Orders : orders[o].status \in Later /\ ~Forward(orders[o].lines, p)

\* StockBounds in those words, in this state.
LEMMA BoundsAre ==
  Types => (StockBounds <=> \A p \in Products : Bounded(item[p]) \/ Backward(order, p))
<1> SUFFICES ASSUME Types
             PROVE  StockBounds <=> \A p \in Products : Bounded(item[p]) \/ Backward(order, p)
  OBVIOUS
<1>1. ASSUME NEW o \in Orders, NEW p \in Products
      PROVE  ~Forward(order[o].lines, p) <=>
               \E i \in DOMAIN order[o].lines :
                 order[o].lines[i].product = p /\ order[o].lines[i].qty < 0
  <2>1. \A i \in DOMAIN order[o].lines : order[o].lines[i].qty \in Int
    BY LineFacts
  <2>2. \A i \in DOMAIN order[o].lines : order[o].lines[i].qty < 0 <=> ~(order[o].lines[i].qty >= 0)
    BY <2>1
  <2> QED
    BY <2>2, Zenon DEF Forward
<1>2. ASSUME NEW p \in Products
      PROVE  Backward(order, p) <=>
               \E o \in Ordered({"CONFIRMED", "SHIPPED", "INVOICED", "PAID"}) :
                 \E i \in DOMAIN order[o].lines :
                   order[o].lines[i].product = p /\ order[o].lines[i].qty < 0
  BY <1>1 DEF Backward, Ordered, Later
<1> QED
  BY <1>2 DEF StockBounds, Bounded

\* The same in the next state.
LEMMA BoundsAreNext ==
  Types' => (StockBounds' <=> (\A p \in Products : Bounded(item[p]) \/ Backward(order, p))')
BY BoundsAre, PTL

\* StockBounds is kept when confirmed orders stay so, with their lines, and
\* every item that was within its bounds is, or an order now takes it backwards.
LEMMA BoundsMove ==
  ASSUME Types, Types', StockBounds,
         \A o \in Orders : order[o].status \in Later =>
           order'[o].status \in Later /\ order'[o].lines = order[o].lines,
         \A p \in Products : Bounded(item[p]) => Bounded(item'[p]) \/ Backward(order', p)
  PROVE  StockBounds'
<1>1. \A p \in Products : Bounded(item[p]) \/ Backward(order, p)
  BY BoundsAre
<1>2. \A p \in Products : Backward(order, p) => Backward(order', p)
  BY DEF Backward
<1>3. \A p \in Products : Bounded(item'[p]) \/ Backward(order', p)
  BY <1>1, <1>2
<1> QED
  BY <1>3, BoundsAreNext

-----------------------------------------------------------------------------
(* Orders that change their status *)

\* An operation that moves an order's status keeps its types and its lines.
LEMMA StatusMoves ==
  ASSUME Types, \A p \in Orders : OrderFits(order[p], p),
         NEW o \in Orders, order[o].status # "NONE", NEW s \in Statuses,
         NEW d \in Docs \cup {Null},
         \/ order' = [order EXCEPT ![o].status = s]
         \/ order' = [order EXCEPT ![o].status = s, ![o].doc = d],
         s \in {"INVOICED", "PAID"} => order[o].total > 0
  PROVE  /\ order' \in [Orders -> OrderRow]
         /\ order'[o].status = s /\ order'[o].lines = order[o].lines
         /\ order'[o].total = order[o].total /\ order'[o].rate = order[o].rate
         /\ \A p \in Orders \ {o} : order'[p] = order[p]
         /\ \A p \in Orders : OrderFits(order'[p], p)
<1> DEFINE r == order[o]
           t == order'[o]
<1>1. order \in [Orders -> OrderRow] /\ r \in OrderRow
  BY DEF Types
<1>2. \A p \in Orders \ {o} : order'[p] = order[p]
  BY <1>1
<1>3. /\ t.status = s /\ t.lines = r.lines /\ t.total = r.total /\ t.rate = r.rate
      /\ t.whole = r.whole /\ t \in OrderRow
  <2>1. CASE order' = [order EXCEPT ![o].status = s]
    <3>1. t = [r EXCEPT !.status = s]
      BY <1>1, <2>1
    <3> HIDE DEF t, r
    <3> QED
      BY <1>1, <3>1 DEF OrderRow
  <2>2. CASE order' = [order EXCEPT ![o].status = s, ![o].doc = d]
    <3>1. t = [r EXCEPT !.status = s, !.doc = d]
      BY <1>1, <2>2
    <3> HIDE DEF t, r
    <3> QED
      BY <1>1, <3>1 DEF OrderRow
  <2> QED
    BY <2>1, <2>2
<1>4. order' \in [Orders -> OrderRow]
  <2>1. order' = [p \in Orders |-> order'[p]]
    BY <1>1
  <2>2. \A p \in Orders : order'[p] \in OrderRow
    BY <1>1, <1>2, <1>3
  <2> QED
    BY <2>1, <2>2, Zenon
<1>5. OrderFits(t, o)
  <2>1. OrderFits(r, o) /\ LineTotals(t) = LineTotals(r)
    BY <1>3 DEF LineTotals
  <2> HIDE DEF t, r
  <2> QED
    BY <1>3, <2>1 DEF OrderFits, r
<1> QED
  BY <1>2, <1>3, <1>4, <1>5

\* The invariant holds before any order, receipt or entry.
LEMMA InitHolds == Init => IInv
<1> SUFFICES ASSUME Init PROVE IInv
  OBVIOUS
<1>1. \A o \in Orders : order[o] = NoOrder
  BY DEF Init
<1>2. NoOrder \in OrderRow
  BY Units DEF NoOrder, OrderRow, Statuses
<1>3. \A p \in Products :
        item[p] = [exists |-> FALSE, onHand |-> 0, reserved |-> 0, cost |-> 0]
  BY DEF Init
<1>4. Types
  <2>1. order \in [Orders -> OrderRow]
    BY <1>2 DEF Init
  <2>2. item \in [Products -> ItemRow]
    BY DEF Init, ItemRow
  <2>3. /\ gl \in [Companies -> [Tracked -> Int]]
        /\ receipts \in [Products -> [count : Int, averaged : Int, rounded : Int]]
        /\ issues \in [Companies -> Int]
    BY DEF Init
  <2>4. siDocs \subseteq Docs /\ IsFiniteSet(siDocs)
    BY FS_EmptySet DEF Init
  <2> QED
    BY <2>1, <2>2, <2>3, <2>4 DEF Types
<1>5. \A p \in Products : ItemFits(item[p])
  <2>1. 0 = 0 * QtyStep
    BY AmountsAssumption
  <2> QED
    BY <1>3, <2>1 DEF ItemFits, Storable
<1>6. \A o \in Orders : OrderFits(order[o], o)
  BY <1>1 DEF NoOrder, OrderFits
<1>7. ReceivablesOpen
  <2>1. ASSUME NEW c \in Companies
        PROVE  gl[c][AR] = SumFunctionOnSet(Debts(order), OrdersOf(c))
    <3>1. IsFiniteSet(OrdersOf(c)) /\ OrdersOf(c) \subseteq Orders
      BY AmountsAssumption, FS_Subset DEF OrdersOf
    <3>2. \A o \in OrdersOf(c) : Debts(order)[o] = 0
      BY <1>1, <3>1 DEF Debts, Debt, NoOrder
    <3>3. SumFunctionOnSet(Debts(order), OrdersOf(c)) = 0
      BY <3>1, <3>2, SumZero
    <3>4. gl[c][AR] = 0
      BY DEF Init, Tracked
    <3> QED
      BY <3>3, <3>4
  <2>2. Settled(order, gl)
    BY <2>1 DEF Settled
  <2> QED
    BY <1>4, <2>2, OpenIsSettled DEF Types
<1>8. StockValueDrift
  <2>1. ASSUME NEW c \in Companies
        PROVE  Near(gl[c][Inventory], OverStock(ValueIn(item), c),
                    issues[c] + OverStock(CountsIn(receipts), c), Rounding(receipts, c))
    <3>1. IsFiniteSet(StockOf(c)) /\ StockOf(c) \subseteq Products
      BY StockFinite
    <3>2. \A p \in StockOf(c) : /\ ValueIn(item)[p] = 0
                                /\ CountsIn(receipts)[p] = 0 /\ AveragedIn(receipts)[p] = 0
                                /\ RoundedIn(receipts)[p] = 0
      BY <1>3, <3>1 DEF ValueIn, CountsIn, AveragedIn, RoundedIn, Init
    <3>3. /\ OverStock(ValueIn(item), c) = 0 /\ OverStock(CountsIn(receipts), c) = 0
          /\ OverStock(AveragedIn(receipts), c) = 0 /\ OverStock(RoundedIn(receipts), c) = 0
      BY <3>1, <3>2, SumZero DEF OverStock
    <3>5. Rounding(receipts, c) = 0
      BY <3>3, AmountsAssumption DEF Rounding
    <3>4. gl[c][Inventory] = 0 /\ issues[c] = 0
      BY DEF Init, Tracked
    <3> QED
      BY <3>3, <3>4, <3>5, Units DEF Near, Distance
  <2>2. Drifts(item, gl, receipts, issues)
    BY <2>1 DEF Drifts
  <2> QED
    BY <2>2, DriftIsNear
<1>9. StockBounds
  BY <1>3, <1>4, BoundsAre DEF Bounded
<1> QED
  BY <1>4, <1>5, <1>6, <1>7, <1>8, <1>9 DEF IInv, BooksAgree

\* CancelOrder keeps the invariant: a draft owes nothing and reserves nothing.
LEMMA CancelKeeps ==
  ASSUME IInv, NEW o \in Orders, CancelOrder(o)
  PROVE  IInv'
<1>1. /\ Types /\ ReceivablesOpen /\ StockValueDrift /\ StockBounds
      /\ \A p \in Products : ItemFits(item[p])
      /\ \A p \in Orders : OrderFits(order[p], p)
  BY DEF IInv, BooksAgree
<1>2. /\ order[o].status = "DRAFT" /\ order' = [order EXCEPT ![o].status = "CANCELLED"]
      /\ UNCHANGED <<item, gl, keys, siDocs, receipts, issues>>
  BY DEF CancelOrder
<1>3. /\ order' \in [Orders -> OrderRow]
      /\ order'[o].status = "CANCELLED" /\ order'[o].lines = order[o].lines
      /\ \A p \in Orders \ {o} : order'[p] = order[p]
      /\ \A p \in Orders : OrderFits(order'[p], p)
  <2>1. "CANCELLED" \in Statuses /\ "CANCELLED" \notin {"INVOICED", "PAID"}
        /\ order[o].status # "NONE" /\ Null \in Docs \cup {Null}
    BY <1>2 DEF Statuses
  <2> QED
    BY <1>1, <1>2, <2>1, StatusMoves
<1>4. Types'
  BY <1>1, <1>2, <1>3 DEF Types
<1>5. ReceivablesOpen'
  <2>1. Debt(order'[o]) = 0 /\ Debt(order[o]) = 0
    BY <1>2, <1>3 DEF Debt
  <2>2. \A c \in Companies :
           gl'[c][AR] = gl[c][AR] + (IF c = CompanyOf[o]
                                     THEN Debt(order'[o]) - Debt(order[o]) ELSE 0)
    BY <1>1, <1>2, <2>1 DEF Types, Tracked
  <2> QED
    BY <1>1, <1>3, <1>4, <2>2, OpenMoves
<1>6. StockValueDrift'
  BY <1>1, <1>2, DriftSame
<1>7. StockBounds'
  <2>1. \A p \in Orders : order[p].status \in Later =>
           order'[p].status \in Later /\ order'[p].lines = order[p].lines
    BY <1>2, <1>3 DEF Later
  <2>2. \A p \in Products : Bounded(item[p]) => Bounded(item'[p]) \/ Backward(order', p)
    BY <1>2
  <2> QED
    BY <1>1, <1>4, <2>1, <2>2, BoundsMove
<1>8. \A p \in Products : ItemFits(item'[p])
  BY <1>1, <1>2
<1> QED
  BY <1>3, <1>4, <1>5, <1>6, <1>7, <1>8 DEF IInv, BooksAgree

-----------------------------------------------------------------------------
(* Creating and confirming *)

\* A line of a request.
BasketLine == [product : Products, qty : Int, price : Int]

\* The row CreateOrder inserts.
NewRow(lines, rate) ==
  [status |-> "DRAFT", rate |-> rate, total |-> TotalOf(lines), doc |-> Null,
   whole |-> \A i \in DOMAIN lines : LineTotal(lines[i]) % AmtUnit = 0,
   lines |-> [i \in DOMAIN lines |->
                [product |-> lines[i].product, qty |-> Column(lines[i].qty, LineStep),
                 total |-> Rounded(LineTotal(lines[i]), AmtUnit)]]]

\* A line's exact total is an integer, at the list price or its own.
LEMMA LineTotalType ==
  ASSUME NEW l \in BasketLine
  PROVE  LineTotal(l) \in Int
<1> DEFINE price == IF l.price = 0 THEN ListPrice[l.product] ELSE l.price
<1>1. l.qty \in Int /\ price \in Int
  BY AmountsAssumption DEF BasketLine
<1> HIDE DEF price
<1>2. l.qty * price \in Int
  BY <1>1
<1> QED
  BY <1>2 DEF LineTotal, price

\* The row fits: its total, rounded once, is what its stored lines add up to
\* when there is one line, or when none of them was rounded.
LEMMA NewRowFits ==
  ASSUME NEW o \in Orders, NEW lines \in Seq(BasketLine), lines # <<>>, NEW rate \in Nat \ {0},
         \A i \in DOMAIN lines : CompanyOf[lines[i].product] = CompanyOf[o]
  PROVE  NewRow(lines, rate) \in OrderRow /\ OrderFits(NewRow(lines, rate), o)
<1> DEFINE r == NewRow(lines, rate)
           n == Len(lines)
           S == DOMAIN lines
           f == [i \in S |-> LineTotal(lines[i])]
           g == LineTotals(r)
           sum == SumFunctionOnSet(f, S)
<1>1. /\ n \in Nat /\ S = 1 .. n /\ IsFiniteSet(S) /\ n >= 1
      /\ \A i \in S : lines[i] \in BasketLine
  BY SeqDomain
<1>2. /\ r.status = "DRAFT" /\ r.rate = rate /\ r.total = TotalOf(lines) /\ r.doc = Null
      /\ r.whole = (\A i \in S : LineTotal(lines[i]) % AmtUnit = 0)
      /\ r.lines = [i \in S |-> [product |-> lines[i].product,
                                 qty |-> Column(lines[i].qty, LineStep),
                                 total |-> Rounded(LineTotal(lines[i]), AmtUnit)]]
      /\ r = [status |-> r.status, rate |-> r.rate, total |-> r.total, doc |-> r.doc,
              whole |-> r.whole, lines |-> r.lines]
  BY DEF NewRow
<1> HIDE DEF r, n, S
<1>3. \A i \in S : f[i] \in Int /\ f[i] = LineTotal(lines[i]) /\ Rounded(f[i], AmtUnit) \in Int
  BY <1>1, LineTotalType, RoundedType, Units
<1>4. /\ DOMAIN r.lines = S
      /\ \A i \in S : /\ r.lines[i].product = lines[i].product /\ Storable(r.lines[i].qty)
                      /\ r.lines[i].total = Rounded(f[i], AmtUnit)
                      /\ r.lines[i] \in OrderLine
  <2>1. \A i \in S : lines[i].product \in Products /\ lines[i].qty \in Int
    BY <1>1 DEF BasketLine
  <2>2. \A i \in S : /\ Column(lines[i].qty, LineStep) \in Int
                    /\ Storable(Column(lines[i].qty, LineStep))
    BY <2>1, LineStorable
  <2> QED
    BY <1>2, <1>3, <2>1, <2>2 DEF OrderLine
<1>5. r.lines \in Seq(OrderLine) /\ Len(r.lines) = n
  <2>1. r.lines \in [1 .. n -> OrderLine]
    BY <1>1, <1>2, <1>4
  <2> QED
    BY <1>1, <2>1
<1>6. sum \in Int /\ r.total = Rounded(sum, AmtUnit) /\ r.total \in Int
  <2>1. TotalOf(lines) = Rounded(SumFunction(f), AmtUnit) /\ DOMAIN f = S
    BY DEF TotalOf, S
  <2> HIDE DEF f
  <2>2. TotalOf(lines) = Rounded(sum, AmtUnit)
    BY <2>1 DEF SumFunction
  <2>3. sum \in Int
    BY <1>1, <1>3, SumType
  <2> HIDE DEF sum
  <2> QED
    BY <1>2, <2>2, <2>3, RoundedType, Units
<1>7. r \in OrderRow
  BY <1>2, <1>5, <1>6 DEF OrderRow, Statuses
<1>8. DOMAIN g = S /\ \A i \in S : g[i] = Rounded(f[i], AmtUnit)
  BY <1>4 DEF LineTotals
<1>9. SumFunction(g) = SumFunctionOnSet(g, S)
  <2> HIDE DEF g
  <2> QED
    BY <1>8 DEF SumFunction
<1>10. ASSUME r.whole PROVE r.total = SumFunction(g)
  <2>1. \A i \in S : f[i] \in Int /\ Multiple(f[i], AmtUnit) /\ g[i] = Rounded(f[i], AmtUnit)
    BY <1>2, <1>3, <1>8, <1>10 DEF Multiple
  <2> HIDE DEF f, g
  <2>2. Rounded(SumFunctionOnSet(f, S), AmtUnit) = SumFunctionOnSet(g, S)
    <3>1. IsFiniteSet(S) /\ AmtUnit \in Nat \ {0}
      BY <1>1, Units
    <3> QED
      BY ONLY <2>1, <3>1, RoundedParts, SMT
  <2> QED
    BY <1>6, <1>9, <2>2
<1>11. ASSUME n = 1 PROVE r.total = SumFunction(g)
  <2>1. S = {1} /\ 1 \in S
    BY <1>1, <1>11
  <2>2. f[1] \in Int /\ g[1] \in Int /\ g[1] = Rounded(f[1], AmtUnit)
    BY <1>3, <1>8, <2>1
  <2> HIDE DEF f, g
  <2>3. SumFunctionOnSet(f, {1}) = f[1] /\ SumFunctionOnSet(g, {1}) = g[1]
    BY <2>2, SumOfOne
  <2> QED
    BY <1>6, <1>9, <2>1, <2>2, <2>3
<1>12. r.lines # <<>>
  BY <1>1, <1>5
<1>13. OrderFits(r, o)
  BY <1>2, <1>4, <1>5, <1>10, <1>11, <1>12 DEF OrderFits, S
<1> QED
  BY <1>7, <1>13 DEF r

\* CreateOrder keeps the invariant.
LEMMA CreateKeeps ==
  ASSUME IInv, NEW o \in Orders, NEW b \in BasketsOf[o], CreateOrder(o, b.lines, b.rate)
  PROVE  IInv'
<1> DEFINE r == NewRow(b.lines, b.rate)
<1>1. /\ Types /\ ReceivablesOpen /\ StockValueDrift /\ StockBounds
      /\ \A p \in Products : ItemFits(item[p])
      /\ \A p \in Orders : OrderFits(order[p], p)
  BY DEF IInv, BooksAgree
<1>2. /\ order[o].status = "NONE" /\ order' = [order EXCEPT ![o] = r]
      /\ UNCHANGED <<item, gl, keys, siDocs, receipts, issues>>
  BY DEF CreateOrder, NewRow
<1>3. r \in OrderRow /\ OrderFits(r, o)
  <2>1. BasketFits(o, b)
    BY AmountsAssumption
  <2> QED
    BY <2>1, NewRowFits DEF BasketFits, BasketLine
<1>4. r.status = "DRAFT"
  BY DEF NewRow
<1> HIDE DEF r
<1>5. /\ order' \in [Orders -> OrderRow] /\ order'[o] = r
      /\ \A p \in Orders \ {o} : order'[p] = order[p]
      /\ \A p \in Orders : OrderFits(order'[p], p)
  BY <1>1, <1>2, <1>3 DEF Types
<1>6. Types'
  BY <1>1, <1>2, <1>5 DEF Types
<1>7. ReceivablesOpen'
  <2>1. Debt(order'[o]) = 0 /\ Debt(order[o]) = 0
    BY <1>2, <1>4, <1>5 DEF Debt
  <2>2. \A c \in Companies :
           gl'[c][AR] = gl[c][AR] + (IF c = CompanyOf[o]
                                     THEN Debt(order'[o]) - Debt(order[o]) ELSE 0)
    BY <1>1, <1>2, <2>1 DEF Types, Tracked
  <2> QED
    BY <1>1, <1>5, <1>6, <2>2, OpenMoves
<1>8. StockValueDrift'
  BY <1>1, <1>2, DriftSame
<1>9. StockBounds'
  <2>1. \A p \in Orders : order[p].status \in Later =>
           order'[p].status \in Later /\ order'[p].lines = order[p].lines
    BY <1>2, <1>5 DEF Later
  <2>2. \A p \in Products : Bounded(item[p]) => Bounded(item'[p]) \/ Backward(order', p)
    BY <1>2
  <2> QED
    BY <1>1, <1>6, <2>1, <2>2, BoundsMove
<1>10. \A p \in Products : ItemFits(item'[p])
  BY <1>1, <1>2
<1> QED
  BY <1>5, <1>6, <1>7, <1>8, <1>9, <1>10 DEF IInv, BooksAgree

\* ConfirmOrder keeps the invariant: what it reserves was available.
LEMMA ConfirmKeeps ==
  ASSUME IInv, NEW o \in Orders, ConfirmOrder(o)
  PROVE  IInv'
<1> DEFINE lines == order[o].lines
           s == ReserveLines(lines)
<1>1. /\ Types /\ ReceivablesOpen /\ StockValueDrift /\ StockBounds
      /\ \A p \in Products : ItemFits(item[p])
      /\ \A p \in Orders : OrderFits(order[p], p)
  BY DEF IInv, BooksAgree
<1>2. /\ order[o].status = "DRAFT" /\ order' = [order EXCEPT ![o].status = "CONFIRMED"]
      /\ s.ok /\ item' = s.item
      /\ UNCHANGED <<gl, keys, siDocs, receipts, issues>>
  BY DEF ConfirmOrder
<1>3. /\ order' \in [Orders -> OrderRow]
      /\ order'[o].status = "CONFIRMED" /\ order'[o].lines = order[o].lines
      /\ \A p \in Orders \ {o} : order'[p] = order[p]
      /\ \A p \in Orders : OrderFits(order'[p], p)
  <2>1. "CONFIRMED" \in Statuses /\ "CONFIRMED" \notin {"INVOICED", "PAID"}
        /\ order[o].status # "NONE" /\ Null \in Docs \cup {Null}
    BY <1>2 DEF Statuses
  <2> QED
    BY <1>1, <1>2, <2>1, StatusMoves
<1>4. s \in Reserved(lines)
  BY <1>1, LineFacts, ReserveKeeps DEF Types
<1> HIDE DEF s
<1>5. /\ item' \in [Products -> ItemRow]
      /\ \A p \in Products :
           /\ item'[p].exists = item[p].exists /\ item'[p].cost = item[p].cost
           /\ item'[p].onHand = item[p].onHand
           /\ ~item[p].exists => item'[p].reserved = item[p].reserved
           /\ Forward(lines, p) /\ Bounded(item[p]) => Bounded(item'[p])
  BY <1>2, <1>4 DEF Reserved
<1>6. Types'
  BY <1>1, <1>2, <1>3, <1>5 DEF Types
<1>7. ReceivablesOpen'
  <2>1. Debt(order'[o]) = 0 /\ Debt(order[o]) = 0
    BY <1>2, <1>3 DEF Debt
  <2>2. \A c \in Companies :
           gl'[c][AR] = gl[c][AR] + (IF c = CompanyOf[o]
                                     THEN Debt(order'[o]) - Debt(order[o]) ELSE 0)
    BY <1>1, <1>2, <2>1 DEF Types, Tracked
  <2> QED
    BY <1>1, <1>3, <1>6, <2>2, OpenMoves
<1>8. StockValueDrift'
  <2>1. ValueIn(item') = ValueIn(item)
    BY <1>5 DEF ValueIn
  <2>2. Drifts(item, gl, receipts, issues)
    BY <1>1, DriftIsNear
  <2>3. Drifts(item', gl', receipts', issues')
    BY <1>2, <2>1, <2>2 DEF Drifts
  <2> QED
    BY <2>3, DriftIsNearNext
<1>9. StockBounds'
  <2>1. \A p \in Orders : order[p].status \in Later =>
           order'[p].status \in Later /\ order'[p].lines = order[p].lines
    BY <1>2, <1>3 DEF Later
  <2>2. \A p \in Products : ~Forward(lines, p) => Backward(order', p)
    BY <1>3 DEF Backward, Later
  <2>3. \A p \in Products : Bounded(item[p]) => Bounded(item'[p]) \/ Backward(order', p)
    BY <1>5, <2>2
  <2> QED
    BY <1>1, <1>6, <2>1, <2>3, BoundsMove
<1>10. \A p \in Products : ItemFits(item'[p])
  BY <1>1, <1>5 DEF ItemFits
<1> QED
  BY <1>3, <1>6, <1>7, <1>8, <1>9, <1>10 DEF IInv, BooksAgree

-----------------------------------------------------------------------------
(* Paying, invoicing and shipping *)

\* RecordPayment keeps the invariant: it clears at the order's own rate what
\* the invoice booked.
LEMMA PaymentKeeps ==
  ASSUME IInv, NEW o \in Orders, RecordPayment(o)
  PROVE  IInv'
<1> DEFINE c == CompanyOf[o]
           x == -Owed(o)
           y == 0
<1>1. /\ Types /\ ReceivablesOpen /\ StockValueDrift /\ StockBounds
      /\ \A p \in Products : ItemFits(item[p])
      /\ \A p \in Orders : OrderFits(order[p], p)
  BY DEF IInv, BooksAgree
<1>2. /\ order[o].status = "INVOICED" /\ order' = [order EXCEPT ![o].status = "PAID"]
      /\ Book(c, Payment(o)) /\ Validate(Payment(o))
      /\ UNCHANGED <<item, keys, siDocs, receipts, issues>>
  BY DEF RecordPayment, Book
<1>3. /\ order[o].total > 0 /\ Movement(StoredLines(Payment(o)), AR) = x
      /\ Movement(StoredLines(Payment(o)), Inventory) = y
  BY <1>1, <1>2, PaymentMoves
<1>4. x \in Int /\ y \in Int /\ Owed(o) = OwedIn(order[o]) /\ Owed(o) \in Int
  <2>1. OwedIn(order[o]) \in Int
    BY <1>1, DebtType DEF Types
  <2> QED
    BY <2>1 DEF Owed, OwedIn
<1>5. c \in Companies
  BY AmountsAssumption
<1>6. /\ order' \in [Orders -> OrderRow]
      /\ order'[o].status = "PAID" /\ order'[o].lines = order[o].lines
      /\ \A p \in Orders \ {o} : order'[p] = order[p]
      /\ \A p \in Orders : OrderFits(order'[p], p)
  <2>1. "PAID" \in Statuses /\ order[o].status # "NONE" /\ Null \in Docs \cup {Null}
    BY <1>2 DEF Statuses
  <2> QED
    BY <1>1, <1>2, <1>3, <2>1, StatusMoves
<1> HIDE DEF x, y, c
<1>7. /\ gl' \in [Companies -> [Tracked -> Int]]
      /\ \A d \in Companies :
           /\ gl'[d][AR] = gl[d][AR] + (IF d = c THEN x ELSE 0)
           /\ gl'[d][Inventory] = gl[d][Inventory] + (IF d = c THEN y ELSE 0)
  BY <1>1, <1>2, <1>3, <1>4, <1>5, BookMoves
<1>8. Types'
  BY <1>1, <1>2, <1>6, <1>7 DEF Types
<1>9. ReceivablesOpen'
  <2>1. Debt(order'[o]) = 0 /\ Debt(order[o]) = Owed(o)
    BY <1>2, <1>4, <1>6 DEF Debt
  <2>2. \A d \in Companies :
           gl'[d][AR] = gl[d][AR] + (IF d = CompanyOf[o]
                                     THEN Debt(order'[o]) - Debt(order[o]) ELSE 0)
    BY <1>4, <1>7, <2>1 DEF x, c
  <2> QED
    BY <1>1, <1>6, <1>8, <2>2, OpenMoves
<1>10. StockValueDrift'
  <2>1. \A d \in Companies : gl[d][Inventory] \in Int
    BY <1>1 DEF Types, Tracked
  <2>2. \A d \in Companies : gl'[d][Inventory] = gl[d][Inventory]
    BY <1>7, <2>1 DEF y
  <2> QED
    BY <1>1, <1>2, <2>2, DriftSame
<1>11. StockBounds'
  <2>1. \A p \in Orders : order[p].status \in Later =>
           order'[p].status \in Later /\ order'[p].lines = order[p].lines
    BY <1>2, <1>6 DEF Later
  <2>2. \A p \in Products : Bounded(item[p]) => Bounded(item'[p]) \/ Backward(order', p)
    BY <1>2
  <2> QED
    BY <1>1, <1>8, <2>1, <2>2, BoundsMove
<1>12. \A p \in Products : ItemFits(item'[p])
  BY <1>1, <1>2
<1> QED
  BY <1>6, <1>8, <1>9, <1>10, <1>11, <1>12 DEF IInv, BooksAgree

\* The invoice documents stay finitely many, whichever of them is picked up.
LEMMA DocumentFacts ==
  ASSUME Types, NEW c \in Companies
  PROVE  /\ NextSI(c) \in Docs /\ IsFiniteSet(siDocs \cup {NextSI(c)})
         /\ InvoiceDocument(c) \subseteq Docs
<1>1. siDocs \subseteq Docs /\ IsFiniteSet(siDocs)
  BY DEF Types
<1>2. {d \in siDocs : d.company = c} \subseteq siDocs
  OBVIOUS
<1>3. IsFiniteSet({d \in siDocs : d.company = c})
  BY <1>1, <1>2, FS_Subset
<1>4. Cardinality({d \in siDocs : d.company = c}) \in Nat
  BY <1>3, FS_CardinalityType
<1>5. NextSI(c) \in Docs
  BY <1>4 DEF NextSI, Docs
<1>6. IsFiniteSet(siDocs \cup {NextSI(c)})
  BY <1>1, FS_AddElement
<1> QED
  BY <1>1, <1>5, <1>6 DEF InvoiceDocument

\* InvoiceOrder keeps the invariant: it books what the order owes from now on.
LEMMA InvoiceKeeps ==
  ASSUME IInv, NEW o \in Orders, InvoiceOrder(o)
  PROVE  IInv'
<1> DEFINE c == CompanyOf[o]
           x == Owed(o)
           y == 0
<1>1. /\ Types /\ ReceivablesOpen /\ StockValueDrift /\ StockBounds
      /\ \A p \in Products : ItemFits(item[p])
      /\ \A p \in Orders : OrderFits(order[p], p)
  BY DEF IInv, BooksAgree
<1>2. /\ order[o].status = "SHIPPED"
      /\ Book(c, Invoice(o)) /\ Validate(Invoice(o))
      /\ siDocs' = siDocs \cup {NextSI(c)}
      /\ UNCHANGED <<item, keys, receipts, issues>>
  BY DEF InvoiceOrder, Book
<1>3. PICK d \in InvoiceDocument(c) :
        order' = [order EXCEPT ![o].status = "INVOICED", ![o].doc = d]
  BY DEF InvoiceOrder
<1>4. /\ order[o].total > 0 /\ Movement(StoredLines(Invoice(o)), AR) = x
      /\ Movement(StoredLines(Invoice(o)), Inventory) = y
  BY <1>1, <1>2, InvoiceMoves
<1>5. x \in Int /\ y \in Int /\ x = OwedIn(order[o])
  <2>1. OwedIn(order[o]) \in Int
    BY <1>1, DebtType DEF Types
  <2> QED
    BY <2>1 DEF Owed, OwedIn
<1>6. c \in Companies
  BY AmountsAssumption
<1>7. /\ order' \in [Orders -> OrderRow]
      /\ order'[o].status = "INVOICED" /\ order'[o].lines = order[o].lines
      /\ order'[o].total = order[o].total /\ order'[o].rate = order[o].rate
      /\ \A p \in Orders \ {o} : order'[p] = order[p]
      /\ \A p \in Orders : OrderFits(order'[p], p)
  <2>1. "INVOICED" \in Statuses /\ order[o].status # "NONE" /\ d \in Docs \cup {Null}
    BY <1>1, <1>2, <1>6, DocumentFacts DEF Statuses
  <2> QED
    BY <1>1, <1>3, <1>4, <2>1, StatusMoves
<1> HIDE DEF x, y, c
<1>8. /\ gl' \in [Companies -> [Tracked -> Int]]
      /\ \A k \in Companies :
           /\ gl'[k][AR] = gl[k][AR] + (IF k = c THEN x ELSE 0)
           /\ gl'[k][Inventory] = gl[k][Inventory] + (IF k = c THEN y ELSE 0)
  BY <1>1, <1>2, <1>4, <1>5, <1>6, BookMoves
<1>9. Types'
  <2>1. siDocs' \subseteq Docs /\ IsFiniteSet(siDocs')
    BY <1>1, <1>2, <1>6, DocumentFacts DEF Types
  <2> QED
    BY <1>1, <1>2, <1>7, <1>8, <2>1 DEF Types
<1>10. ReceivablesOpen'
  <2>1. Debt(order'[o]) = x /\ Debt(order[o]) = 0
    BY <1>2, <1>5, <1>7 DEF Debt, OwedIn
  <2>2. \A k \in Companies :
           gl'[k][AR] = gl[k][AR] + (IF k = CompanyOf[o]
                                     THEN Debt(order'[o]) - Debt(order[o]) ELSE 0)
    BY <1>5, <1>8, <2>1 DEF c
  <2> QED
    BY <1>1, <1>7, <1>9, <2>2, OpenMoves
<1>11. StockValueDrift'
  <2>1. \A k \in Companies : gl[k][Inventory] \in Int
    BY <1>1 DEF Types, Tracked
  <2>2. \A k \in Companies : gl'[k][Inventory] = gl[k][Inventory]
    BY <1>8, <2>1 DEF y
  <2> QED
    BY <1>1, <1>2, <2>2, DriftSame
<1>12. StockBounds'
  <2>1. \A p \in Orders : order[p].status \in Later =>
           order'[p].status \in Later /\ order'[p].lines = order[p].lines
    BY <1>2, <1>7 DEF Later
  <2>2. \A p \in Products : Bounded(item[p]) => Bounded(item'[p]) \/ Backward(order', p)
    BY <1>2
  <2> QED
    BY <1>1, <1>9, <2>1, <2>2, BoundsMove
<1>13. \A p \in Products : ItemFits(item'[p])
  BY <1>1, <1>2
<1> QED
  BY <1>7, <1>9, <1>10, <1>11, <1>12, <1>13 DEF IInv, BooksAgree

\* ShipOrder keeps the invariant: the account and the stock both lose the cost
\* of the goods, the account as rounded to cents.
LEMMA ShipStep ==
  ASSUME IInv, NEW o \in Orders, ShipOrder(o)
  PROVE  IInv'
<1> DEFINE c == CompanyOf[o]
           lines == order[o].lines
           s == ShipLines(lines)
           cents == Rounded(s.cogs, AmtUnit)
<1>1. /\ Types /\ ReceivablesOpen /\ StockValueDrift /\ StockBounds
      /\ \A p \in Products : ItemFits(item[p])
      /\ \A p \in Orders : OrderFits(order[p], p)
  BY DEF IInv, BooksAgree
<1>2. /\ order[o].status = "CONFIRMED" /\ order' = [order EXCEPT ![o].status = "SHIPPED"]
      /\ s.ok /\ item' = s.item
      /\ \/ s.cogs = 0 /\ UNCHANGED gl
         \/ s.cogs # 0 /\ Book(c, GoodsIssue(c, s.cogs))
      /\ issues' = [issues EXCEPT ![c] = @ + 1]
      /\ UNCHANGED <<keys, siDocs, receipts>>
  BY DEF ShipOrder
<1>3. c \in Companies
  BY AmountsAssumption
<1>4. /\ order' \in [Orders -> OrderRow]
      /\ order'[o].status = "SHIPPED" /\ order'[o].lines = order[o].lines
      /\ \A p \in Orders \ {o} : order'[p] = order[p]
      /\ \A p \in Orders : OrderFits(order'[p], p)
  <2>1. "SHIPPED" \in Statuses /\ "SHIPPED" \notin {"INVOICED", "PAID"}
        /\ order[o].status # "NONE" /\ Null \in Docs \cup {Null}
    BY <1>2 DEF Statuses
  <2> QED
    BY <1>1, <1>2, <2>1, StatusMoves
<1>5. s \in Shipped(lines, c)
  <2>1. OrderFits(order[o], o) /\ order[o].status # "NONE"
    BY <1>1, <1>2
  <2>2. \A i \in DOMAIN lines : CompanyOf[lines[i].product] = c /\ Storable(lines[i].qty)
    BY <2>1 DEF OrderFits
  <2>3. lines \in Seq(OrderLine) /\ item \in [Products -> ItemRow]
        /\ \A p \in Products : 0 <= item[p].onHand
    BY <1>1, LineFacts DEF Types, ItemFits
  <2> HIDE DEF lines, c
  <2> QED
    BY <1>3, <2>2, <2>3, ShipKeeps
<1> HIDE DEF s, c
<1>6. /\ s.cogs \in Int /\ item' \in [Products -> ItemRow]
      /\ \A p \in Products :
           /\ item'[p].exists = item[p].exists /\ item'[p].cost = item[p].cost
           /\ ~item[p].exists => item'[p] = item[p]
           /\ 0 <= item'[p].onHand
           /\ Storable(item[p].onHand) => Storable(item'[p].onHand)
           /\ Forward(lines, p) /\ Bounded(item[p]) => Bounded(item'[p])
      /\ \A d \in Companies :
           OverStock(ValueIn(item'), d) + (IF d = c THEN s.cogs ELSE 0)
             = OverStock(ValueIn(item), d)
  BY <1>2, <1>5 DEF Shipped
<1>7. PICK m \in Int :
        /\ gl' \in [Companies -> [Tracked -> Int]]
        /\ 2 * (AmtUnit * m + s.cogs) <= AmtUnit /\ 2 * (-s.cogs - AmtUnit * m) <= AmtUnit
        /\ \A d \in Companies :
             /\ gl'[d][AR] = gl[d][AR]
             /\ gl'[d][Inventory] = gl[d][Inventory] + (IF d = c THEN m ELSE 0)
  <2>1. gl \in [Companies -> [Tracked -> Int]]
    BY <1>1 DEF Types
  <2>2. \A d \in Companies : gl[d][AR] \in Int /\ gl[d][Inventory] \in Int
    BY <2>1 DEF Tracked
  <2>3. CASE s.cogs = 0 /\ UNCHANGED gl
    <3>1. /\ 0 \in Int /\ AmtUnit \in Nat
          /\ 2 * (AmtUnit * 0 + s.cogs) <= AmtUnit /\ 2 * (-s.cogs - AmtUnit * 0) <= AmtUnit
      BY <2>3, Units
    <3>2. \A d \in Companies : /\ gl'[d][AR] = gl[d][AR]
                               /\ gl'[d][Inventory] = gl[d][Inventory] + (IF d = c THEN 0 ELSE 0)
      BY <2>2, <2>3
    <3> QED
      BY <2>1, <2>3, <3>1, <3>2
  <2>4. CASE Book(c, GoodsIssue(c, s.cogs))
    <3> DEFINE x == 0
               y == -cents
    <3>1. Validate(GoodsIssue(c, s.cogs))
      BY <2>4 DEF Book
    <3>2. cents \in Int /\ 2 * (AmtUnit * cents - s.cogs) <= AmtUnit
          /\ 2 * (s.cogs - AmtUnit * cents) <= AmtUnit
      BY <1>6, Units, RoundedError
    <3>3. /\ Movement(StoredLines(GoodsIssue(c, s.cogs)), AR) = x
          /\ Movement(StoredLines(GoodsIssue(c, s.cogs)), Inventory) = y
      BY <1>6, <3>1, IssueMoves
    <3> HIDE DEF cents
    <3>4. x \in Int /\ y \in Int /\ AmtUnit * y = -(AmtUnit * cents) /\ AmtUnit * cents \in Int
      BY <3>2, Units
    <3>5. 2 * (AmtUnit * y + s.cogs) <= AmtUnit /\ 2 * (-s.cogs - AmtUnit * y) <= AmtUnit
      BY <1>6, <3>2, <3>4, Units
    <3> HIDE DEF x, y
    <3>6. /\ gl' \in [Companies -> [Tracked -> Int]]
          /\ \A d \in Companies :
               /\ gl'[d][AR] = gl[d][AR] + (IF d = c THEN x ELSE 0)
               /\ gl'[d][Inventory] = gl[d][Inventory] + (IF d = c THEN y ELSE 0)
      BY <1>1, <1>3, <2>4, <3>3, <3>4, BookMoves
    <3>7. \A d \in Companies : gl'[d][AR] = gl[d][AR]
      BY <2>2, <3>6 DEF x
    <3> QED
      BY <3>4, <3>5, <3>6, <3>7
  <2> QED
    BY <1>2, <2>3, <2>4
<1>8. issues' \in [Companies -> Int]
      /\ \A d \in Companies : issues[d] \in Int /\ issues'[d] = issues[d] + (IF d = c THEN 1 ELSE 0)
  BY <1>1, <1>2, <1>3 DEF Types
<1>9. Types'
  BY <1>1, <1>2, <1>4, <1>6, <1>7, <1>8 DEF Types
<1>10. ReceivablesOpen'
  <2>1. Debt(order'[o]) = 0 /\ Debt(order[o]) = 0
    BY <1>2, <1>4 DEF Debt
  <2>2. \A d \in Companies :
           gl'[d][AR] = gl[d][AR] + (IF d = CompanyOf[o]
                                     THEN Debt(order'[o]) - Debt(order[o]) ELSE 0)
    BY <1>1, <1>7, <2>1 DEF Types, Tracked
  <2> QED
    BY <1>1, <1>4, <1>9, <2>2, OpenMoves
<1>11. StockValueDrift'
  <2>1. Drifts(item, gl, receipts, issues)
    BY <1>1, DriftIsNear
  <2>2. ASSUME NEW d \in Companies
        PROVE  Near(gl'[d][Inventory], OverStock(ValueIn(item'), d),
                    issues'[d] + OverStock(CountsIn(receipts), d), Rounding(receipts, d))
    <3> DEFINE g == gl[d][Inventory]
               v == OverStock(ValueIn(item), d)
               w == OverStock(ValueIn(item'), d)
               k == OverStock(CountsIn(receipts), d)
               n == issues[d] + k
               a == Rounding(receipts, d)
    <3>1. g \in Int /\ v \in Int /\ w \in Int /\ k \in Int /\ a \in Int
      BY <1>1, <1>6, StockTypes DEF Types, Tracked
    <3>2. Near(g, v, n, a)
      BY <2>1 DEF Drifts
    <3>3. w + (IF d = c THEN s.cogs ELSE 0) = v
      BY <1>6
    <3> HIDE DEF g, v, w, k, a
    <3>4. gl'[d][Inventory] = g + (IF d = c THEN m ELSE 0)
      BY <1>7 DEF g
    <3>5. CASE d # c
      <4>1. gl'[d][Inventory] = g /\ w = v /\ issues'[d] + k = n
        BY <1>8, <3>1, <3>3, <3>4, <3>5
      <4> QED
        BY <3>2, <4>1 DEF w, k, a
    <3>6. CASE d = c
      <4> DEFINE dv == -s.cogs
                 dn == 1
                 da == 0
      <4>1. /\ dv \in Int /\ dn \in Int /\ da \in Int /\ n \in Int
            /\ gl'[d][Inventory] = g + m /\ w = v + dv
            /\ issues'[d] + k = n + dn /\ a = a + da
        BY <1>6, <1>8, <3>1, <3>3, <3>4, <3>6
      <4>2. /\ 2 * (AmtUnit * m - dv) <= dn * AmtUnit + da
            /\ 2 * (dv - AmtUnit * m) <= dn * AmtUnit + da
        <5> DEFINE y == AmtUnit * m
        <5>1. y \in Int /\ AmtUnit \in Int /\ 2 * (y + s.cogs) <= AmtUnit /\ 2 * (-s.cogs - y) <= AmtUnit
          BY <1>7, Units
        <5> HIDE DEF y
        <5>2. 2 * (y - dv) <= dn * AmtUnit + da /\ 2 * (dv - y) <= dn * AmtUnit + da
          BY <1>6, <5>1
        <5> QED
          BY <5>2 DEF y
      <4> HIDE DEF n, dv, dn, da
      <4>3. Near(g + m, v + dv, n + dn, a + da)
        BY <3>1, <3>2, <4>1, <4>2, NearMoves
      <4>4. Near(gl'[d][Inventory], w, issues'[d] + k, a)
        BY <4>1, <4>3, Zenon
      <4> QED
        BY <4>4 DEF w, k, a
    <3> QED
      BY <3>5, <3>6
  <2>3. Drifts(item', gl', receipts', issues')
    BY <1>2, <2>2 DEF Drifts
  <2> QED
    BY <2>3, DriftIsNearNext
<1>12. StockBounds'
  <2>1. \A p \in Orders : order[p].status \in Later =>
           order'[p].status \in Later /\ order'[p].lines = order[p].lines
    BY <1>2, <1>4 DEF Later
  <2>2. \A p \in Products : ~Forward(lines, p) => Backward(order', p)
    BY <1>4 DEF Backward, Later
  <2>3. \A p \in Products : Bounded(item[p]) => Bounded(item'[p]) \/ Backward(order', p)
    BY <1>6, <2>2
  <2> QED
    BY <1>1, <1>9, <2>1, <2>3, BoundsMove
<1>13. \A p \in Products : ItemFits(item'[p])
  BY <1>1, <1>6 DEF ItemFits
<1> QED
  BY <1>4, <1>9, <1>10, <1>11, <1>12, <1>13 DEF IInv, BooksAgree

-----------------------------------------------------------------------------
(* Receiving *)

LEMMA TimesLeq ==
  ASSUME NEW x \in Int, NEW y \in Int, x <= y, NEW k \in Nat
  PROVE  k * x <= k * y /\ x * k <= y * k
OBVIOUS

\* The average cost is off by at most half a unit of the division and half a
\* step of the column for each unit on hand.
LEMMA AverageError ==
  ASSUME NEW i \in ItemRow, ItemFits(i), NEW q \in Nat \ {0}, NEW k \in Nat
  PROVE  LET avg == AverageCost(i, q, k)
             n == i.onHand + q
             x == i.onHand * i.cost + q * k
         IN /\ avg \in Nat /\ n \in Nat \ {0} /\ x \in Nat
            /\ 2 * (n * avg - x) <= n * (CostStep + 1)
            /\ 2 * (x - n * avg) <= n * (CostStep + 1)
<1> DEFINE avg == AverageCost(i, q, k)
           n == i.onHand + q
           x == i.onHand * i.cost + q * k
           r == Rounded(x, n)
           t == Rounded(r, CostStep)
<1>1. i.onHand \in Nat /\ i.cost \in Nat
  BY DEF ItemFits, ItemRow
<1>2. n \in Nat \ {0}
  BY <1>1
<1>3. x \in Nat
  <2>1. i.onHand * i.cost \in Nat /\ q * k \in Nat
    BY <1>1
  <2> QED
    BY <2>1
<1>4. avg = t * CostStep
  BY <1>2 DEF AverageCost, Column
<1> HIDE DEF avg, n, x
<1>5. r \in Nat
  <2>1. RoundTo(x, n) \in Nat /\ r = RoundTo(x, n)
    BY <1>2, <1>3, RoundToError DEF Rounded
  <2> QED
    BY <2>1
<1>6. 2 * (n * r - x) <= n /\ 2 * (x - n * r) <= n
  BY <1>2, <1>3, RoundedError
<1> HIDE DEF r
<1>7. CostStep \in Nat \ {0}
  BY AmountsAssumption
<1>8. t \in Nat
  <2>1. RoundTo(r, CostStep) \in Nat /\ t = RoundTo(r, CostStep)
    BY <1>5, <1>7, RoundToError DEF Rounded
  <2> QED
    BY <2>1
<1>9. 2 * (CostStep * t - r) <= CostStep /\ 2 * (r - CostStep * t) <= CostStep
  BY <1>5, <1>7, RoundedError
<1> HIDE DEF t
<1>10. avg \in Nat /\ avg = CostStep * t
  BY <1>4, <1>7, <1>8
<1>11. 2 * (avg - r) <= CostStep /\ 2 * (r - avg) <= CostStep
  BY <1>9, <1>10
<1>12. n * (2 * (avg - r)) <= n * CostStep /\ n * (2 * (r - avg)) <= n * CostStep
  BY <1>2, <1>5, <1>7, <1>10, <1>11, TimesLeq
<1> DEFINE a == n * avg
           b == n * r
           e == n * CostStep
<1>13. /\ a \in Int /\ b \in Int /\ e \in Int /\ n * (CostStep + 1) = e + n
       /\ n * (2 * (avg - r)) = 2 * (a - b) /\ n * (2 * (r - avg)) = 2 * (b - a)
  BY <1>2, <1>5, <1>7, <1>10
<1>14. 2 * (b - x) <= n /\ 2 * (x - b) <= n
  BY <1>6
<1> HIDE DEF a, b, e
<1>15. 2 * (a - b) <= e /\ 2 * (b - a) <= e
  BY <1>12, <1>13 DEF e
<1>16. 2 * (a - x) <= n * (CostStep + 1) /\ 2 * (x - a) <= n * (CostStep + 1)
  BY <1>2, <1>3, <1>13, <1>14, <1>15
<1> QED
  BY <1>2, <1>3, <1>10, <1>16 DEF avg, n, x, a

\* What the stock stores: no less than before, and off by at most half a step
\* if the quantity received has more decimals than the stock.
LEMMA StockError ==
  ASSUME NEW i \in ItemRow, ItemFits(i), NEW q \in Nat \ {0}, NEW avg \in Nat
  PROVE  LET n == i.onHand + q
             m == Column(n, QtyStep)
             w == IF q % QtyStep = 0 THEN 0 ELSE avg
         IN /\ m \in Nat /\ i.onHand <= m /\ Storable(m) /\ w \in Nat
            /\ 2 * (m * avg - n * avg) <= w * QtyStep
            /\ 2 * (n * avg - m * avg) <= w * QtyStep
<1> DEFINE n == i.onHand + q
           u == QtyStep
           r == Rounded(n, u)
           m == Column(n, u)
           w == IF q % u = 0 THEN 0 ELSE avg
           h == i.onHand
<1>1. u \in Nat \ {0} /\ h \in Nat /\ n \in Nat \ {0} /\ n = h + q
  BY AmountsAssumption DEF ItemFits, ItemRow
<1>2. PICK k \in Int : h = k * u
  BY DEF ItemFits, Storable
<1>3. m = r * u /\ (Storable(m) <=> \E j \in Int : m = j * u)
  BY DEF Column, Storable
<1> HIDE DEF u, h, n, m
<1>4. r \in Nat /\ r = RoundTo(n, u)
  <2>1. RoundTo(n, u) \in Nat /\ r = RoundTo(n, u)
    BY <1>1, RoundToError DEF Rounded
  <2> QED
    BY <2>1
<1>5. 2 * (u * r - n) <= u /\ 2 * (n - u * r) <= u
  BY <1>1, RoundedError
<1>6. ASSUME q % u = 0 PROVE m = n
  <2> DEFINE j == q \div u
  <2>1. j \in Int /\ q = j * u
    BY <1>1, <1>6
  <2> HIDE DEF j
  <2>2. n = (k + j) * u /\ k + j \in Int
    BY <1>1, <1>2, <2>1
  <2>3. r = k + j
    BY <1>1, <2>2, RoundedExact
  <2> QED
    BY <1>3, <2>2, <2>3
<1> HIDE DEF r
<1>7. m \in Nat /\ m = u * r /\ Storable(m)
  BY <1>1, <1>3, <1>4
<1>8. h <= m
  <2> SUFFICES ASSUME ~(k <= r) PROVE FALSE
    <3>1. k <= r => k * u <= r * u
      BY <1>1, <1>4, TimesLeq
    <3> QED
      BY <1>1, <1>2, <1>3, <3>1
  <2>1. (r + 1) * u <= k * u
    BY <1>1, <1>4, TimesLeq
  <2>2. (r + 1) * u = m + u
    BY <1>1, <1>3, <1>4
  <2>3. m + u <= h
    BY <1>2, <2>1, <2>2
  <2> QED
    BY <1>1, <1>5, <1>7, <2>3
<1>9. w \in Nat
  OBVIOUS
<1>10. 2 * (m * avg - n * avg) <= w * u /\ 2 * (n * avg - m * avg) <= w * u
  <2>1. CASE q % u = 0
    <3>1. m = n /\ w = 0
      BY <1>6, <2>1
    <3>2. n * avg \in Int
      BY <1>1
    <3> QED
      BY <1>1, <3>1, <3>2
  <2>2. CASE q % u # 0
    <3>1. w = avg
      BY <2>2
    <3>2. 2 * (m - n) <= u /\ 2 * (n - m) <= u
      BY <1>5, <1>7
    <3>3. avg * (2 * (m - n)) <= avg * u /\ avg * (2 * (n - m)) <= avg * u
      BY <1>1, <1>7, <3>2, TimesLeq
    <3>4. avg * (2 * (m - n)) = 2 * (m * avg - n * avg) /\ avg * (2 * (n - m)) = 2 * (n * avg - m * avg)
      BY <1>1, <1>7
    <3> QED
      BY <3>1, <3>3, <3>4
  <2> QED
    BY <2>1, <2>2
<1> QED
  BY <1>7, <1>8, <1>9, <1>10 DEF u, h, n, m

\* ReceiveStock keeps the invariant: the account gains the receipt's cost to the
\* cent, the stock what its new average makes of it.
LEMMA ReceiveKeeps ==
  ASSUME IInv, NEW p \in Goods, NEW qty \in ReceivedQtys, NEW cost \in Costs, NEW day \in Days,
         ReceiveStock(p, qty, cost, day)
  PROVE  IInv'
<1> DEFINE c == CompanyOf[p]
           i == item[p]
           t == item'[p]
           avg == AverageCost(i, qty, cost)
           n == i.onHand + qty
           stored == Column(n, QtyStep)
           w == IF qty % QtyStep = 0 THEN 0 ELSE avg
           old == i.onHand * i.cost
           new == stored * avg
           off == n * (CostStep + 1) + w * QtyStep
           paid == qty * cost
           e == Receipt(p, qty, cost)
           x == 0
           y == RoundTo(paid, AmtUnit)
<1>1. /\ Types /\ ReceivablesOpen /\ StockValueDrift /\ StockBounds
      /\ \A q \in Products : ItemFits(item[q])
      /\ \A q \in Orders : OrderFits(order[q], q)
  BY DEF IInv, BooksAgree
<1>2. /\ p \in Products /\ qty \in Nat \ {0} /\ cost \in Nat /\ c \in Companies
  BY AmountsAssumption
<1>3. /\ Book(c, e) /\ Validate(e)
      /\ item' = [item EXCEPT ![p] =
                    [i EXCEPT !.exists = TRUE, !.cost = avg, !.onHand = stored]]
      /\ receipts' = [receipts EXCEPT ![p] =
                        [count |-> @.count + 1, averaged |-> @.averaged + i.onHand + qty,
                         rounded |-> @.rounded + w]]
      /\ UNCHANGED <<order, siDocs, issues>>
  BY DEF ReceiveStock, Receipt, Transfer, Book
<1>4. i \in ItemRow /\ ItemFits(i) /\ item \in [Products -> ItemRow]
  BY <1>1, <1>2 DEF Types
<1>5. /\ avg \in Nat /\ n \in Nat \ {0} /\ old + paid \in Nat /\ w \in Nat
      /\ stored \in Nat /\ i.onHand <= stored /\ Storable(stored) /\ new \in Int /\ off \in Int
      /\ 2 * (new - (old + paid)) <= off /\ 2 * ((old + paid) - new) <= off
  <2> DEFINE x0 == old + paid
             mid == n * avg
             err == n * (CostStep + 1)
             z == w * QtyStep
  <2>1. /\ avg \in Nat /\ n \in Nat \ {0} /\ x0 \in Nat
        /\ 2 * (mid - x0) <= err /\ 2 * (x0 - mid) <= err
    BY <1>2, <1>4, AverageError
  <2> HIDE DEF avg
  <2>2. /\ stored \in Nat /\ i.onHand <= stored /\ Storable(stored) /\ w \in Nat
        /\ 2 * (new - mid) <= z /\ 2 * (mid - new) <= z
    BY <1>2, <1>4, <2>1, StockError
  <2> HIDE DEF stored, w
  <2>3. CostStep \in Nat /\ QtyStep \in Nat
    BY AmountsAssumption
  <2>4. mid \in Int /\ new \in Int /\ err \in Int /\ z \in Int
    <3> HIDE DEF n
    <3> QED
      BY <2>1, <2>2, <2>3
  <2>5. off = err + z
    OBVIOUS
  <2> HIDE DEF x0, mid, err, z, new, off
  <2>6. 2 * (new - x0) <= off /\ 2 * (x0 - new) <= off /\ off \in Int
    BY <2>1, <2>2, <2>4, <2>5
  <2> QED
    BY <2>1, <2>2, <2>4, <2>6 DEF x0
<1> HIDE DEF avg, stored, w, off
<1>6. /\ t = [i EXCEPT !.exists = TRUE, !.cost = avg, !.onHand = stored]
      /\ \A q \in Products \ {p} : item'[q] = item[q]
  <2> DEFINE row == [i EXCEPT !.exists = TRUE, !.cost = avg, !.onHand = stored]
  <2>1. item' = [item EXCEPT ![p] = row]
    BY <1>3
  <2> HIDE DEF row
  <2>2. item'[p] = row /\ \A q \in Products \ {p} : item'[q] = item[q]
    BY <1>2, <1>4, <2>1
  <2> QED
    BY <2>2 DEF row
<1>7. /\ t \in ItemRow /\ t.exists = TRUE /\ t.onHand = stored /\ t.reserved = i.reserved
      /\ t.cost = avg
  <2>1. avg \in Int /\ stored \in Int
    BY <1>5
  <2> HIDE DEF i, t, n
  <2>2. /\ t.exists = TRUE /\ t.onHand = stored
        /\ t.reserved = i.reserved /\ t.cost = avg
    BY <1>4, <1>6 DEF ItemRow
  <2>3. t \in ItemRow
    BY <1>4, <1>6, <2>1 DEF ItemRow
  <2> QED
    BY <2>2, <2>3
<1>8. item' \in [Products -> ItemRow]
  <2>1. item' = [q \in Products |-> item'[q]]
    BY <1>3, <1>4
  <2>2. \A q \in Products : item'[q] \in ItemRow
    BY <1>4, <1>6, <1>7
  <2> QED
    BY <2>1, <2>2, Zenon
<1>9. /\ paid > 0 /\ Movement(StoredLines(e), AR) = x /\ Movement(StoredLines(e), Inventory) = y
  BY <1>2, <1>3, ReceiptMoves
<1>10. /\ paid \in Nat /\ x \in Int /\ y \in Nat /\ old \in Int
       /\ 2 * (AmtUnit * y - paid) <= AmtUnit /\ 2 * (paid - AmtUnit * y) <= AmtUnit
  <2>1. paid \in Nat /\ old \in Int
    BY <1>2, <1>4 DEF ItemRow
  <2> HIDE DEF paid
  <2>2. /\ y \in Nat /\ 2 * AmtUnit * y - 2 * paid <= AmtUnit
        /\ 2 * paid - 2 * AmtUnit * y <= AmtUnit
    BY <2>1, Units, RoundToError
  <2> HIDE DEF y
  <2>3. AmtUnit * y \in Int /\ 2 * AmtUnit * y = 2 * (AmtUnit * y) /\ AmtUnit \in Int
    BY <2>2, Units
  <2> QED
    BY <2>1, <2>2, <2>3
<1> HIDE DEF e
<1>11. /\ gl' \in [Companies -> [Tracked -> Int]]
       /\ \A d \in Companies :
            /\ gl'[d][AR] = gl[d][AR] + (IF d = c THEN x ELSE 0)
            /\ gl'[d][Inventory] = gl[d][Inventory] + (IF d = c THEN y ELSE 0)
  <2> HIDE DEF x, y, c
  <2>1. x \in Int /\ y \in Int
    BY <1>10
  <2> QED
    BY <1>1, <1>2, <1>3, <1>9, <2>1, BookMoves
<1>12. /\ receipts' \in [Products -> [count : Int, averaged : Int, rounded : Int]]
       /\ receipts \in [Products -> [count : Int, averaged : Int, rounded : Int]]
       /\ receipts'[p].count = receipts[p].count + 1
       /\ receipts'[p].averaged = receipts[p].averaged + n
       /\ receipts'[p].rounded = receipts[p].rounded + w
       /\ \A q \in Products \ {p} : receipts'[q] = receipts[q]
  <2>1. receipts \in [Products -> [count : Int, averaged : Int, rounded : Int]]
    BY <1>1 DEF Types
  <2>2. i.onHand \in Int /\ qty \in Int /\ w \in Int
    BY <1>2, <1>4, <1>5 DEF ItemRow
  <2>3. receipts[p].count \in Int /\ receipts[p].averaged \in Int /\ receipts[p].rounded \in Int
    BY <1>2, <2>1
  <2>4. receipts'[p] = [count |-> receipts[p].count + 1,
                        averaged |-> receipts[p].averaged + i.onHand + qty,
                        rounded |-> receipts[p].rounded + w]
    BY <1>2, <1>3, <2>1
  <2>5. receipts' \in [Products -> [count : Int, averaged : Int, rounded : Int]]
    BY <1>2, <1>3, <2>1, <2>2, <2>3
  <2>6. receipts[p].averaged + i.onHand + qty = receipts[p].averaged + n
    BY <2>2, <2>3
  <2> QED
    BY <1>2, <1>3, <2>1, <2>4, <2>5, <2>6
<1>13. Types'
  BY <1>1, <1>3, <1>8, <1>11, <1>12 DEF Types
<1>14. ReceivablesOpen'
  <2>1. order \in [Orders -> OrderRow] /\ order' = order
    BY <1>1, <1>3 DEF Types
  <2>2. \A d \in Companies : gl'[d][AR] = gl[d][AR]
    BY <1>1, <1>11 DEF Types, Tracked
  <2>3. Settled(order, gl)
    BY <1>1, <2>1, OpenIsSettled
  <2>4. Settled(order', gl')
    BY <2>1, <2>2, <2>3 DEF Settled
  <2> QED
    BY <2>1, <2>4, OpenIsSettledNext
<1>15. StockValueDrift'
  <2>1. Drifts(item, gl, receipts, issues)
    BY <1>1, DriftIsNear
  <2>2. ASSUME NEW d \in Companies
        PROVE  Near(gl'[d][Inventory], OverStock(ValueIn(item'), d),
                    issues[d] + OverStock(CountsIn(receipts'), d), Rounding(receipts', d))
    <3> DEFINE S == StockOf(d)
               g == gl[d][Inventory]
               v == OverStock(ValueIn(item), d)
               v2 == OverStock(ValueIn(item'), d)
               k == OverStock(CountsIn(receipts), d)
               k2 == OverStock(CountsIn(receipts'), d)
               b == OverStock(AveragedIn(receipts), d)
               b2 == OverStock(AveragedIn(receipts'), d)
               z == OverStock(RoundedIn(receipts), d)
               z2 == OverStock(RoundedIn(receipts'), d)
               a == Rounding(receipts, d)
               a2 == Rounding(receipts', d)
    <3>1. /\ g \in Int /\ v \in Int /\ k \in Int /\ a \in Int /\ issues[d] \in Int
          /\ b \in Int /\ z \in Int
      BY <1>1, StockTypes DEF Types, Tracked
    <3>2. Near(g, v, issues[d] + k, a)
      BY <2>1 DEF Drifts
    <3>3. IsFiniteSet(S) /\ S \subseteq Products /\ (p \in S <=> d = c)
      BY <1>2, StockFinite DEF StockOf
    <3>4. v2 = v + (IF d = c THEN new - old ELSE 0)
      <4> DEFINE f == ValueIn(item)
                 h == ValueIn(item')
      <4>1. /\ \A q \in Products : /\ f[q] = item[q].onHand * item[q].cost /\ f[q] \in Int
                                   /\ h[q] = item'[q].onHand * item'[q].cost /\ h[q] \in Int
        BY <1>4, <1>8 DEF ValueIn, ItemRow
      <4>2. f[p] = old /\ h[p] = new
        BY <1>2, <1>7, <4>1
      <4> HIDE DEF f, h, old, new
      <4>3. \A q \in S \ {p} : f[q] \in Int /\ h[q] = f[q]
        BY <1>6, <3>3, <4>1
      <4>4. SumFunctionOnSet(h, S) = SumFunctionOnSet(f, S) + IF p \in S THEN h[p] - f[p] ELSE 0
        BY <1>2, <3>3, <4>1, <4>3, SumChangeOn
      <4> QED
        BY <3>3, <4>2, <4>4 DEF OverStock, f, h
    <3>5. k2 = k + (IF d = c THEN 1 ELSE 0)
      <4> DEFINE f == CountsIn(receipts)
                 h == CountsIn(receipts')
      <4>1. /\ \A q \in Products : /\ f[q] = receipts[q].count /\ f[q] \in Int
                                   /\ h[q] = receipts'[q].count /\ h[q] \in Int
        BY <1>12 DEF CountsIn
      <4>2. h[p] = f[p] + 1
        BY <1>2, <1>12, <4>1
      <4> HIDE DEF f, h
      <4>3. \A q \in S \ {p} : f[q] \in Int /\ h[q] = f[q]
        BY <1>12, <3>3, <4>1
      <4>4. /\ SumFunctionOnSet(f, S) \in Int
            /\ SumFunctionOnSet(h, S) = SumFunctionOnSet(f, S) + IF p \in S THEN h[p] - f[p] ELSE 0
        <5>1. f[p] \in Int /\ h[p] \in Int
          BY <1>2, <4>1
        <5> QED
          BY <3>3, <4>3, <5>1, SumChangeOn
      <4>5. SumFunctionOnSet(h, S) = SumFunctionOnSet(f, S) + IF d = c THEN 1 ELSE 0
        BY <1>2, <3>3, <4>1, <4>2, <4>4
      <4> QED
        BY <4>5 DEF OverStock, f, h
    <3>10. b2 = b + (IF d = c THEN n ELSE 0)
      <4> DEFINE f == AveragedIn(receipts)
                 h == AveragedIn(receipts')
      <4>1. /\ \A q \in Products : /\ f[q] = receipts[q].averaged /\ f[q] \in Int
                                   /\ h[q] = receipts'[q].averaged /\ h[q] \in Int
        BY <1>12 DEF AveragedIn
      <4>2. h[p] = f[p] + n
        BY <1>2, <1>12, <4>1
      <4> HIDE DEF f, h, n
      <4>3. \A q \in S \ {p} : f[q] \in Int /\ h[q] = f[q]
        BY <1>12, <3>3, <4>1
      <4>4. /\ SumFunctionOnSet(f, S) \in Int
            /\ SumFunctionOnSet(h, S) = SumFunctionOnSet(f, S) + IF p \in S THEN h[p] - f[p] ELSE 0
        <5>1. f[p] \in Int /\ h[p] \in Int
          BY <1>2, <4>1
        <5> QED
          BY <3>3, <4>3, <5>1, SumChangeOn
      <4>5. SumFunctionOnSet(h, S) = SumFunctionOnSet(f, S) + IF d = c THEN n ELSE 0
        BY <1>2, <1>5, <3>3, <4>1, <4>2, <4>4
      <4> QED
        BY <4>5 DEF OverStock, f, h
    <3>11. z2 = z + (IF d = c THEN w ELSE 0)
      <4> DEFINE f == RoundedIn(receipts)
                 h == RoundedIn(receipts')
      <4>1. /\ \A q \in Products : /\ f[q] = receipts[q].rounded /\ f[q] \in Int
                                   /\ h[q] = receipts'[q].rounded /\ h[q] \in Int
        BY <1>12 DEF RoundedIn
      <4>2. h[p] = f[p] + w
        BY <1>2, <1>12, <4>1
      <4> HIDE DEF f, h
      <4>3. \A q \in S \ {p} : f[q] \in Int /\ h[q] = f[q]
        BY <1>12, <3>3, <4>1
      <4>4. /\ SumFunctionOnSet(f, S) \in Int
            /\ SumFunctionOnSet(h, S) = SumFunctionOnSet(f, S) + IF p \in S THEN h[p] - f[p] ELSE 0
        <5>1. f[p] \in Int /\ h[p] \in Int
          BY <1>2, <4>1
        <5> QED
          BY <3>3, <4>3, <5>1, SumChangeOn
      <4>5. SumFunctionOnSet(h, S) = SumFunctionOnSet(f, S) + IF d = c THEN w ELSE 0
        BY <1>2, <1>5, <3>3, <4>1, <4>2, <4>4
      <4> QED
        BY <4>5 DEF OverStock, f, h
    <3>6. a2 = a + (IF d = c THEN off ELSE 0)
      <4> DEFINE j == CostStep + 1
      <4>1. /\ a = b * j + z * QtyStep /\ a2 = b2 * j + z2 * QtyStep /\ off = n * j + w * QtyStep
            /\ j \in Int /\ QtyStep \in Int
        BY AmountsAssumption DEF Rounding, off
      <4>2. n \in Int /\ w \in Int
        BY <1>5
      <4> HIDE DEF a, a2, b, b2, z, z2, j, n, c
      <4>3. CASE d = c
        <5>1. b2 = b + n /\ z2 = z + w
          BY <3>10, <3>11, <4>3
        <5>2. (b + n) * j = b * j + n * j /\ (z + w) * QtyStep = z * QtyStep + w * QtyStep
          BY <3>1, <4>1, <4>2
        <5>3. /\ b * j \in Int /\ n * j \in Int /\ z * QtyStep \in Int /\ w * QtyStep \in Int
          BY <3>1, <4>1, <4>2
        <5> QED
          BY <4>1, <4>3, <5>1, <5>2, <5>3
      <4>4. CASE d # c
        <5>1. b2 = b /\ z2 = z
          BY <3>1, <3>10, <3>11, <4>4
        <5> QED
          BY <3>1, <4>1, <4>4, <5>1
      <4> QED
        BY <4>3, <4>4
    <3>7. gl'[d][Inventory] = g + (IF d = c THEN y ELSE 0)
      BY <1>11
    <3> HIDE DEF S, g, v, v2, k, k2, a, a2, b, b2, z, z2, c
    <3>8. CASE d # c
      <4>1. gl'[d][Inventory] = g /\ v2 = v /\ k2 = k /\ a2 = a
        BY <3>1, <3>4, <3>5, <3>6, <3>7, <3>8
      <4> QED
        BY <3>2, <4>1 DEF v2, k2, a2
    <3>9. CASE d = c
      <4> DEFINE m == issues[d] + k
                 dv == new - old
                 dn == 1
      <4>1. new \in Int /\ old \in Int /\ off \in Int /\ y \in Int /\ paid \in Int
        BY <1>5, <1>10
      <4>2. /\ 2 * (AmtUnit * y - dv) <= dn * AmtUnit + off
            /\ 2 * (dv - AmtUnit * y) <= dn * AmtUnit + off
        <5> DEFINE x1 == AmtUnit * y
        <5>1. /\ x1 \in Int /\ AmtUnit \in Int
              /\ 2 * (x1 - paid) <= AmtUnit /\ 2 * (paid - x1) <= AmtUnit
          BY <1>10, Units
        <5> HIDE DEF x1, y, paid, new, old, n
        <5>2. 2 * (x1 - dv) <= dn * AmtUnit + off /\ 2 * (dv - x1) <= dn * AmtUnit + off
          BY <1>5, <4>1, <5>1
        <5> QED
          BY <5>2 DEF x1
      <4>3. /\ m \in Int /\ dv \in Int /\ dn \in Int
            /\ gl'[d][Inventory] = g + y /\ v2 = v + dv /\ issues[d] + k2 = m + dn /\ a2 = a + off
        <5> HIDE DEF y, n, new, old
        <5> QED
          BY <3>1, <3>4, <3>5, <3>6, <3>7, <3>9, <4>1
      <4>4. Near(g, v, m, a)
        BY <3>2
      <4> HIDE DEF y, n, dv, dn, m
      <4>5. Near(g + y, v + dv, m + dn, a + off)
        BY <3>1, <4>1, <4>2, <4>3, <4>4, NearMoves
      <4>6. Near(gl'[d][Inventory], v2, issues[d] + k2, a2)
        BY <4>3, <4>5, Zenon
      <4> QED
        BY <4>6 DEF v2, k2, a2
    <3> QED
      BY <3>8, <3>9
  <2>3. Drifts(item', gl', receipts', issues')
    BY <1>3, <2>2 DEF Drifts
  <2> QED
    BY <2>3, DriftIsNearNext
<1>16. StockBounds'
  <2>1. \A o \in Orders : order[o].status \in Later =>
           order'[o].status \in Later /\ order'[o].lines = order[o].lines
    BY <1>3
  <2>2. Bounded(i) => Bounded(t)
    <3>1. i.reserved \in Int /\ i.onHand \in Int
      BY <1>4 DEF ItemRow
    <3> QED
      BY <1>2, <1>5, <1>7, <3>1 DEF Bounded
  <2>3. \A q \in Products : Bounded(item[q]) => Bounded(item'[q]) \/ Backward(order', q)
    BY <1>6, <2>2
  <2> QED
    BY <1>1, <1>13, <2>1, <2>3, BoundsMove
<1>17. \A q \in Products : ItemFits(item'[q])
  <2>1. ItemFits(t)
    BY <1>5, <1>7 DEF ItemFits
  <2> QED
    BY <1>1, <1>6, <2>1
<1>18. \A q \in Orders : OrderFits(order'[q], q)
  BY <1>1, <1>3
<1> QED
  BY <1>13, <1>14, <1>15, <1>16, <1>17, <1>18 DEF IInv, BooksAgree

-----------------------------------------------------------------------------
(* Orders can be taken further *)

\* Half a unit or more is not rounded to nothing.
LEMMA RoundToPositive ==
  ASSUME NEW x \in Nat, NEW u \in Nat \ {0}, u <= 2 * x
  PROVE  RoundTo(x, u) \in Nat \ {0}
<1> DEFINE a == 2 * x + u
           b == 2 * u
           q == a \div b
<1>1. a \in Int /\ b \in Nat \ {0} /\ b <= a
  OBVIOUS
<1> HIDE DEF a, b
<1>2. q \in Int /\ b * q <= a /\ a < b * q + b
  BY <1>1
<1> HIDE DEF q
<1>3. ~(q <= 0)
  <2>1. SUFFICES ASSUME q <= 0 PROVE FALSE
    OBVIOUS
  <2>2. b * q <= 0
    BY <1>1, <1>2, <2>1
  <2> QED
    BY <1>1, <1>2, <2>2
<1>4. q \in Nat \ {0}
  BY <1>2, <1>3
<1> QED
  BY <1>4 DEF RoundTo, q, a, b

\* A sum of what is not negative, with something positive in it.
LEMMA SumPositive ==
  ASSUME NEW f, NEW S, IsFiniteSet(S), \A x \in S : f[x] \in Nat, NEW x \in S, f[x] > 0
  PROVE  SumFunctionOnSet(f, S) \in Nat \ {0}
<1>1. IsFiniteSet(S \ {x})
  BY FS_Subset
<1>2. SumFunctionOnSet(f, S \ {x}) \in Nat
  BY <1>1, SumNat
<1>3. SumFunctionOnSet(f, S) = f[x] + SumFunctionOnSet(f, S \ {x})
  BY SumSplit
<1> QED
  BY <1>2, <1>3

\* Validate passes the payment of any order with a positive total.
LEMMA PaymentValid ==
  ASSUME Types, NEW o \in Orders, order[o].total > 0
  PROVE  Validate(Payment(o))
<1> DEFINE t == order[o].total
           r == order[o].rate
           amt == t * AmtUnit
<1>1. t \in Int /\ r \in Nat \ {0} /\ CompanyOf[o] \in Companies
  BY LineFacts, AmountsAssumption
<1>2. amt \in Nat \ {0} /\ "JE" \in EntryTypes
  BY <1>1, Units DEF EntryTypes
<1>3. Payment(o) = Transfer(CompanyOf[o], "JE", r, Others, AR, amt)
  BY DEF Payment, Transfer, Debit, Credit
<1> HIDE DEF amt, r
<1> QED
  BY <1>1, <1>2, <1>3, TransferValid

\* Validate passes a shipment worth half a cent or more.
LEMMA IssueValid ==
  ASSUME NEW c \in Companies, NEW cogs \in Int, AmtUnit <= 2 * cogs
  PROVE  Validate(GoodsIssue(c, cogs))
<1> DEFINE cents == Rounded(cogs, AmtUnit)
           amt == cents * AmtUnit
<1>1. cogs \in Nat /\ cents = RoundTo(cogs, AmtUnit)
  BY Units DEF Rounded
<1>2. cents \in Nat \ {0}
  BY <1>1, Units, RoundToPositive
<1> HIDE DEF cents
<1>3. amt \in Nat \ {0} /\ "GI" \in EntryTypes
  BY <1>2, Units DEF EntryTypes
<1>4. GoodsIssue(c, cogs) = Transfer(c, "GI", RateUnit, Others, Inventory, amt)
  BY DEF GoodsIssue, Transfer, Debit, Credit, cents
<1> HIDE DEF amt
<1> QED
  BY <1>3, <1>4, Units, TransferValid

\* An order's revenue accounts earn what its lines add up to.
LEMMA RevenueAddsUp ==
  ASSUME Types, NEW o \in Orders
  PROVE  SumFunctionOnSet([a \in RevenueAccounts(o) |-> Revenue(o, a)], RevenueAccounts(o))
           = SumFunction(LineTotals(order[o]))
<1> DEFINE lines == order[o].lines
           S == DOMAIN lines
           A == RevenueAccounts(o)
           key == [i \in S |-> RevenueOf[lines[i].product]]
           f == LineTotals(order[o])
           part(a) == [i \in S |-> IF RevenueOf[lines[i].product] = a THEN lines[i].total ELSE 0]
<1>1. IsFiniteSet(S) /\ \A i \in S : lines[i].total \in Int
  BY LineFacts
<1>2. IsFiniteSet(A)
  BY RevenueFacts
<1>3. key \in [S -> A]
  BY DEF RevenueAccounts
<1>4. DOMAIN f = S /\ \A i \in S : f[i] \in Int /\ f[i] = lines[i].total
  BY <1>1 DEF LineTotals
<1>5. ASSUME NEW a PROVE Revenue(o, a) = SumFunctionOnSet(PartOf(f, key, S, a), S)
  <2>1. PartOf(f, key, S, a) = part(a) /\ DOMAIN part(a) = S
    BY <1>4 DEF PartOf
  <2>2. Revenue(o, a) = SumFunction(part(a))
    BY DEF Revenue
  <2> HIDE DEF part, f, key
  <2> QED
    BY <2>1, <2>2 DEF SumFunction
<1>6. [a \in A |-> Revenue(o, a)] = [a \in A |-> SumFunctionOnSet(PartOf(f, key, S, a), S)]
  BY <1>5
<1> HIDE DEF S, A, f, key
<1>7. SumFunctionOnSet([a \in A |-> SumFunctionOnSet(PartOf(f, key, S, a), S)], A)
        = SumFunctionOnSet(f, S)
  BY <1>1, <1>2, <1>3, <1>4, SumByGroup
<1>8. SumFunctionOnSet(f, S) = SumFunction(f)
  BY <1>4 DEF SumFunction
<1> QED
  BY <1>6, <1>7, <1>8 DEF A, f

\* Validate passes the invoice of a regular order: its credits are positive, and
\* they add up to the debit.
LEMMA InvoiceValid ==
  ASSUME Types, NEW o \in Orders, OrderFits(order[o], o), order[o].status = "SHIPPED", Regular(o)
  PROVE  Validate(Invoice(o))
<1> DEFINE t == order[o].total
           r == order[o].rate
           e == Invoice(o)
           ls == e.lines
           S == DOMAIN order[o].lines
           A == RevenueAccounts(o)
           E == Earned(o)
           n == Cardinality(E)
           I == 1 .. (n + 1)
           R == 2 .. (n + 1)
           unit == AmtUnit * r
           rev == [a \in A |-> Revenue(o, a)]
           X == Exacts(ls, r, TRUE)
           Y == Exacts(ls, r, FALSE)
<1>1. /\ n \in Nat /\ IsFiniteSet(E) /\ Len(ls) = n + 1 /\ DOMAIN ls = I
      /\ ls[1] = Debit(AR, t)
      /\ \E b \in Bijection(R, E) : \A i \in R : ls[i] = b[i]
  BY InvoiceParts
<1>2. /\ e.rate = r /\ e.company = CompanyOf[o] /\ e.type = "SI" /\ e.currency = "currency"
      /\ e.postDate = "day" /\ e.docDate = "day"
  BY DEF Invoice, Entry
<1>3. /\ r \in Nat \ {0} /\ t \in Int /\ IsFiniteSet(S) /\ CompanyOf[o] \in Companies
      /\ \A i \in S : order[o].lines[i].total \in Nat \ {0}
      /\ t = SumFunction(LineTotals(order[o]))
  <2>1. \A i \in S : order[o].lines[i].total \in Int /\ order[o].lines[i].total > 0
    BY LineFacts DEF Regular
  <2>2. t = SumFunction(LineTotals(order[o]))
    BY DEF OrderFits, Regular
  <2> QED
    BY <2>1, <2>2, LineFacts, AmountsAssumption
<1>4. 1 \in S
  <2>1. order[o].lines \in Seq(OrderLine) /\ order[o].lines # <<>>
    BY LineFacts DEF OrderFits
  <2> QED
    BY <2>1, SeqDomain
<1>5. t \in Nat \ {0}
  <2> DEFINE f == LineTotals(order[o])
  <2>1. DOMAIN f = S /\ \A i \in S : f[i] \in Nat /\ f[i] > 0
    BY <1>3 DEF LineTotals
  <2> HIDE DEF f, S
  <2>2. SumFunctionOnSet(f, S) \in Nat \ {0}
    BY <1>3, <1>4, <2>1, SumPositive
  <2> QED
    BY <1>3, <2>1, <2>2 DEF SumFunction, f
<1>6. IsFiniteSet(A) /\ A # {}
  BY <1>4, RevenueFacts DEF RevenueAccounts
<1>7. ASSUME NEW a \in A PROVE Revenue(o, a) \in Nat \ {0}
  <2> DEFINE f == [i \in S |-> IF RevenueOf[order[o].lines[i].product] = a
                               THEN order[o].lines[i].total ELSE 0]
  <2>1. PICK i \in S : RevenueOf[order[o].lines[i].product] = a
    BY DEF RevenueAccounts
  <2>2. DOMAIN f = S /\ (\A j \in S : f[j] \in Nat) /\ f[i] > 0
    BY <1>3, <2>1
  <2>3. Revenue(o, a) = SumFunction(f)
    BY DEF Revenue
  <2> HIDE DEF f, S
  <2>4. SumFunctionOnSet(f, S) \in Nat \ {0}
    BY <1>3, <2>1, <2>2, SumPositive
  <2> QED
    BY <2>2, <2>3, <2>4 DEF SumFunction
<1> HIDE DEF e, A, S, t, r, n
<1>8. n >= 1
  <2>1. E # {}
    BY <1>6 DEF Earned, A
  <2>2. n # 0
    BY <1>1, <2>1, FS_EmptySet DEF n
  <2> QED
    BY <1>1, <2>2
<1>9. /\ 1 \in I /\ IsFiniteSet(I) /\ IsFiniteSet(R) /\ I \ {1} = R
  <2>1. 1 \in I /\ 1 \in Int /\ 2 \in Int /\ n + 1 \in Int /\ I \ {1} = R
    BY <1>1
  <2> QED
    BY <2>1, FS_Interval
<1>10. PICK b \in Bijection(R, E) : \A i \in R : ls[i] = b[i]
  BY <1>1
<1>11. \A i \in R : ls[i] \in E
  <2>1. b \in [R -> E]
    BY DEF Bijection, Surjection
  <2> QED
    BY <1>10, <2>1
<1>12. \A x \in E : x.debit = FALSE /\ x.amt \in Nat \ {0} /\ x.amt * r \in Int
  <2> SUFFICES ASSUME NEW a \in A
               PROVE  LET x == Credit(a, Revenue(o, a))
                      IN x.debit = FALSE /\ x.amt \in Nat \ {0} /\ x.amt * r \in Int
    BY DEF Earned, A
  <2> DEFINE v == Revenue(o, a)
             w == v * AmtUnit
  <2>1. v \in Nat \ {0}
    BY <1>7
  <2> HIDE DEF v
  <2>2. w \in Nat \ {0} /\ w * r \in Int
    BY <1>3, <2>1, Units
  <2>3. Credit(a, v).amt = w /\ Credit(a, v).debit = FALSE
    BY DEF Credit
  <2> HIDE DEF w
  <2> QED
    BY <2>2, <2>3 DEF v
<1>13. ls[1].debit = TRUE /\ ls[1].amt = t * AmtUnit /\ t * AmtUnit \in Nat \ {0}
  BY <1>1, <1>5, Units DEF Debit
<1>14. unit \in Int /\ t * unit \in Int /\ (t * AmtUnit) * r = t * unit
  BY <1>3, Units
<1> HIDE DEF I, R, E, unit
<1>15. /\ X[1] = t * unit /\ (\A i \in R : X[i] = 0)
       /\ Y[1] = 0 /\ (\A i \in R : Y[i] = ls[i].amt * r /\ Y[i] \in Int)
  BY <1>1, <1>9, <1>11, <1>12, <1>13, <1>14 DEF Exacts, ExactBase
<1>16. \A i \in I : ExactBase(ls[i], r) \in Int
  BY <1>9, <1>11, <1>12, <1>13, <1>14 DEF ExactBase
<1> HIDE DEF X, Y
<1>17. SumFunctionOnSet(X, I) = t * unit
  <2>1. SumFunctionOnSet(X, R) = 0
    BY <1>9, <1>15, SumZero
  <2>2. \A i \in I : X[i] \in Int
    BY <1>9, <1>14, <1>15
  <2>3. SumFunctionOnSet(X, I) = X[1] + SumFunctionOnSet(X, I \ {1})
    BY <1>9, <2>2, SumSplit
  <2>4. SumFunctionOnSet(X, I) = X[1] + SumFunctionOnSet(X, R)
    BY <1>9, <2>3, Zenon
  <2>5. X[1] + 0 = X[1]
    BY <1>14, <1>15
  <2> QED
    BY <1>15, <2>1, <2>4, <2>5, Zenon
<1>18. SumFunctionOnSet(Y, R) = t * unit
  <2> DEFINE f == [x \in E |-> x.amt * r]
             h == [a \in A |-> (Revenue(o, a) * AmtUnit) * r]
             k == [a \in A |-> Credit(a, Revenue(o, a))]
  <2>1. \A i \in R : Y[i] = f[b[i]] /\ f[b[i]] \in Int
    BY <1>10, <1>11, <1>15
  <2>2. k \in Bijection(A, E)
    <3>1. k \in [A -> E] /\ \A x \in E : \E a \in A : k[a] = x
      BY DEF Earned, E, A
    <3>2. \A a, c \in A : k[a] = k[c] => a = c
      BY DEF Credit
    <3> HIDE DEF k
    <3> QED
      BY <3>1, <3>2, BijectionIs
  <2>3. \A a \in A : h[a] = f[k[a]] /\ f[k[a]] \in Int
    <3> TAKE a \in A
    <3>1. k[a] \in E /\ k[a].amt = Revenue(o, a) * AmtUnit
      BY DEF Earned, E, A, Credit
    <3>2. f[k[a]] = k[a].amt * r
      BY <3>1
    <3>3. h[a] = (Revenue(o, a) * AmtUnit) * r
      OBVIOUS
    <3> HIDE DEF f, h, k
    <3> QED
      BY <1>12, <3>1, <3>2, <3>3
  <2>4. \A a \in A : rev[a] \in Int /\ h[a] = unit * rev[a]
    <3> TAKE a \in A
    <3>1. rev[a] = Revenue(o, a) /\ h[a] = (Revenue(o, a) * AmtUnit) * r
      OBVIOUS
    <3> HIDE DEF h, rev
    <3>2. Revenue(o, a) \in Int
      BY <1>7
    <3> QED
      BY <1>3, <3>1, <3>2, Units DEF unit
  <2> HIDE DEF f, h, k
  <2>5. SumFunctionOnSet(Y, R) = SumFunctionOnSet(f, E)
    BY <1>9, <2>1, SumRenamed
  <2>6. SumFunctionOnSet(h, A) = SumFunctionOnSet(f, E)
    BY <1>6, <2>2, <2>3, SumRenamed
  <2>7. SumFunctionOnSet(rev, A) = t
    BY <1>3, RevenueAddsUp DEF A
  <2> HIDE DEF rev
  <2>8. SumFunctionOnSet(h, A) = unit * SumFunctionOnSet(rev, A)
    BY <1>6, <1>14, <2>4, SumScaled
  <2> QED
    BY <1>3, <1>14, <2>5, <2>6, <2>7, <2>8
<1>19. SumFunctionOnSet(Y, I) = t * unit
  <2>1. \A i \in I : Y[i] \in Int
    BY <1>9, <1>15
  <2>2. SumFunctionOnSet(Y, I) = Y[1] + SumFunctionOnSet(Y, I \ {1})
    BY <1>9, <2>1, SumSplit
  <2>3. SumFunctionOnSet(Y, I) = Y[1] + SumFunctionOnSet(Y, R)
    BY <1>9, <2>2, Zenon
  <2> DEFINE z == t * unit
  <2>4. z \in Int /\ SumFunctionOnSet(Y, R) = z
    BY <1>14, <1>18
  <2> HIDE DEF z
  <2>5. SumFunctionOnSet(Y, I) = z
    BY <1>15, <2>3, <2>4
  <2> QED
    BY <2>5 DEF z
<1>20. ExactlyBalanced(e)
  <2>1. IsFiniteSet(DOMAIN ls) /\ \A i \in DOMAIN ls : ExactBase(ls[i], r) \in Int
    BY <1>1, <1>9, <1>16 DEF I
  <2>2. /\ ExactTotal(ls, r, TRUE) = SumFunctionOnSet(X, DOMAIN ls)
        /\ ExactTotal(ls, r, FALSE) = SumFunctionOnSet(Y, DOMAIN ls)
    BY <2>1, ExactTotalIsSum, Zenon DEF X, Y
  <2>3. DOMAIN ls = I
    BY <1>1 DEF I
  <2> QED
    BY <1>2, <1>17, <1>19, <2>2, <2>3, Zenon DEF ExactlyBalanced
<1>21. \A i \in DOMAIN ls : ls[i].amt \in Nat \ {0}
  <2>1. DOMAIN ls = I
    BY <1>1 DEF I
  <2> QED
    BY <1>9, <1>11, <1>12, <1>13, <2>1
<1>22. \A x \in Int : x \notin {Blank, Malformed, OtherZero}
  BY AmountsAssumption
<1>23. /\ Blank \notin {e.type, e.company, e.currency, e.postDate}
       /\ Malformed \notin {e.postDate, e.docDate}
  BY <1>2, <1>3, AmountsAssumption
<1>24. e.rate \notin {Blank, Malformed, OtherZero} /\ e.rate > 0 /\ Len(ls) >= 2
  BY <1>1, <1>2, <1>3, <1>8, <1>22
<1>25. \A i \in DOMAIN ls : ls[i].amt \notin {Blank, Malformed} /\ ls[i].amt > 0
  BY <1>21, <1>22
<1>26. Validate(e)
  BY <1>20, <1>23, <1>24, <1>25 DEF Validate
<1> QED
  BY <1>26 DEF e

\* The invariant implies that regular orders can be taken further.
LEMMA CanAdvanceFromIInv == IInv => CanAdvance
<1> SUFFICES ASSUME IInv PROVE CanAdvance
  OBVIOUS
<1>1. /\ Types /\ \A p \in Products : ItemFits(item[p])
      /\ \A o \in Orders : OrderFits(order[o], o)
  BY DEF IInv
<1>2. ASSUME NEW o \in Ordered({"CONFIRMED"})
      PROVE  LET shipped == ShipLines(order[o].lines)
             IN \/ 2 * shipped.cogs < AmtUnit
                \/ Validate(GoodsIssue(CompanyOf[o], shipped.cogs))
  <2> DEFINE c == CompanyOf[o]
             lines == order[o].lines
             s == ShipLines(lines)
  <2>1. o \in Orders /\ order[o].status = "CONFIRMED" /\ c \in Companies
    BY AmountsAssumption DEF Ordered
  <2>2. OrderFits(order[o], o)
    BY <1>1, <2>1
  <2>3. \A i \in DOMAIN lines : CompanyOf[lines[i].product] = c /\ Storable(lines[i].qty)
    BY <2>1, <2>2 DEF OrderFits
  <2>4. lines \in Seq(OrderLine) /\ item \in [Products -> ItemRow]
        /\ \A p \in Products : 0 <= item[p].onHand
    BY <1>1, <2>1, LineFacts DEF Types, ItemFits
  <2> HIDE DEF lines, c
  <2>5. s \in Shipped(lines, c)
    BY <2>1, <2>3, <2>4, ShipKeeps
  <2> HIDE DEF s
  <2>6. s.cogs \in Int
    BY <2>5 DEF Shipped
  <2>7. AmtUnit <= 2 * s.cogs => Validate(GoodsIssue(c, s.cogs))
    BY <2>1, <2>6, IssueValid
  <2>8. 2 * s.cogs < AmtUnit \/ AmtUnit <= 2 * s.cogs
    BY <2>6, Units
  <2> QED
    BY <2>7, <2>8 DEF s, lines, c
<1>3. ASSUME NEW o \in Ordered({"SHIPPED"}), Regular(o) PROVE Validate(Invoice(o))
  BY <1>1, <1>3, InvoiceValid DEF Ordered
<1>4. ASSUME NEW o \in Ordered({"INVOICED"}) PROVE Validate(Payment(o))
  <2>1. o \in Orders /\ order[o].status = "INVOICED"
    BY DEF Ordered
  <2>2. order[o].total > 0
    BY <1>1, <2>1 DEF OrderFits
  <2> QED
    BY <1>1, <2>1, <2>2, PaymentValid
<1> QED
  BY <1>2, <1>3, <1>4 DEF CanAdvance

\* A step that changes nothing keeps the invariant.
LEMMA UnchangedKeeps == IInv /\ UNCHANGED vars => IInv'
<1> SUFFICES ASSUME IInv, UNCHANGED vars PROVE IInv'
  OBVIOUS
<1>1. UNCHANGED <<order, item, gl, keys, siDocs, receipts, issues>>
  BY DEF vars
<1>2. Types' /\ StockBounds'
  BY <1>1 DEF IInv, Types, StockBounds, Ordered
<1>3. ReceivablesOpen' /\ StockValueDrift'
  BY <1>1 DEF IInv, BooksAgree, ReceivablesOpen, Owed, Ordered, StockValueDrift, Value, Receipts,
              Averaged, RoundedAt
<1>4. (\A p \in Products : ItemFits(item'[p])) /\ (\A o \in Orders : OrderFits(order'[o], o))
  BY <1>1 DEF IInv
<1> QED
  BY <1>2, <1>3, <1>4 DEF IInv, BooksAgree

\* Every operation keeps the invariant.
LEMMA NextKeeps == IInv /\ [Next]_vars => IInv'
<1> SUFFICES ASSUME IInv, [Next]_vars PROVE IInv'
  OBVIOUS
<1>1. ASSUME NEW p \in Goods, NEW qty \in ReceivedQtys, NEW cost \in Costs, NEW day \in Days,
             ReceiveStock(p, qty, cost, day)
      PROVE  IInv'
  BY <1>1, ReceiveKeeps
<1>2. ASSUME NEW o \in Orders, NEW b \in BasketsOf[o], CreateOrder(o, b.lines, b.rate)
      PROVE  IInv'
  BY <1>2, CreateKeeps
<1>3. ASSUME NEW o \in Orders, ConfirmOrder(o) PROVE IInv'
  BY <1>3, ConfirmKeeps
<1>4. ASSUME NEW o \in Orders, ShipOrder(o) PROVE IInv'
  BY <1>4, ShipStep
<1>5. ASSUME NEW o \in Orders, InvoiceOrder(o) PROVE IInv'
  BY <1>5, InvoiceKeeps
<1>6. ASSUME NEW o \in Orders, RecordPayment(o) PROVE IInv'
  BY <1>6, PaymentKeeps
<1>7. ASSUME NEW o \in Orders, CancelOrder(o) PROVE IInv'
  BY <1>7, CancelKeeps
<1>8. CASE UNCHANGED vars
  BY <1>8, UnchangedKeeps
<1> QED
  BY <1>1, <1>2, <1>3, <1>4, <1>5, <1>6, <1>7, <1>8 DEF Next

\* The invariant holds after any sequence of receipts and of operations on
\* orders, whatever the baskets, prices, costs, rates and companies.
THEOREM InvariantHolds == Spec => []IInv
BY InitHolds, NextKeeps, PTL DEF Spec

\* What is reserved of a product is on hand and not negative, unless some
\* confirmed order has a line of a negative quantity for it: ReserveStockTx and
\* ShipStockTx never promise the same goods twice.
THEOREM BoundsHold == Spec => []StockBounds
<1>1. IInv => StockBounds
  BY DEF IInv
<1> QED
  BY <1>1, InvariantHolds, PTL

\* The receivables of a company are what its invoiced orders owe, to the cent and
\* at each order's own rate; the inventory account and the value of the stock
\* differ by at most half a cent for each entry and half a cost unit for each
\* unit on hand when a cost was averaged.
THEOREM BooksHold == Spec => []BooksAgree
<1>1. IInv => BooksAgree
  BY DEF IInv
<1> QED
  BY <1>1, InvariantHolds, PTL

\* No status an order of positive lines can be in is a dead end: its shipment,
\* its invoice and its payment make entries that Validate passes, but for goods
\* worth less than half a cent and several lines of which one was rounded.
THEOREM AdvanceHolds == Spec => []CanAdvance
BY CanAdvanceFromIInv, InvariantHolds, PTL
=============================================================================
