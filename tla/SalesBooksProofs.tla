-------------------------- MODULE SalesBooksProofs --------------------------
(***************************************************************************)
(* More proofs about Sales: the sums. The stock is the opening stock less  *)
(* the goods of the completed sales, and the journal is balanced over what *)
(* each of them charged, for any sales, orders, payments, charts and cuts. *)
(***************************************************************************)
EXTENDS SalesProofs, SumLemmas

\* The column of the debits of some lines, and that of the credits.
DebitColumn(lines) == [i \in DOMAIN lines |-> lines[i].debit]

CreditColumn(lines) == [i \in DOMAIN lines |-> lines[i].credit]

\* The amounts of a line, at its place.
LEMMA ColumnsAt ==
  ASSUME NEW lines \in Seq(Line)
  PROVE  /\ Len(lines) \in Nat
         /\ \A i \in 1 .. Len(lines) :
              /\ lines[i] \in Line
              /\ DebitColumn(lines)[i] = lines[i].debit /\ lines[i].debit \in Int
              /\ CreditColumn(lines)[i] = lines[i].credit /\ lines[i].credit \in Int
<1>1. Len(lines) \in Nat /\ DOMAIN lines = 1 .. Len(lines)
  OBVIOUS
<1>2. \A i \in 1 .. Len(lines) : lines[i] \in Line
  OBVIOUS
<1>3. \A line \in Line : line.debit \in Int /\ line.credit \in Int
  BY DEF Line
<1> QED
  BY <1>1, <1>2, <1>3 DEF DebitColumn, CreditColumn

\* Debits and Credits are sums over the places.
LEMMA ColumnsSum ==
  ASSUME NEW lines \in Seq(Line)
  PROVE  /\ Debits(lines) = SumFunctionOnSet(DebitColumn(lines), 1 .. Len(lines))
         /\ Credits(lines) = SumFunctionOnSet(CreditColumn(lines), 1 .. Len(lines))
         /\ Debits(lines) \in Int /\ Credits(lines) \in Int
<1>1. /\ DOMAIN DebitColumn(lines) = 1 .. Len(lines)
      /\ DOMAIN CreditColumn(lines) = 1 .. Len(lines)
  BY DEF DebitColumn, CreditColumn
<1>2. /\ Debits(lines) = SumFunctionOnSet(DebitColumn(lines), 1 .. Len(lines))
      /\ Credits(lines) = SumFunctionOnSet(CreditColumn(lines), 1 .. Len(lines))
  BY <1>1, Zenon DEF Debits, Credits, SumFunction, DebitColumn, CreditColumn
<1>3. IsFiniteSet(1 .. Len(lines))
  BY ColumnsAt, FS_Interval
<1>4. /\ \A i \in 1 .. Len(lines) : DebitColumn(lines)[i] \in Int
      /\ \A i \in 1 .. Len(lines) : CreditColumn(lines)[i] \in Int
  BY ColumnsAt
<1>5. /\ SumFunctionOnSet(DebitColumn(lines), 1 .. Len(lines)) \in Int
      /\ SumFunctionOnSet(CreditColumn(lines), 1 .. Len(lines)) \in Int
  BY <1>3, <1>4, SumInt
<1> QED
  BY <1>2, <1>5

\* What is debited and credited by some lines and then by others.
LEMMA ColumnsJoin ==
  ASSUME NEW a \in Seq(Line), NEW b \in Seq(Line)
  PROVE  /\ a \o b \in Seq(Line)
         /\ Debits(a \o b) = Debits(a) + Debits(b)
         /\ Credits(a \o b) = Credits(a) + Credits(b)
<1> DEFINE c == a \o b
<1>1. /\ c \in Seq(Line) /\ Len(c) = Len(a) + Len(b)
      /\ Len(a) \in Nat /\ Len(b) \in Nat
      /\ \A i \in 1 .. Len(a) : c[i] = a[i] /\ i \in 1 .. Len(c)
      /\ \A i \in 1 .. Len(b) : c[Len(a) + i] = b[i] /\ Len(a) + i \in 1 .. Len(c)
  OBVIOUS
<1> HIDE DEF c
<1> DEFINE m == Len(a)
           n == Len(b)
           k == Len(c)
<1>2. /\ \A i \in 1 .. m : /\ a[i].debit \in Int /\ DebitColumn(a)[i] = a[i].debit
                           /\ a[i].credit \in Int /\ CreditColumn(a)[i] = a[i].credit
      /\ \A i \in 1 .. n : /\ b[i].debit \in Int /\ DebitColumn(b)[i] = b[i].debit
                           /\ b[i].credit \in Int /\ CreditColumn(b)[i] = b[i].credit
      /\ \A i \in 1 .. Len(c) : /\ DebitColumn(c)[i] = c[i].debit
                                /\ CreditColumn(c)[i] = c[i].credit
  BY <1>1, ColumnsAt
<1>3. /\ \A i \in 1 .. m : /\ DebitColumn(a)[i] \in Int /\ DebitColumn(c)[i] = DebitColumn(a)[i]
      /\ \A i \in 1 .. n : /\ DebitColumn(b)[i] \in Int /\ DebitColumn(c)[m + i] = DebitColumn(b)[i]
      /\ \A i \in 1 .. m : /\ CreditColumn(a)[i] \in Int
                           /\ CreditColumn(c)[i] = CreditColumn(a)[i]
      /\ \A i \in 1 .. n : /\ CreditColumn(b)[i] \in Int
                           /\ CreditColumn(c)[m + i] = CreditColumn(b)[i]
  BY <1>1, <1>2
<1>4. m \in Nat /\ n \in Nat /\ k = m + n
  BY <1>1
<1> HIDE DEF m, n, k
<1>5. SumFunctionOnSet(DebitColumn(c), 1 .. k)
        = SumFunctionOnSet(DebitColumn(a), 1 .. m) + SumFunctionOnSet(DebitColumn(b), 1 .. n)
  <2>1. Joins(DebitColumn(c), DebitColumn(a), m, DebitColumn(b), n)
    BY <1>3 DEF Joins
  <2> QED
    BY <1>4, <2>1, SumJoined
<1>6. SumFunctionOnSet(CreditColumn(c), 1 .. k)
        = SumFunctionOnSet(CreditColumn(a), 1 .. m) + SumFunctionOnSet(CreditColumn(b), 1 .. n)
  <2>1. Joins(CreditColumn(c), CreditColumn(a), m, CreditColumn(b), n)
    BY <1>3 DEF Joins
  <2> QED
    BY <1>4, <2>1, SumJoined
<1>7. Debits(c) = Debits(a) + Debits(b) /\ Credits(c) = Credits(a) + Credits(b)
  BY <1>1, <1>5, <1>6, ColumnsSum DEF m, n, k
<1> QED
  BY <1>1, <1>7 DEF c

\* What one line debits and credits.
LEMMA ColumnsOne ==
  ASSUME NEW line \in Line
  PROVE  Debits(<<line>>) = line.debit /\ Credits(<<line>>) = line.credit
<1> DEFINE one == <<line>>
<1>1. one \in Seq(Line) /\ Len(one) = 1 /\ one[1] = line /\ 1 .. 1 = {1} /\ 1 \in 1 .. 1
  OBVIOUS
<1> HIDE DEF one
<1>2. /\ DebitColumn(one)[1] = line.debit /\ CreditColumn(one)[1] = line.credit
      /\ line.debit \in Int /\ line.credit \in Int
  BY <1>1, ColumnsAt
<1>3. /\ SumFunctionOnSet(DebitColumn(one), {1}) = line.debit
      /\ SumFunctionOnSet(CreditColumn(one), {1}) = line.credit
  BY <1>2, SumAlone
<1>4. Debits(one) = line.debit /\ Credits(one) = line.credit
  BY <1>1, <1>3, ColumnsSum
<1> QED
  BY <1>4 DEF one

\* What no line debits and credits.
LEMMA ColumnsNone == Debits(<<>>) = 0 /\ Credits(<<>>) = 0
<1>1. <<>> \in Seq(Line) /\ Len(<<>>) = 0 /\ 1 .. 0 = {}
  OBVIOUS
<1>2. /\ Debits(<<>>) = SumFunctionOnSet(DebitColumn(<<>>), {})
      /\ Credits(<<>>) = SumFunctionOnSet(CreditColumn(<<>>), {})
  BY <1>1, ColumnsSum
<1> QED
  BY <1>2, SumEmpty

\* A line that moves from the lines that are left to the entry leaves the sums as they are.
LEMMA ColumnsMove ==
  ASSUME NEW done \in Seq(Line), NEW left \in Seq(Line), left # <<>>
  PROVE  /\ Debits(Append(done, Head(left))) + Debits(Tail(left)) = Debits(done) + Debits(left)
         /\ Credits(Append(done, Head(left))) + Credits(Tail(left)) = Credits(done) + Credits(left)
<1> DEFINE line == Head(left)
           rest == Tail(left)
<1>1. /\ line \in Line /\ rest \in Seq(Line) /\ <<line>> \in Seq(Line)
      /\ Append(done, line) = done \o <<line>> /\ left = <<line>> \o rest
  OBVIOUS
<1> HIDE DEF line, rest
<1>2. /\ Debits(done \o <<line>>) = Debits(done) + Debits(<<line>>)
      /\ Credits(done \o <<line>>) = Credits(done) + Credits(<<line>>)
  BY <1>1, ColumnsJoin
<1>3. /\ Debits(left) = Debits(<<line>>) + Debits(rest)
      /\ Credits(left) = Credits(<<line>>) + Credits(rest)
  BY <1>1, ColumnsJoin
<1>4. /\ Debits(done) \in Int /\ Debits(<<line>>) \in Int /\ Debits(rest) \in Int
      /\ Credits(done) \in Int /\ Credits(<<line>>) \in Int /\ Credits(rest) \in Int
  BY <1>1, ColumnsSum
<1>5. /\ Debits(Append(done, line)) + Debits(rest) = Debits(done) + Debits(left)
      /\ Credits(Append(done, line)) + Credits(rest) = Credits(done) + Credits(left)
  BY <1>1, <1>2, <1>3, <1>4
<1> QED
  BY <1>5 DEF line, rest

\* Every line has an amount.
Positive(lines) == \A i \in DOMAIN lines : lines[i].debit > 0 \/ lines[i].credit > 0

\* What a part of the lines of a journal adds up to.
Part(lines, debit, credit) ==
  /\ lines \in Seq(Line)
  /\ Debits(lines) = debit /\ Credits(lines) = credit

\* Two parts of the lines, one after the other.
LEMMA PartsJoin ==
  ASSUME NEW a, NEW b, NEW d, NEW c, NEW e, NEW f,
         Part(a, d, c), Part(b, e, f)
  PROVE  /\ Part(a \o b, d + e, c + f)
         /\ Len(a \o b) = Len(a) + Len(b)
         /\ Positive(a \o b) <=> Positive(a) /\ Positive(b)
<1>1. a \in Seq(Line) /\ b \in Seq(Line)
  BY DEF Part
<1>2. /\ Len(a \o b) = Len(a) + Len(b)
      /\ Positive(a \o b) <=> Positive(a) /\ Positive(b)
  <2> DEFINE j == a \o b
  <2>1. /\ DOMAIN j = 1 .. (Len(a) + Len(b)) /\ Len(a) \in Nat /\ Len(b) \in Nat
        /\ Len(j) = Len(a) + Len(b)
        /\ DOMAIN a = 1 .. Len(a) /\ DOMAIN b = 1 .. Len(b)
        /\ \A i \in 1 .. Len(a) : j[i] = a[i]
        /\ \A i \in 1 .. Len(b) : j[Len(a) + i] = b[i]
    BY <1>1
  <2> HIDE DEF j
  <2>2. /\ \A i \in DOMAIN j : i \in 1 .. Len(a) \/ \E n \in 1 .. Len(b) : i = Len(a) + n
        /\ \A i \in 1 .. Len(a) : i \in DOMAIN j
        /\ \A n \in 1 .. Len(b) : Len(a) + n \in DOMAIN j
    <3>1. \A i \in DOMAIN j : i \in 1 .. Len(a)
                              \/ (i - Len(a) \in 1 .. Len(b) /\ i = Len(a) + (i - Len(a)))
      BY <2>1
    <3>2. /\ \A i \in 1 .. Len(a) : i \in DOMAIN j
          /\ \A n \in 1 .. Len(b) : Len(a) + n \in DOMAIN j
      BY <2>1
    <3> QED
      BY <3>1, <3>2
  <2>3. ASSUME Positive(a), Positive(b) PROVE Positive(j)
    <3>1. ASSUME NEW i \in DOMAIN j PROVE j[i].debit > 0 \/ j[i].credit > 0
      <4>1. CASE i \in 1 .. Len(a)
        BY <2>1, <2>3, <4>1 DEF Positive
      <4>2. CASE \E n \in 1 .. Len(b) : i = Len(a) + n
        BY <2>1, <2>3, <4>2 DEF Positive
      <4> QED
        BY <2>2, <4>1, <4>2
    <3> QED
      BY <3>1 DEF Positive
  <2>4. ASSUME Positive(j) PROVE Positive(a) /\ Positive(b)
    BY <2>1, <2>2, <2>4 DEF Positive
  <2> QED
    BY <2>1, <2>3, <2>4 DEF j
<1>3. /\ a \o b \in Seq(Line)
      /\ Debits(a \o b) = d + e /\ Credits(a \o b) = c + f
  BY <1>1, ColumnsJoin DEF Part
<1> QED
  BY <1>2, <1>3 DEF Part

\* The part of one line. A line over nothing, or over less, is not positive.
LEMMA PartsOne ==
  ASSUME NEW acc \in Account, NEW amount \in Int
  PROVE  /\ Part(Debit(acc, amount), amount, 0) /\ Part(Credit(acc, amount), 0, amount)
         /\ Positive(Debit(acc, amount)) <=> amount > 0
         /\ Positive(Credit(acc, amount)) <=> amount > 0
         /\ Len(Debit(acc, amount)) = 1 /\ Len(Credit(acc, amount)) = 1
<1> DEFINE d == [acc |-> acc, debit |-> amount, credit |-> 0]
           c == [acc |-> acc, debit |-> 0, credit |-> amount]
<1>1. /\ d \in Line /\ d.debit = amount /\ d.credit = 0
      /\ c \in Line /\ c.debit = 0 /\ c.credit = amount
  BY DEF Line
<1>2. Debit(acc, amount) = <<d>> /\ Credit(acc, amount) = <<c>>
  BY DEF Debit, Credit
<1> HIDE DEF d, c
<1>3. /\ <<d>> \in Seq(Line) /\ <<c>> \in Seq(Line) /\ Len(<<d>>) = 1 /\ Len(<<c>>) = 1
      /\ Positive(<<d>>) <=> amount > 0
      /\ Positive(<<c>>) <=> amount > 0
  BY <1>1 DEF Positive
<1>4. /\ Debits(<<d>>) = amount /\ Credits(<<d>>) = 0
      /\ Debits(<<c>>) = 0 /\ Credits(<<c>>) = amount
  BY <1>1, ColumnsOne
<1> QED
  BY <1>2, <1>3, <1>4 DEF Part

\* No lines.
LEMMA PartsNone == Part(<<>>, 0, 0) /\ Positive(<<>>) /\ Len(<<>>) = 0
<1>1. <<>> \in Seq(Line) /\ Positive(<<>>) /\ Len(<<>>) = 0
  BY DEF Positive
<1> QED
  BY <1>1, ColumnsNone DEF Part

\* The clamp at nothing: what DueOf and Charged take from an amount.
LEMMA Clamped ==
  ASSUME NEW x \in Int
  PROVE  Max({0, x}) = IF x > 0 THEN x ELSE 0
<1> DEFINE S == {0, x}
<1>1. \E m \in S : \A y \in S : m >= y
  OBVIOUS
<1>2. Max(S) \in S /\ \A y \in S : Max(S) >= y
  BY <1>1 DEF Max
<1> QED
  BY <1>2

\* What is due where not too much was paid.
LEMMA DueExact ==
  ASSUME NEW total \in Int, NEW paid \in Int, paid <= total
  PROVE  DueOf(total, paid) = total - paid /\ total - paid \in Nat
<1>1. total - paid \in Int /\ total - paid >= 0
  OBVIOUS
<1>2. DueOf(total, paid) = IF total - paid > 0 THEN total - paid ELSE 0
  BY <1>1, Clamped DEF DueOf
<1> QED
  BY <1>1, <1>2

\* What the lines of the payments debit.
PaidBooked(paid) == IF paid > 0 THEN paid ELSE 0

\* The tax that there is an account for.
TaxBooked(order) == IF order.tax > 0 /\ "Tax Payable" \in chart THEN order.tax ELSE 0

\* There is an account for the tax, if there is a tax.
TaxAccount(order) == order.tax > 0 => "Tax Payable" \in chart

\* What the journal of a sale as it was created adds up to, and when it has the two lines
\* that a journal needs.
LEMMA LinesAddUp ==
  ASSUME NEW row \in SaleRow
  PROVE  /\ Part(Lines(row), PaidBooked(row.paid) + row.due,
                 row.order.amount + TaxBooked(row.order))
         /\ Positive(Lines(row)) <=> row.order.amount > 0
         /\ row.paid > 0 \/ row.due > 0 => Len(Lines(row)) >= 2
<1> DEFINE paid == row.paid
           due == row.due
           amount == row.order.amount
           tax == row.order.tax
           A == IF paid > 0 THEN Debit(DebitTarget, paid) ELSE <<>>
           B == DueLine(due)
           C == Credit("Revenue", amount)
           D == IF tax > 0 /\ "Tax Payable" \in chart THEN Credit("Tax Payable", tax) ELSE <<>>
           booked == PaidBooked(paid)
           taxed == TaxBooked(row.order)
<1>1. Lines(row) = ((A \o B) \o C) \o D
  BY Zenon DEF Lines
<1>2. paid \in Int /\ due \in Nat /\ due \in Int /\ amount \in Int /\ tax \in Int
  BY OrderTotal DEF SaleRow
<1>3. DebitTarget \in Account /\ DueTarget \in Account
      /\ "Revenue" \in Account /\ "Tax Payable" \in Account
  BY DEF DebitTarget, DueTarget, Account
<1>4. taxed = IF tax > 0 /\ "Tax Payable" \in chart THEN tax ELSE 0
  BY Zenon DEF TaxBooked
<1> HIDE DEF paid, due, amount, tax, taxed
<1>5. Part(A, booked, 0) /\ Positive(A) /\ Len(A) \in Nat /\ (paid > 0 => Len(A) = 1)
      /\ booked \in Int
  <2>1. CASE paid > 0
    <3>1. A = Debit(DebitTarget, paid) /\ booked = paid
      BY <2>1 DEF PaidBooked
    <3>2. /\ Part(Debit(DebitTarget, paid), paid, 0) /\ Positive(Debit(DebitTarget, paid))
          /\ Len(Debit(DebitTarget, paid)) = 1
      BY <1>2, <1>3, <2>1, PartsOne
    <3> HIDE DEF A, booked
    <3>3. Part(A, booked, 0) /\ Positive(A) /\ Len(A) = 1 /\ booked \in Int
      BY <1>2, <3>1, <3>2, Zenon
    <3> QED
      BY <3>3
  <2>2. CASE ~(paid > 0)
    <3>1. A = <<>> /\ booked = 0
      BY <2>2 DEF PaidBooked
    <3> HIDE DEF A, booked
    <3> QED
      BY <2>2, <3>1, PartsNone
  <2> QED
    BY <2>1, <2>2
<1>6. Part(B, due, 0) /\ Positive(B) /\ Len(B) \in Nat /\ (due > 0 => Len(B) = 1)
  <2>1. CASE due > 0
    <3>1. B = Debit(DueTarget, due)
      BY <2>1 DEF DueLine
    <3>2. /\ Part(Debit(DueTarget, due), due, 0) /\ Positive(Debit(DueTarget, due))
          /\ Len(Debit(DueTarget, due)) = 1
      BY <1>2, <1>3, <2>1, PartsOne
    <3> HIDE DEF B
    <3>3. Part(B, due, 0) /\ Positive(B) /\ Len(B) = 1
      BY <3>1, <3>2, Zenon
    <3> QED
      BY <3>3
  <2>2. CASE due = 0
    <3>1. B = <<>>
      BY <2>2 DEF DueLine
    <3> QED
      BY <2>2, <3>1, PartsNone
  <2> QED
    BY <1>2, <2>1, <2>2
<1>7. Part(C, 0, amount) /\ Len(C) = 1 /\ (Positive(C) <=> amount > 0)
  BY <1>2, <1>3, PartsOne
<1>8. Part(D, 0, taxed) /\ Positive(D) /\ Len(D) \in Nat /\ taxed \in Int
  <2>1. CASE tax > 0 /\ "Tax Payable" \in chart
    <3>1. D = Credit("Tax Payable", tax) /\ taxed = tax
      BY <1>4, <2>1, Zenon
    <3>2. /\ Part(Credit("Tax Payable", tax), 0, tax) /\ Positive(Credit("Tax Payable", tax))
          /\ Len(Credit("Tax Payable", tax)) = 1
      BY <1>2, <1>3, <2>1, PartsOne
    <3> HIDE DEF D
    <3>3. Part(D, 0, taxed) /\ Positive(D) /\ Len(D) = 1 /\ taxed \in Int
      BY <1>2, <3>1, <3>2, Zenon
    <3> QED
      BY <3>3
  <2>2. CASE ~(tax > 0 /\ "Tax Payable" \in chart)
    <3>1. D = <<>> /\ taxed = 0
      BY <1>4, <2>2, Zenon
    <3> HIDE DEF D
    <3> QED
      BY <3>1, PartsNone
  <2> QED
    BY <2>1, <2>2
<1> HIDE DEF A, B, C, D, booked
<1>9. /\ Part(A \o B, booked + due, 0 + 0) /\ Positive(A \o B)
      /\ Len(A \o B) = Len(A) + Len(B)
  BY <1>5, <1>6, PartsJoin, Zenon
<1>10. /\ Part((A \o B) \o C, (booked + due) + 0, (0 + 0) + amount)
       /\ Positive((A \o B) \o C) <=> amount > 0
       /\ Len((A \o B) \o C) = Len(A \o B) + Len(C)
  BY <1>7, <1>9, PartsJoin, Zenon
<1>11. /\ Part(((A \o B) \o C) \o D, ((booked + due) + 0) + 0, ((0 + 0) + amount) + taxed)
       /\ Positive(((A \o B) \o C) \o D) <=> amount > 0
       /\ Len(((A \o B) \o C) \o D) = Len((A \o B) \o C) + Len(D)
  BY <1>8, <1>10, PartsJoin, Zenon
<1>12. /\ ((booked + due) + 0) + 0 = booked + due
       /\ ((0 + 0) + amount) + taxed = amount + taxed
  BY <1>2, <1>5, <1>8
<1>13. Part(Lines(row), booked + due, amount + taxed) /\ (Positive(Lines(row)) <=> amount > 0)
  BY <1>1, <1>11, <1>12, Zenon
<1>14. paid > 0 \/ due > 0 => Len(Lines(row)) >= 2
  <2>1. Len(Lines(row)) = Len(A) + Len(B) + 1 + Len(D)
    BY <1>1, <1>7, <1>9, <1>10, <1>11
  <2> QED
    BY <1>5, <1>6, <1>8, <2>1
<1> QED
  BY <1>13, <1>14 DEF paid, due, amount, tax, booked, taxed

\* Lines that balance do so over what the sale charged. They balance where neither the tax
\* nor what was paid is negative and there is an account for the tax.
LEMMA LinesBalance ==
  ASSUME NEW row \in SaleRow, row.paid <= Total(row.order),
         row.due = DueOf(Total(row.order), row.paid)
  PROVE  /\ PaidBooked(row.paid) + row.due = row.order.amount + TaxBooked(row.order)
              => row.order.amount + TaxBooked(row.order) = Charged(row.order)
         /\ row.order.tax >= 0 /\ row.paid >= 0 /\ TaxAccount(row.order)
              => PaidBooked(row.paid) + row.due = row.order.amount + TaxBooked(row.order)
         /\ row.order.amount > 0 /\ row.order.tax >= 0 /\ row.paid >= 0
              => row.paid > 0 \/ row.due > 0
<1> DEFINE paid == row.paid
           due == row.due
           amount == row.order.amount
           tax == row.order.tax
           booked == PaidBooked(paid)
           taxed == TaxBooked(row.order)
<1>1. paid \in Int /\ amount \in Int /\ tax \in Int /\ due = amount + tax - paid /\ due \in Nat
  <2>1. row.paid \in Int /\ row.order \in Order
    BY DEF SaleRow
  <2>2. Total(row.order) \in Int /\ row.order.amount \in Int /\ row.order.tax \in Int
    BY <2>1, OrderTotal
  <2> QED
    BY <2>1, <2>2, DueExact DEF Total
<1>2. booked = IF paid > 0 THEN paid ELSE 0
  BY Zenon DEF PaidBooked
<1>3. /\ (taxed = tax /\ tax > 0) \/ taxed = 0
      /\ TaxAccount(row.order) /\ tax > 0 => taxed = tax
  BY Zenon DEF TaxBooked, TaxAccount
<1>4. Charged(row.order) = amount + (IF tax > 0 THEN tax ELSE 0)
  BY <1>1, Clamped DEF Charged
<1> HIDE DEF paid, due, amount, tax, booked, taxed
<1>5. booked + due = amount + taxed => amount + taxed = Charged(row.order)
  <2> SUFFICES ASSUME booked + due = amount + taxed PROVE amount + taxed = Charged(row.order)
    OBVIOUS
  <2>1. CASE tax > 0
    BY <1>1, <1>2, <1>3, <1>4, <2>1
  <2>2. CASE ~(tax > 0)
    BY <1>1, <1>3, <1>4, <2>2
  <2> QED
    BY <2>1, <2>2
<1>6. tax >= 0 /\ paid >= 0 /\ TaxAccount(row.order) => booked + due = amount + taxed
  BY <1>1, <1>2, <1>3
<1>7. amount > 0 /\ tax >= 0 /\ paid >= 0 => paid > 0 \/ due > 0
  BY <1>1
<1> QED
  BY <1>5, <1>6, <1>7 DEF paid, due, amount, tax, booked, taxed

-----------------------------------------------------------------------------
(* The goods and the books.                                                *)

\* What makes GoodsAccounted inductive: only what exists was sold or restocked, and what
\* was restocked is returned and stays so.
Goods ==
  /\ IsFiniteSet(sold) /\ IsFiniteSet(restocked)
  /\ restocked \subseteq Existing
  /\ \A s \in restocked : sale[s].status = "Returned"
  /\ GoodsAccounted

\* The accounts are there that make the journal of sale s balance, and the amounts are not
\* negative.
Postable(s) ==
  /\ s \notin negative
  /\ sale[s].order.amount > 0 /\ sale[s].order.tax >= 0
  /\ "Revenue" \in chart /\ {"Cash", "Accounts Receivable"} \cap chart # {}
  /\ TaxAccount(sale[s].order)

\* At "post", the sale is still as it was created.
Posting ==
  At("post") =>
    /\ sale[job.sale].paid <= Total(sale[job.sale].order)
    /\ sale[job.sale].due = DueOf(Total(sale[job.sale].order), sale[job.sale].paid)
    /\ sale[job.sale].status = "Completed" <=> job.sale \in sold
    /\ sale[job.sale].paid < 0 => job.sale \in negative

\* Sale s in the books: the lines of its entry, with those that are still to be inserted,
\* balance over what it charged; and it has an entry if it can.
BookOf(s) ==
  /\ entry[s] # NoEntry => s \in sold
  /\ s \notin cut /\ entry[s] # NoEntry =>
       /\ Busy(s, {"line"}) =>
            /\ Debits(entry[s]) + Debits(job.lines) = Charged(sale[s].order)
            /\ Credits(entry[s]) + Credits(job.lines) = Charged(sale[s].order)
       /\ ~Busy(s, {"line"}) =>
            /\ Debits(entry[s]) = Charged(sale[s].order)
            /\ Credits(entry[s]) = Charged(sale[s].order)
       /\ ~Busy(s, {"line", "tellEntry"}) => s \in entryTold
  /\ s \notin cut /\ s \in sold /\ ~Busy(s, {"post"}) /\ Postable(s) => entry[s] # NoEntry

\* What makes JournalTellsSales inductive.
Books ==
  /\ cut \subseteq Existing
  /\ Posting
  /\ \A s \in Sale : BookOf(s)

\* What most requests do to the sales: none appears, orders stay, returned is returned.
Steady ==
  /\ Existing' = Existing
  /\ \A s \in Existing :
       /\ sale'[s].order = sale[s].order
       /\ sale[s].status = "Returned" => sale'[s].status = "Returned"

\* A request that is not about the journal.
OffTheBooks ==
  /\ UNCHANGED <<entry, entryTold, sold, negative, chart, cut>>
  /\ job.step \notin {"post", "line", "tellEntry"}
  /\ job'.step \notin {"post", "line", "tellEntry"}

\* The quantity of some sales, as the table rows has it.
QtyIn(rows, sales) == SumFunctionOnSet([s \in sales |-> rows[s].order.qty], sales)

\* QtyOf, in this state and in the next.
LEMMA QtyOfIsQtyIn ==
  /\ \A sales : QtyOf(sales) = QtyIn(sale, sales)
  /\ GoodsAccounted' <=> stock' = Opening - QtyIn(sale', sold' \ restocked')
                                          + QtyIn(sale', restocked' \ sold')
<1>1. \A sales : QtyOf(sales) = QtyIn(sale, sales)
  BY Zenon DEF QtyOf, QtyIn, SumFunction
<1>2. /\ QtyOf(sold \ restocked)' = QtyIn(sale', sold' \ restocked')
      /\ QtyOf(restocked \ sold)' = QtyIn(sale', restocked' \ sold')
  BY Zenon DEF QtyOf, QtyIn, SumFunction
<1> QED
  BY <1>1, <1>2, Zenon DEF GoodsAccounted

\* A quantity depends on the orders only.
LEMMA QtySame ==
  ASSUME NEW f, NEW g, NEW sales, IsFiniteSet(sales),
         \A s \in sales : f[s].order = g[s].order
  PROVE  QtyIn(f, sales) = QtyIn(g, sales)
<1> DEFINE u == [s \in sales |-> f[s].order.qty]
           v == [s \in sales |-> g[s].order.qty]
<1>1. u = v
  OBVIOUS
<1> QED
  BY <1>1, Zenon DEF QtyIn

\* A quantity is a natural number.
LEMMA QtyNat ==
  ASSUME NEW f, NEW sales, IsFiniteSet(sales), \A s \in sales : f[s].order \in Order
  PROVE  QtyIn(f, sales) \in Nat
<1> DEFINE u == [s \in sales |-> f[s].order.qty]
<1>1. \A s \in sales : u[s] \in Nat
  BY SalesAssumption
<1> HIDE DEF u
<1>2. SumFunctionOnSet(u, sales) \in Nat
  BY <1>1, SumNat
<1> QED
  BY <1>2, Zenon DEF QtyIn, u

\* One sale more.
LEMMA QtyMore ==
  ASSUME NEW f, NEW sales, IsFiniteSet(sales), NEW a, a \notin sales,
         \A s \in sales \cup {a} : f[s].order \in Order
  PROVE  /\ QtyIn(f, sales \cup {a}) = QtyIn(f, sales) + f[a].order.qty
         /\ QtyIn(f, sales) \in Nat /\ f[a].order.qty \in Nat
         /\ IsFiniteSet(sales \cup {a})
<1> DEFINE T == sales \cup {a}
           u == [s \in sales |-> f[s].order.qty]
           v == [s \in T |-> f[s].order.qty]
<1>1. \A order \in Order : order.qty \in Nat
  BY SalesAssumption
<1>2. /\ \A s \in sales : u[s] \in Nat /\ v[s] \in Int /\ u[s] = v[s]
      /\ v[a] = f[a].order.qty /\ v[a] \in Nat
  BY <1>1
<1>3. QtyIn(f, T) = SumFunctionOnSet(v, T) /\ QtyIn(f, sales) = SumFunctionOnSet(u, sales)
  BY Zenon DEF QtyIn
<1> HIDE DEF u, v
<1>4. SumFunctionOnSet(v, T) = SumFunctionOnSet(v, sales) + v[a]
  BY <1>2, SumAdd
<1>5. SumFunctionOnSet(u, sales) = SumFunctionOnSet(v, sales)
  BY <1>2, SumSame
<1>6. SumFunctionOnSet(u, sales) \in Nat
  BY <1>2, SumNat
<1>7. IsFiniteSet(T)
  BY FS_AddElement
<1> QED
  BY <1>2, <1>3, <1>4, <1>5, <1>6, <1>7

\* The orders behind the sales that exist.
LEMMA Orders ==
  ASSUME SalesIInv
  PROVE  /\ \A s \in Existing : sale[s].order \in Order
         /\ sold \subseteq Existing /\ Existing \subseteq Sale
BY Rows DEF SalesIInv, SoldStay, Existing

\* Requests that move no goods.
LEMMA GoodsFrame ==
  ASSUME SalesIInv, Goods, Steady, UNCHANGED <<stock, sold, restocked>>
  PROVE  Goods'
<1>1. /\ IsFiniteSet(sold \ restocked) /\ IsFiniteSet(restocked \ sold)
      /\ sold \ restocked \subseteq Existing /\ restocked \ sold \subseteq Existing
  BY Orders, FS_Difference DEF Goods
<1>2. /\ QtyIn(sale', sold \ restocked) = QtyIn(sale, sold \ restocked)
      /\ QtyIn(sale', restocked \ sold) = QtyIn(sale, restocked \ sold)
  <2>1. /\ \A s \in sold \ restocked : sale'[s].order = sale[s].order
        /\ \A s \in restocked \ sold : sale'[s].order = sale[s].order
    BY <1>1 DEF Steady
  <2> QED
    BY <1>1, <2>1, QtySame
<1>3. GoodsAccounted
  BY DEF Goods
<1>4. GoodsAccounted'
  BY <1>2, <1>3, QtyOfIsQtyIn, Zenon DEF GoodsAccounted
<1> QED
  BY <1>4 DEF Goods, Steady

\* A new sale takes its goods when it is completed.
LEMMA CreateSaleGoods ==
  ASSUME SalesIInv, Goods, NEW s \in Sale, NEW status \in Status,
         NEW order \in Order, NEW paid \in Prepaid, CreateSale(s, status, order, paid)
  PROVE  Goods'
<1> DEFINE row == [status |-> status, order |-> order, paid |-> paid,
                   due |-> DueOf(Total(order), paid)]
           A == sold \ restocked
           B == restocked \ sold
<1>1. /\ sale[s] = NoSale
      /\ sale' = [sale EXCEPT ![s] = row]
      /\ stock' = IF status = "Completed" THEN stock - order.qty ELSE stock
      /\ sold' = IF status = "Completed" THEN sold \cup {s} ELSE sold
      /\ restocked' = restocked
  BY DEF CreateSale, Deducts
<1>2. row.order = order
  OBVIOUS
<1> HIDE DEF row
<1>3. /\ sale \in [Sale -> SaleRow \cup {NoSale}]
      /\ s \notin Existing
  BY <1>1 DEF SalesIInv, SalesTypeOK, Existing
<1>4. /\ sale'[s] = row /\ \A t \in Existing : sale'[t] = sale[t]
  BY <1>1, <1>3, Orders
<1>5. /\ IsFiniteSet(A) /\ IsFiniteSet(B) /\ A \subseteq Existing /\ B \subseteq Existing
      /\ \A t \in A \cup B : sale'[t].order = sale[t].order /\ sale[t].order \in Order
      /\ restocked \subseteq Existing /\ sold \subseteq Existing
      /\ IsFiniteSet(sold) /\ IsFiniteSet(restocked)
  BY <1>4, Orders, FS_Difference DEF Goods
<1>6. GoodsAccounted
  BY DEF Goods
<1>7. QtyIn(sale', A) = QtyIn(sale, A) /\ QtyIn(sale', B) = QtyIn(sale, B)
  BY <1>5, QtySame
<1>8. GoodsAccounted'
  <2>1. CASE status = "Completed"
    <3>1. sold' \ restocked' = A \cup {s} /\ restocked' \ sold' = B /\ s \notin A
      BY <1>1, <1>3, <1>5, <2>1
    <3>2. \A t \in A \cup {s} : sale'[t].order \in Order
      BY <1>2, <1>4, <1>5
    <3> HIDE DEF A, B
    <3>3. /\ QtyIn(sale', A \cup {s}) = QtyIn(sale', A) + sale'[s].order.qty
          /\ QtyIn(sale', A) \in Nat /\ sale'[s].order.qty \in Nat
      BY <1>5, <3>1, <3>2, QtyMore
    <3>4. QtyIn(sale', sold' \ restocked') = QtyIn(sale, A) + order.qty
          /\ QtyIn(sale', restocked' \ sold') = QtyIn(sale, B)
          /\ QtyIn(sale, A) \in Nat /\ order.qty \in Nat
      BY <1>2, <1>4, <1>7, <3>1, <3>3, Zenon
    <3>5. QtyIn(sale, B) \in Nat
      <4>1. IsFiniteSet(B) /\ \A t \in B : sale[t].order \in Order
        BY <1>5
      <4> QED
        BY <4>1, QtyNat
    <3>6. stock' = stock - order.qty /\ Opening \in Nat
      BY <1>1, <2>1, SalesAssumption
    <3>7. stock = Opening - QtyIn(sale, A) + QtyIn(sale, B)
      BY <1>6, QtyOfIsQtyIn, Zenon DEF GoodsAccounted, A, B
    <3>8. stock' = Opening - (QtyIn(sale, A) + order.qty) + QtyIn(sale, B)
      BY <3>4, <3>5, <3>6, <3>7
    <3> QED
      BY <3>4, <3>8, QtyOfIsQtyIn, Zenon
  <2>2. CASE status # "Completed"
    <3>1. stock' = stock /\ sold' = sold /\ restocked' = restocked
      BY <1>1, <2>2
    <3> QED
      BY <1>6, <1>7, <3>1, QtyOfIsQtyIn, Zenon DEF GoodsAccounted
  <2> QED
    BY <2>1, <2>2
<1>9. IsFiniteSet(sold') /\ IsFiniteSet(restocked')
  BY <1>1, <1>5, FS_AddElement
<1>10. restocked' \subseteq Existing' /\ \A t \in restocked' : sale'[t].status = "Returned"
  BY <1>1, <1>4, <1>5 DEF Goods, Existing
<1> QED
  BY <1>8, <1>9, <1>10 DEF Goods

\* A return may bring goods back, once.
LEMMA ProcessReturnGoods ==
  ASSUME SalesIInv, Goods, NEW s \in Sale, NEW restock \in BOOLEAN, ProcessReturn(s, restock)
  PROVE  Goods'
<1> DEFINE row == [Refreshed(sale[s], received[s]) EXCEPT !.status = "Returned"]
           A == sold \ restocked
           B == restocked \ sold
           qty == sale[s].order.qty
<1>1. /\ sale[s] # NoSale /\ sale[s].status # "Returned"
      /\ sale' = [sale EXCEPT ![s] = row]
      /\ stock' = IF restock THEN stock + qty ELSE stock
      /\ restocked' = IF restock THEN restocked \cup {s} ELSE restocked
      /\ sold' = sold
  BY DEF ProcessReturn
<1>2. /\ s \in Existing /\ sale[s] \in SaleRow /\ received[s] \in Int
      /\ sale \in [Sale -> SaleRow \cup {NoSale}]
  BY <1>1, Rows DEF SalesIInv, SalesTypeOK
<1>3. row \in SaleRow /\ row.order = sale[s].order /\ row.status = "Returned"
  BY <1>2, RefreshedRow DEF SaleRow, Status
<1>4. row # NoSale
  BY <1>3, RowExists
<1> HIDE DEF row
<1>5. /\ sale'[s] = row /\ \A t \in Existing \ {s} : sale'[t] = sale[t]
      /\ Existing' = Existing /\ Existing \subseteq Sale
  BY <1>1, <1>2, <1>4 DEF Existing
<1>6. \A t \in Existing : sale'[t].order = sale[t].order /\ sale[t].order \in Order
  BY <1>3, <1>5, Orders
<1>7. /\ restocked \subseteq Existing /\ sold \subseteq Existing /\ s \notin restocked
      /\ IsFiniteSet(sold) /\ IsFiniteSet(restocked) /\ GoodsAccounted
      /\ \A t \in restocked : sale[t].status = "Returned"
  BY <1>1, Orders DEF Goods
<1>8. \A C : IsFiniteSet(C) /\ C \subseteq Existing => QtyIn(sale', C) = QtyIn(sale, C)
  <2> TAKE C
  <2> HAVE IsFiniteSet(C) /\ C \subseteq Existing
  <2>1. \A t \in C : sale'[t].order = sale[t].order
    BY <1>6
  <2> QED
    BY <2>1, QtySame
<1>9. stock = Opening - QtyIn(sale, A) + QtyIn(sale, B)
  BY <1>7, QtyOfIsQtyIn, Zenon DEF GoodsAccounted
<1>10. /\ IsFiniteSet(A) /\ IsFiniteSet(B) /\ A \subseteq Existing /\ B \subseteq Existing
       /\ \A t \in A \cup B : sale[t].order \in Order
  BY <1>6, <1>7, FS_Difference
<1>11. QtyIn(sale, A) \in Nat /\ QtyIn(sale, B) \in Nat /\ Opening \in Nat
  <2>1. (\A t \in A : sale[t].order \in Order) /\ \A t \in B : sale[t].order \in Order
    BY <1>10
  <2> HIDE DEF A, B
  <2> QED
    BY <1>10, <2>1, QtyNat, SalesAssumption
<1>12. GoodsAccounted'
  <2>1. CASE restock = FALSE
    <3>1. stock' = stock /\ sold' \ restocked' = A /\ restocked' \ sold' = B
      BY <1>1, <2>1
    <3>2. QtyIn(sale', A) = QtyIn(sale, A) /\ QtyIn(sale', B) = QtyIn(sale, B)
      BY <1>8, <1>10
    <3> HIDE DEF A, B
    <3> QED
      BY <1>9, <3>1, <3>2, QtyOfIsQtyIn, Zenon
  <2>2. CASE restock = TRUE /\ s \in sold
    <3> DEFINE C == A \ {s}
    <3>1. /\ stock' = stock + qty /\ sold' \ restocked' = C /\ restocked' \ sold' = B
          /\ C \cup {s} = A /\ s \notin C
      BY <1>1, <1>7, <2>2
    <3>2. IsFiniteSet(C) /\ C \subseteq Existing /\ \A t \in C \cup {s} : sale[t].order \in Order
      BY <1>10, <3>1, FS_RemoveElement
    <3> HIDE DEF A, B, C
    <3>3. /\ QtyIn(sale, C \cup {s}) = QtyIn(sale, C) + sale[s].order.qty
          /\ QtyIn(sale, C) \in Nat /\ sale[s].order.qty \in Nat
      BY <3>1, <3>2, QtyMore
    <3> HIDE DEF qty
    <3>4. QtyIn(sale, A) = QtyIn(sale, C) + qty /\ QtyIn(sale, C) \in Nat /\ qty \in Nat
      BY <3>1, <3>3, Zenon DEF qty
    <3>5. QtyIn(sale', C) = QtyIn(sale, C) /\ QtyIn(sale', B) = QtyIn(sale, B)
      BY <1>8, <1>10, <3>2
    <3>6. stock' = Opening - QtyIn(sale, C) + QtyIn(sale, B)
      BY <1>9, <1>11, <3>1, <3>4
    <3> QED
      BY <3>1, <3>5, <3>6, QtyOfIsQtyIn, Zenon
  <2>3. CASE restock = TRUE /\ s \notin sold
    <3>1. /\ stock' = stock + qty /\ sold' \ restocked' = A /\ restocked' \ sold' = B \cup {s}
          /\ s \notin B
      BY <1>1, <1>7, <2>3
    <3>2. \A t \in B \cup {s} : sale[t].order \in Order
      BY <1>2, <1>6, <1>10
    <3> HIDE DEF A, B
    <3>3. /\ QtyIn(sale, B \cup {s}) = QtyIn(sale, B) + sale[s].order.qty
          /\ sale[s].order.qty \in Nat /\ IsFiniteSet(B \cup {s})
      BY <1>10, <3>1, <3>2, QtyMore
    <3> HIDE DEF qty
    <3>4. QtyIn(sale, B \cup {s}) = QtyIn(sale, B) + qty /\ qty \in Nat
      BY <3>3, Zenon DEF qty
    <3>5. QtyIn(sale', A) = QtyIn(sale, A) /\ QtyIn(sale', B \cup {s}) = QtyIn(sale, B \cup {s})
      BY <1>2, <1>8, <1>10, <3>3
    <3>6. stock' = Opening - QtyIn(sale, A) + QtyIn(sale, B \cup {s})
      BY <1>9, <1>11, <3>1, <3>4
    <3> QED
      BY <3>1, <3>5, <3>6, QtyOfIsQtyIn, Zenon
  <2> QED
    BY <2>1, <2>2, <2>3
<1>13. IsFiniteSet(sold') /\ IsFiniteSet(restocked')
  BY <1>1, <1>7, FS_AddElement
<1>14. restocked' \subseteq Existing' /\ \A t \in restocked' : sale'[t].status = "Returned"
  BY <1>1, <1>2, <1>3, <1>5, <1>7
<1> QED
  BY <1>12, <1>13, <1>14 DEF Goods

\* The requests after which every sale is the one it was, up to its status and totals.
LEMMA RequestsSteady ==
  ASSUME SalesIInv,
         \/ PostNothing \/ PostEntry \/ PostLine \/ TellEntry
         \/ \E s \in Sale, amount \in 1 .. MaxPaid : InsertPayment(s, amount)
         \/ RefreshTotals \/ TellPayment \/ TellTotals
         \/ \E s \in Sale, status \in Editable : UpdateSale(s, status)
         \/ \E s \in Sale : CancelSale(s)
         \/ TellStatus \/ Cut \/ UNCHANGED salesVars
  PROVE  Steady /\ UNCHANGED <<stock, sold, restocked, chart>>
<1>1. CASE \/ PostNothing \/ PostEntry \/ PostLine \/ TellEntry
           \/ \E s \in Sale, amount \in 1 .. MaxPaid : InsertPayment(s, amount)
           \/ TellPayment \/ TellTotals \/ TellStatus \/ Cut \/ UNCHANGED salesVars
  <2>1. UNCHANGED <<sale, stock, sold, restocked, chart>>
    BY <1>1 DEF PostNothing, PostEntry, PostLine, TellEntry, InsertPayment, TellPayment,
                TellTotals, TellStatus, Cut, salesVars
  <2> QED
    BY <2>1 DEF Steady, Existing
<1>2. CASE RefreshTotals
  <2> DEFINE s == job.sale
             row == Refreshed(sale[s], received[s])
  <2>1. /\ s \in Sale /\ sale[s] # NoSale /\ sale \in [Sale -> SaleRow \cup {NoSale}]
        /\ sale' = [sale EXCEPT ![s] = row]
        /\ UNCHANGED <<stock, sold, restocked, chart>>
    BY <1>2 DEF RefreshTotals, At, SalesIInv, SalesTypeOK, Requests
  <2>2. row \in SaleRow /\ row.order = sale[s].order /\ row.status = sale[s].status /\ row # NoSale
    BY <2>1, Rows, RefreshedRow, RowExists
  <2> HIDE DEF row, s
  <2> QED
    BY <2>1, <2>2 DEF Steady, Existing
<1>3. ASSUME NEW s \in Sale, NEW status \in Status, sale[s] # NoSale,
             sale[s].status # "Returned",
             sale' = [sale EXCEPT ![s].status = status]
      PROVE  Steady
  <2> DEFINE row == [sale[s] EXCEPT !.status = status]
  <2>1. sale \in [Sale -> SaleRow \cup {NoSale}] /\ sale[s] \in SaleRow
    BY <1>3, Rows DEF SalesIInv, SalesTypeOK
  <2>2. row \in SaleRow /\ row.order = sale[s].order
    BY <2>1 DEF SaleRow
  <2>3. row # NoSale /\ sale' = [sale EXCEPT ![s] = row]
    BY <1>3, <2>2, RowExists
  <2> HIDE DEF row
  <2> QED
    BY <1>3, <2>1, <2>2, <2>3 DEF Steady, Existing
<1>4. ASSUME NEW s \in Sale, NEW status \in Editable, UpdateSale(s, status)
      PROVE  Steady /\ UNCHANGED <<stock, sold, restocked, chart>>
  BY <1>3, <1>4 DEF UpdateSale, Editable, Status
<1>5. ASSUME NEW s \in Sale, CancelSale(s)
      PROVE  Steady /\ UNCHANGED <<stock, sold, restocked, chart>>
  BY <1>3, <1>5 DEF CancelSale, Cancellable, Status
<1> QED
  BY <1>1, <1>2, <1>4, <1>5

\* No request disturbs the goods.
LEMMA GoodsNext == SalesIInv /\ Goods /\ [Next]_salesVars => Goods'
<1> SUFFICES ASSUME SalesIInv, Goods, [Next]_salesVars PROVE Goods'
  OBVIOUS
<1>1. ASSUME NEW s \in Sale, NEW status \in Status,
             NEW order \in Order, NEW paid \in Prepaid,
             CreateSale(s, status, order, paid)
      PROVE  Goods'
  BY <1>1, CreateSaleGoods
<1>2. ASSUME NEW s \in Sale, NEW restock \in BOOLEAN, ProcessReturn(s, restock)
      PROVE  Goods'
  BY <1>2, ProcessReturnGoods
<1>3. CASE Steady /\ UNCHANGED <<stock, sold, restocked, chart>>
  BY <1>3, GoodsFrame
<1> QED
  BY <1>1, <1>2, <1>3, RequestsSteady DEF Next

\* At the start nothing was sold.
LEMMA GoodsInit == Init => Goods
<1> SUFFICES ASSUME Init PROVE Goods
  OBVIOUS
<1>1. /\ sold = {} /\ restocked = {} /\ stock = Opening /\ Opening \in Nat
      /\ IsFiniteSet({})
  BY SalesAssumption, FS_EmptySet DEF Init
<1>2. QtyIn(sale, {}) = 0
  BY SumEmpty DEF QtyIn
<1>3. GoodsAccounted
  <2>1. sold \ restocked = {} /\ restocked \ sold = {}
    BY <1>1
  <2>2. QtyOf(sold \ restocked) = 0 /\ QtyOf(restocked \ sold) = 0
    BY <1>2, <2>1, QtyOfIsQtyIn, Zenon
  <2> QED
    BY <1>1, <2>2 DEF GoodsAccounted
<1> QED
  BY <1>1, <1>3 DEF Goods

\* A sale is in the books as before, if the request is not about its journal.
LEMMA SameBook ==
  ASSUME Books, NEW s \in Sale,
         entry'[s] = entry[s], sale'[s].order = sale[s].order \/ s \notin sold,
         s \in entryTold => s \in entryTold', s \in sold' <=> s \in sold,
         s \in cut => s \in cut', s \in negative => s \in negative', chart' = chart,
         ~Busy(s, {"post", "line", "tellEntry"}),
         ~Busy(s, {"post", "line", "tellEntry"})'
  PROVE  BookOf(s)'
<1>1. /\ ~Busy(s, {"post"}) /\ ~Busy(s, {"line"}) /\ ~Busy(s, {"line", "tellEntry"})
      /\ ~Busy(s, {"post"})' /\ ~Busy(s, {"line"})' /\ ~Busy(s, {"line", "tellEntry"})'
  BY DEF Busy
<1>2. BookOf(s)
  BY DEF Books
<1>3. CASE s \notin sold
  BY <1>2, <1>3 DEF BookOf
<1>4. CASE s \in sold /\ sale'[s].order = sale[s].order
  <2>1. Charged(sale'[s].order) = Charged(sale[s].order) /\ (Postable(s)' => Postable(s))
    BY <1>4 DEF Postable, TaxAccount
  <2> QED
    BY <1>1, <1>2, <1>4, <2>1 DEF BookOf
<1> QED
  BY <1>3, <1>4

\* Requests that are not about the journal.
LEMMA BooksFrame ==
  ASSUME SalesIInv, Books, Steady,
         UNCHANGED <<entry, entryTold, sold, negative, chart, cut>>,
         job.step \notin {"post", "line", "tellEntry"},
         job'.step \notin {"post", "line", "tellEntry"}
  PROVE  Books'
<1>1. \A s : ~Busy(s, {"post", "line", "tellEntry"}) /\ ~Busy(s, {"post", "line", "tellEntry"})'
  BY DEF Busy
<1>2. \A s \in Sale : sale'[s].order = sale[s].order \/ s \notin sold
  BY Orders DEF Steady
<1>3. \A s \in Sale : BookOf(s)'
  BY <1>1, <1>2, SameBook
<1>4. Posting'
  BY DEF Posting, At
<1> QED
  BY <1>3, <1>4 DEF Books, Steady

\* So is a sale after a return.
LEMMA ReturnSteady ==
  ASSUME SalesIInv, NEW s \in Sale, NEW restock \in BOOLEAN, ProcessReturn(s, restock)
  PROVE  Steady
<1> DEFINE row == [Refreshed(sale[s], received[s]) EXCEPT !.status = "Returned"]
<1>1. /\ sale[s] # NoSale /\ sale' = [sale EXCEPT ![s] = row]
      /\ sale \in [Sale -> SaleRow \cup {NoSale}] /\ sale[s] \in SaleRow /\ received[s] \in Int
  BY Rows DEF ProcessReturn, SalesIInv, SalesTypeOK
<1>2. row \in SaleRow /\ row.order = sale[s].order /\ row.status = "Returned"
  BY <1>1, RefreshedRow DEF SaleRow, Status
<1>3. row # NoSale
  BY <1>2, RowExists
<1> HIDE DEF row
<1> QED
  BY <1>1, <1>2, <1>3 DEF Steady, Existing

\* A new sale has nothing in the books.
LEMMA CreateSaleBooks ==
  ASSUME SalesIInv, Books, NEW s \in Sale, NEW status \in Status,
         NEW order \in Order, NEW paid \in Prepaid, CreateSale(s, status, order, paid)
  PROVE  Books'
<1> DEFINE row == [status |-> status, order |-> order, paid |-> paid,
                   due |-> DueOf(Total(order), paid)]
<1>1. /\ job.step = "none" /\ sale[s] = NoSale /\ paid <= Total(order)
      /\ sale' = [sale EXCEPT ![s] = row]
      /\ sold' = IF status = "Completed" THEN sold \cup {s} ELSE sold
      /\ negative' = IF paid < 0 THEN negative \cup {s} ELSE negative
      /\ job' = [job EXCEPT !.step = "post", !.sale = s]
      /\ UNCHANGED <<entry, entryTold, chart, cut>>
      /\ sale \in [Sale -> SaleRow \cup {NoSale}] /\ job \in Job
  BY DEF CreateSale, At, Go, SalesIInv, SalesTypeOK
<1>2. row \in SaleRow
  <2>1. paid \in Int
    BY SalesAssumption
  <2> QED
    BY <2>1, OrderTotal, DueNatural DEF SaleRow
<1>3. /\ row.status = status /\ row.order = order /\ row.paid = paid
      /\ row.due = DueOf(Total(order), paid) /\ row # NoSale
  BY <1>2, RowExists
<1> HIDE DEF row
<1>4. sale'[s] = row /\ \A t \in Sale \ {s} : sale'[t] = sale[t]
  BY <1>1
<1>5. job'.step = "post" /\ job'.sale = s
  BY <1>1 DEF Job
<1>6. s \notin sold /\ sold \subseteq Sale \ {s} /\ entry[s] = NoEntry /\ s \notin Existing
  BY <1>1, Orders DEF Books, BookOf, Existing
<1>7. /\ \A t : ~Busy(t, {"line", "tellEntry", "post"})
      /\ \A t \in Sale \ {s} : ~Busy(t, {"post", "line", "tellEntry"})'
      /\ Busy(s, {"post"})'
  BY <1>1, <1>5 DEF Busy
<1>8. Posting'
  BY <1>1, <1>3, <1>4, <1>5, <1>6 DEF Posting, At, Editable
<1>9. \A t \in Sale \ {s} : BookOf(t)'
  BY <1>1, <1>4, <1>7, SameBook
<1>10. BookOf(s)'
  BY <1>1, <1>6, <1>7 DEF BookOf
<1>11. cut' \subseteq Existing'
  BY <1>1, <1>3, <1>4 DEF Books, Existing
<1> QED
  BY <1>8, <1>9, <1>10, <1>11 DEF Books

\* The lines of a sale that is about to be posted, under Posts.
LEMMA PostedLines ==
  ASSUME SalesIInv, Books, At("post")
  PROVE  /\ job.sale \in Existing /\ job.sale \in Sale
         /\ Lines(sale[job.sale]) \in Seq(Line)
         /\ Posts(sale[job.sale]) /\ Valid(Lines(sale[job.sale])) =>
              /\ job.sale \in sold
              /\ Debits(Lines(sale[job.sale])) = Charged(sale[job.sale].order)
              /\ Credits(Lines(sale[job.sale])) = Charged(sale[job.sale].order)
         /\ job.sale \in sold /\ Postable(job.sale) =>
              Posts(sale[job.sale]) /\ Valid(Lines(sale[job.sale]))
<1> DEFINE s == job.sale
           row == sale[s]
           order == row.order
           debit == PaidBooked(row.paid) + row.due
           credit == order.amount + TaxBooked(order)
<1>1. s \in Sale /\ s \in Existing /\ row \in SaleRow /\ row.paid \in Int
  BY Rows DEF SalesIInv, Requests, At
<1>2. /\ row.paid <= Total(order) /\ row.due = DueOf(Total(order), row.paid)
      /\ row.status = "Completed" <=> s \in sold
      /\ row.paid < 0 => s \in negative
  BY DEF Books, Posting
<1>3. /\ Part(Lines(row), debit, credit)
      /\ Positive(Lines(row)) <=> order.amount > 0
      /\ row.paid > 0 \/ row.due > 0 => Len(Lines(row)) >= 2
  BY <1>1, LinesAddUp
<1>4. /\ debit = credit => credit = Charged(order)
      /\ order.tax >= 0 /\ row.paid >= 0 /\ TaxAccount(order) => debit = credit
      /\ order.amount > 0 /\ order.tax >= 0 /\ row.paid >= 0 => row.paid > 0 \/ row.due > 0
  BY <1>1, <1>2, LinesBalance
<1> HIDE DEF debit, credit
<1>5. Valid(Lines(row)) <=> debit = credit /\ Positive(Lines(row))
  BY <1>3, Zenon DEF Valid, Part, Positive
<1>6. ASSUME Posts(row), Valid(Lines(row))
      PROVE  s \in sold /\ Debits(Lines(row)) = Charged(order)
             /\ Credits(Lines(row)) = Charged(order)
  BY <1>2, <1>3, <1>4, <1>5, <1>6, Zenon DEF Part, Posts
<1>7. ASSUME s \in sold, Postable(s) PROVE Posts(row) /\ Valid(Lines(row))
  <2>1. /\ order.amount > 0 /\ order.tax >= 0 /\ TaxAccount(order) /\ s \notin negative
    BY <1>7 DEF Postable
  <2>2. row.paid >= 0
    BY <1>1, <1>2, <2>1
  <2>3. debit = credit /\ Len(Lines(row)) >= 2 /\ Positive(Lines(row))
    BY <1>3, <1>4, <2>1, <2>2, Zenon
  <2> QED
    BY <1>2, <1>5, <1>7, <2>3, Zenon DEF Posts, Postable
<1> QED
  BY <1>1, <1>3, <1>6, <1>7 DEF Part

\* The books, where they are right about the sale of the request.
LEMMA BooksOfAll ==
  ASSUME Books, NEW s \in Sale, s \in Existing,
         UNCHANGED <<sale, sold, negative, chart>>, cut' \in {cut, cut \cup {s}},
         job.sale = s, job'.step = "none" \/ job'.sale = s, ~At("post")',
         \A t \in Sale : t # s => entry'[t] = entry[t] /\ (t \in entryTold => t \in entryTold'),
         BookOf(s)'
  PROVE  Books'
<1>1. \A t \in Sale \ {s} : /\ ~Busy(t, {"post", "line", "tellEntry"})
                            /\ ~Busy(t, {"post", "line", "tellEntry"})'
  BY DEF Busy
<1>2. \A t \in Sale \ {s} : BookOf(t)'
  BY <1>1, SameBook
<1>3. Posting'
  BY DEF Posting
<1>4. cut' \subseteq Existing'
  BY DEF Books, Existing
<1> QED
  BY <1>2, <1>3, <1>4 DEF Books

\* A sale that no journal is posted for could not have one.
LEMMA PostNothingBooks == SalesIInv /\ Books /\ PostNothing => Books'
<1> SUFFICES ASSUME SalesIInv, Books, PostNothing PROVE Books'
  OBVIOUS
<1>0. PICK s \in Sale : s = job.sale /\ s \in Existing
  BY DEF PostNothing, SalesIInv, Requests, At, Existing
<1>1. /\ job.step = "post" /\ At("post") /\ job'.step = "none"
      /\ Posts(sale[s]) => ~Valid(Lines(sale[s]))
      /\ UNCHANGED <<sale, entry, entryTold, chart, sold, negative, cut>>
  BY <1>0 DEF PostNothing, At, NoJob
<1>2. s \in Existing /\ s \in Sale /\ (s \in sold => ~Postable(s))
  BY <1>0, <1>1, PostedLines
<1>3. /\ ~Busy(s, {"line"})' /\ ~Busy(s, {"line", "tellEntry"})'
      /\ ~Busy(s, {"line"}) /\ ~Busy(s, {"line", "tellEntry"}) /\ ~At("post")'
  BY <1>0, <1>1 DEF Busy, At
<1>4. BookOf(s)
  BY <1>2 DEF Books
<1>5. Postable(s)' <=> Postable(s)
  BY <1>0, <1>1 DEF Postable, TaxAccount
<1>6. s = job.sale
  BY <1>0
<1>7. BookOf(s)'
  BY <1>0, <1>1, <1>2, <1>3, <1>4, <1>5 DEF BookOf
<1> QED
  BY <1>0, <1>1, <1>2, <1>3, <1>6, <1>7, BooksOfAll

\* The header of the entry: all its lines are still to be inserted.
LEMMA PostEntryBooks == SalesIInv /\ Books /\ PostEntry => Books'
<1> SUFFICES ASSUME SalesIInv, Books, PostEntry PROVE Books'
  OBVIOUS
<1>0. PICK s \in Sale : s = job.sale /\ s \in Existing
  BY DEF PostEntry, SalesIInv, Requests, At, Existing
<1> DEFINE lines == Lines(sale[s])
<1>1. /\ job.step = "post" /\ At("post") /\ Posts(sale[s]) /\ Valid(lines)
      /\ entry' = [entry EXCEPT ![s] = <<>>]
      /\ job' = [job EXCEPT !.step = "line", !.lines = lines]
      /\ UNCHANGED <<sale, entryTold, chart, sold, negative, cut>>
      /\ job \in Job /\ entry \in [Sale -> Seq(Line) \cup {NoEntry}]
  BY <1>0 DEF PostEntry, At, SalesIInv, SalesTypeOK
<1>2. /\ s \in Existing /\ s \in Sale /\ lines \in Seq(Line) /\ s \in sold
      /\ Debits(lines) = Charged(sale[s].order) /\ Credits(lines) = Charged(sale[s].order)
  BY <1>0, <1>1, PostedLines
<1> HIDE DEF lines
<1>3. job'.step = "line" /\ job'.sale = s /\ job'.lines = lines /\ s = job.sale
  BY <1>0, <1>1 DEF Job
<1>4. Busy(s, {"line"})' /\ Busy(s, {"line", "tellEntry"})' /\ ~At("post")'
  BY <1>0, <1>1, <1>3 DEF Busy, At
<1>5. entry'[s] = <<>> /\ \A t \in Sale : t # s => entry'[t] = entry[t]
  BY <1>0, <1>1, <1>2
<1>6. /\ Debits(entry'[s]) + Debits(job'.lines) = Charged(sale'[s].order)
      /\ Credits(entry'[s]) + Credits(job'.lines) = Charged(sale'[s].order)
  <2>1. Debits(lines) \in Int /\ Credits(lines) \in Int
    BY <1>2, ColumnsSum
  <2>2. \A n \in Int : 0 + n = n
    OBVIOUS
  <2>3. 0 + Debits(lines) = Debits(lines) /\ 0 + Credits(lines) = Credits(lines)
    BY <2>1, <2>2, Zenon
  <2>4. sale' = sale
    BY <1>0, <1>1
  <2> QED
    BY <1>2, <1>3, <1>5, <2>3, <2>4, ColumnsNone, Zenon
<1>7. entry'[s] # NoEntry
  <2>1. <<>> \in Seq(Line)
    OBVIOUS
  <2> QED
    BY <1>5, <2>1, SalesAssumption
<1>8. BookOf(s)'
  BY <1>0, <1>1, <1>2, <1>4, <1>6, <1>7 DEF BookOf
<1> QED
  BY <1>0, <1>1, <1>2, <1>3, <1>4, <1>5, <1>8, BooksOfAll

\* A sequence without a length is empty.
LEMMA LengthZero == ASSUME NEW S, NEW q \in Seq(S), Len(q) = 0 PROVE q = <<>>
OBVIOUS

\* Nothing follows the last line.
LEMMA TailOfOne == ASSUME NEW S, NEW q \in Seq(S), Len(q) = 1 PROVE Tail(q) = <<>>
<1>1. Tail(q) \in Seq(S) /\ Len(Tail(q)) = 0
  OBVIOUS
<1> QED
  BY <1>1, LengthZero

\* A line moves from the lines to be inserted to those of the entry.
LEMMA PostLineBooks == SalesIInv /\ Books /\ PostLine => Books'
<1> SUFFICES ASSUME SalesIInv, Books, PostLine PROVE Books'
  OBVIOUS
<1>0. PICK s \in Sale : s = job.sale /\ s \in Existing
  BY DEF PostLine, SalesIInv, Requests, At, Existing
<1> DEFINE total == Charged(sale[s].order)
           more == Append(entry[s], Head(job.lines))
           rest == Tail(job.lines)
<1>1. /\ job.step = "line"
      /\ entry' = [entry EXCEPT ![s] = more]
      /\ job' = [job EXCEPT !.lines = rest,
                            !.step = IF Len(job.lines) = 1 THEN "tellEntry" ELSE @]
      /\ UNCHANGED <<sale, entryTold, chart, sold, negative, cut>>
      /\ job \in Job /\ entry \in [Sale -> Seq(Line) \cup {NoEntry}]
  BY <1>0 DEF PostLine, At, SalesIInv, SalesTypeOK
<1>2. /\ s \in Sale /\ s \in Existing
      /\ job.lines \in Seq(Line) /\ job.lines # <<>>
      /\ entry[s] \in Seq(Line) /\ entry[s] # NoEntry /\ s \in sold
  <2>1. job.lines \in Seq(Line) /\ job.lines # <<>> /\ entry[s] # NoEntry
    BY <1>0, <1>1 DEF SalesIInv, Requests, At, Job
  <2>2. entry[s] \in Seq(Line)
    BY <1>0, <1>1, <2>1
  <2>3. s \in sold
    BY <1>0, <2>1 DEF Books, BookOf
  <2> QED
    BY <1>0, <2>1, <2>2, <2>3
<1>3. /\ more \in Seq(Line) /\ rest \in Seq(Line)
      /\ Len(job.lines) = 1 => rest = <<>>
  <2>1. Head(job.lines) \in Line /\ rest \in Seq(Line)
    BY <1>2
  <2>2. Len(job.lines) = 1 => rest = <<>>
    BY <1>2, TailOfOne
  <2> QED
    BY <1>2, <2>1, <2>2
<1>4. /\ job'.sale = s /\ job'.lines = rest /\ s = job.sale
      /\ \/ job'.step = "tellEntry" /\ rest = <<>>
         \/ job'.step = "line"
  BY <1>0, <1>1, <1>3 DEF Job
<1>5. entry'[s] = more /\ \A t \in Sale : t # s => entry'[t] = entry[t]
  BY <1>0, <1>1, <1>2
<1>6. /\ Debits(more) + Debits(rest) = Debits(entry[s]) + Debits(job.lines)
      /\ Credits(more) + Credits(rest) = Credits(entry[s]) + Credits(job.lines)
  BY <1>2, ColumnsMove
<1>7. s \notin cut =>
        /\ Debits(more) + Debits(rest) = total
        /\ Credits(more) + Credits(rest) = total
  <2>1. Busy(s, {"line"})
    BY <1>0, <1>1 DEF Busy
  <2>2. s \notin cut =>
          /\ Debits(entry[s]) + Debits(job.lines) = total
          /\ Credits(entry[s]) + Credits(job.lines) = total
    BY <1>2, <2>1 DEF Books, BookOf
  <2> QED
    BY <1>6, <2>2, Zenon
<1> HIDE DEF more, rest, total
<1>8. s \notin cut /\ rest = <<>> => Debits(more) = total /\ Credits(more) = total
  <2>1. Debits(more) \in Int /\ Credits(more) \in Int
    BY <1>3, ColumnsSum
  <2>2. rest = <<>> => Debits(rest) = 0 /\ Credits(rest) = 0
    BY ColumnsNone, Zenon
  <2> QED
    BY <1>7, <2>1, <2>2
<1>9. /\ Busy(s, {"line", "tellEntry"})' /\ ~At("post")'
      /\ ~Busy(s, {"line"})' => rest = <<>>
  BY <1>0, <1>1, <1>4 DEF Busy, At
<1>10. entry'[s] # NoEntry /\ sale' = sale /\ cut' = cut /\ sold' = sold
  BY <1>0, <1>1, <1>3, <1>5, SalesAssumption
<1>11. s \notin cut =>
         /\ Busy(s, {"line"})' =>
              /\ Debits(entry'[s]) + Debits(job'.lines) = Charged(sale'[s].order)
              /\ Credits(entry'[s]) + Credits(job'.lines) = Charged(sale'[s].order)
         /\ ~Busy(s, {"line"})' =>
              /\ Debits(entry'[s]) = Charged(sale'[s].order)
              /\ Credits(entry'[s]) = Charged(sale'[s].order)
  BY <1>4, <1>5, <1>7, <1>8, <1>9, <1>10, Zenon DEF total
<1>12. BookOf(s)'
  BY <1>2, <1>9, <1>10, <1>11 DEF BookOf
<1> QED
  BY <1>0, <1>1, <1>2, <1>4, <1>5, <1>9, <1>12, BooksOfAll

\* The outbox row of the entry.
LEMMA TellEntryBooks == SalesIInv /\ Books /\ TellEntry => Books'
<1> SUFFICES ASSUME SalesIInv, Books, TellEntry PROVE Books'
  OBVIOUS
<1>0. PICK s \in Sale : s = job.sale /\ s \in Existing
  BY DEF TellEntry, SalesIInv, Requests, At, Existing
<1>1. /\ job.step = "tellEntry" /\ job'.step = "none" /\ s = job.sale
      /\ entryTold' = entryTold \cup {s}
      /\ UNCHANGED <<sale, entry, chart, sold, negative, cut>>
  BY <1>0 DEF TellEntry, At, NoJob
<1>2. s \in Sale /\ s \in Existing
  BY <1>0, <1>1 DEF SalesIInv, Requests, Existing
<1>3. /\ ~Busy(s, {"line"})' /\ ~Busy(s, {"line", "tellEntry"})'
      /\ ~Busy(s, {"line"}) /\ ~Busy(s, {"post"}) /\ ~At("post")'
  BY <1>0, <1>1 DEF Busy, At
<1>4. BookOf(s) /\ (Postable(s)' <=> Postable(s))
  BY <1>0, <1>1, <1>2 DEF Books, Postable, TaxAccount
<1>5. BookOf(s)'
  BY <1>0, <1>1, <1>2, <1>3, <1>4 DEF BookOf
<1> QED
  BY <1>0, <1>1, <1>2, <1>3, <1>5, BooksOfAll

\* A sale whose request was cut is out of the claim.
LEMMA CutBooks == SalesIInv /\ Books /\ Cut => Books'
<1> SUFFICES ASSUME SalesIInv, Books, Cut PROVE Books'
  OBVIOUS
<1>0. PICK s \in Sale : s = job.sale /\ s \in Existing
  BY DEF Cut, SalesIInv, Requests, At, Existing
<1>1. /\ job.step # "none" /\ job'.step = "none" /\ cut' = cut \cup {s} /\ s = job.sale
      /\ UNCHANGED <<sale, entry, entryTold, chart, sold, negative>>
  BY <1>0 DEF Cut, NoJob
<1>2. s \in Sale /\ s \in Existing
  BY <1>0, <1>1 DEF SalesIInv, Requests, Existing
<1>3. BookOf(s) /\ ~At("post")'
  BY <1>0, <1>1, <1>2 DEF Books, At
<1>4. BookOf(s)'
  BY <1>0, <1>1, <1>3 DEF BookOf
<1> QED
  BY <1>0, <1>1, <1>2, <1>3, <1>4, BooksOfAll

\* No request disturbs the books.
LEMMA BooksNext == SalesIInv /\ Books /\ [Next]_salesVars => Books'
<1> SUFFICES ASSUME SalesIInv, Books, [Next]_salesVars PROVE Books'
  OBVIOUS
<1>1. ASSUME NEW s \in Sale, NEW status \in Status,
             NEW order \in Order, NEW paid \in Prepaid,
             CreateSale(s, status, order, paid)
      PROVE  Books'
  BY <1>1, CreateSaleBooks
<1>2. CASE PostNothing \/ PostEntry \/ PostLine \/ TellEntry \/ Cut
  BY <1>2, PostNothingBooks, PostEntryBooks, PostLineBooks, TellEntryBooks, CutBooks
<1>3. ASSUME NEW s \in Sale, NEW restock \in BOOLEAN, ProcessReturn(s, restock)
      PROVE  Books'
  <2>1. /\ UNCHANGED <<entry, entryTold, sold, negative, chart, cut>>
        /\ job.step = "none" /\ job'.step = "none"
    BY <1>3 DEF ProcessReturn, At
  <2> QED
    BY <1>3, <2>1, ReturnSteady, BooksFrame
<1>4. ASSUME \/ \E s \in Sale, amount \in 1 .. MaxPaid : InsertPayment(s, amount)
             \/ RefreshTotals \/ TellPayment \/ TellTotals
             \/ \E s \in Sale, status \in Editable : UpdateSale(s, status)
             \/ \E s \in Sale : CancelSale(s)
             \/ TellStatus
      PROVE  Books'
  <2>1. Steady
    BY <1>4, RequestsSteady
  <2>2. job \in Job
    BY DEF SalesIInv, SalesTypeOK
  <2>3. ASSUME NEW s \in Sale, NEW amount \in 1 .. MaxPaid, InsertPayment(s, amount)
        PROVE  OffTheBooks
    BY <2>2, <2>3 DEF InsertPayment, AfterPayment, Job, At, OffTheBooks
  <2>4. ASSUME NEW s \in Sale, NEW status \in Editable, UpdateSale(s, status)
        PROVE  OffTheBooks
    BY <2>2, <2>4 DEF UpdateSale, Go, Job, At, OffTheBooks
  <2>5. ASSUME NEW s \in Sale, CancelSale(s)
        PROVE  OffTheBooks
    BY <2>2, <2>5 DEF CancelSale, Go, Job, At, OffTheBooks
  <2>6. ASSUME RefreshTotals \/ TellPayment PROVE OffTheBooks
    <3>1. /\ UNCHANGED <<entry, entryTold, sold, negative, chart, cut>>
          /\ job.step \in {"refresh", "tellPayment"}
          /\ Go("tellPayment", job.sale) \/ Go("tellTotals", job.sale)
      BY <2>6 DEF RefreshTotals, TellPayment, At
    <3>2. job'.step \in {"tellPayment", "tellTotals"}
      BY <2>2, <3>1 DEF Go, Job
    <3> QED
      BY <3>1, <3>2 DEF OffTheBooks
  <2>7. ASSUME TellTotals \/ TellStatus PROVE OffTheBooks
    <3>1. /\ UNCHANGED <<entry, entryTold, sold, negative, chart, cut>>
          /\ job.step \in {"tellTotals", "tellStatus"}
          /\ job' = NoJob
      BY <2>7 DEF TellTotals, TellStatus, At
    <3> QED
      BY <3>1 DEF NoJob, OffTheBooks
  <2>8. OffTheBooks
    BY <1>4, <2>3, <2>4, <2>5, <2>6, <2>7, Zenon
  <2> QED
    BY <2>1, <2>8, BooksFrame DEF OffTheBooks
<1>5. ASSUME UNCHANGED salesVars PROVE Books'
  <2>1. /\ UNCHANGED <<sale, entry, entryTold, sold, negative, chart, cut, job>>
        /\ \A s, steps : Busy(s, steps)' <=> Busy(s, steps)
    BY <1>5 DEF salesVars, Busy
  <2>2. \A s \in Sale : BookOf(s)'
    <3> SUFFICES ASSUME NEW s \in Sale PROVE BookOf(s)'
      OBVIOUS
    <3>1. BookOf(s) /\ (Postable(s)' <=> Postable(s))
      BY <2>1 DEF Books, Postable, TaxAccount
    <3> QED
      BY <2>1, <3>1 DEF BookOf
  <2>3. Posting' /\ cut' \subseteq Existing'
    BY <2>1 DEF Books, Posting, Existing, At
  <2> QED
    BY <2>2, <2>3 DEF Books
<1> QED
  BY <1>1, <1>2, <1>3, <1>4, <1>5 DEF Next

\* At the start the books are empty.
LEMMA BooksInit == Init => Books
<1> SUFFICES ASSUME Init PROVE Books
  OBVIOUS
<1>1. /\ sold = {} /\ cut = {} /\ job.step = "none" /\ \A s \in Sale : entry[s] = NoEntry
  BY DEF Init, NoJob
<1> QED
  BY <1>1 DEF Books, Posting, BookOf, At

-----------------------------------------------------------------------------
\* Spec keeps the stock and the books right.
LEMMA GoodsAndBooks == Spec => [](SalesIInv /\ Goods /\ Books)
<1>1. Init => Goods /\ Books
  BY GoodsInit, BooksInit
<1>2. SalesIInv /\ Goods /\ Books /\ [Next]_salesVars => Goods' /\ Books'
  BY GoodsNext, BooksNext
<1> QED
  BY <1>1, <1>2, SalesInvariant, PTL DEF Spec

\* Goods leave the stock once with a completed sale and come back at most once, whatever is
\* sold, paid, cancelled or returned in whatever order (createSale, processReturn).
THEOREM SalesGoods == Spec => []GoodsAccounted
<1>1. Goods => GoodsAccounted
  BY DEF Goods
<1> QED
  BY <1>1, GoodsAndBooks, PTL

\* The books of Books say what JournalTellsSales says.
LEMMA BooksTell == SalesIInv /\ Books => JournalTellsSales
<1> SUFFICES ASSUME SalesIInv, Books PROVE JournalTellsSales
  OBVIOUS
<1>1. ASSUME NEW s \in Existing
      PROVE  /\ entry[s] # NoEntry => s \in sold
             /\ Whole(s) /\ entry[s] # NoEntry =>
                  /\ Debits(entry[s]) = Charged(sale[s].order)
                  /\ Credits(entry[s]) = Charged(sale[s].order)
                  /\ s \in entryTold
             /\ Whole(s) /\ s \in sold /\ Postable(s) => entry[s] # NoEntry
  <2>1. s \in Sale /\ BookOf(s)
    BY DEF Books, Existing
  <2>2. Whole(s) =>
          /\ s \notin cut
          /\ ~Busy(s, {"post"}) /\ ~Busy(s, {"line"}) /\ ~Busy(s, {"line", "tellEntry"})
    BY DEF Whole, Busy
  <2> QED
    BY <2>1, <2>2 DEF BookOf
<1> QED
  BY <1>1, Zenon DEF JournalTellsSales, Postable, TaxAccount

\* The journal has completed sales only, each balanced over what it charged and told to the
\* peers, whatever was paid and whatever accounts are missing (_postAccounting), if nothing
\* was cut; and it has all that cost something where the accounts are there, but for those
\* with a negative tax or negative first payments.
THEOREM SalesJournal == Spec => []JournalTellsSales
BY GoodsAndBooks, BooksTell, PTL
=============================================================================
