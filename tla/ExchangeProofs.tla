--------------------------- MODULE ExchangeProofs ----------------------------
(***************************************************************************)
(* Proofs about the exchange: the arithmetic of a quote (Quotes), for any  *)
(* grid, prices, fee and limit, and the dialog that ends in an order       *)
(* (ExchangeDialog).                                                       *)
(***************************************************************************)
EXTENDS Quotes, TLAPS

----------------------------------------------------------------------------
(* Rounding. *)

LEMMA DivMod ==
  ASSUME NEW n \in Nat, NEW d \in Nat \ {0}
  PROVE  /\ n \div d \in Nat /\ n % d \in Nat /\ n % d < d
         /\ n = d * (n \div d) + (n % d)
OBVIOUS

LEMMA MulMonotone ==
  ASSUME NEW a \in Int, NEW b \in Int, NEW c \in Nat, a <= b
  PROVE  a * c <= b * c /\ a * c \in Int /\ b * c \in Int
OBVIOUS

\* Nearest is off by half a divisor at most.
LEMMA NearestClose ==
  ASSUME NEW n \in Nat, NEW d \in Nat \ {0}
  PROVE  /\ Nearest(n, d) \in Nat /\ d * Nearest(n, d) \in Nat
         /\ 2 * (d * Nearest(n, d)) <= 2 * n + d
         /\ 2 * n <= 2 * (d * Nearest(n, d)) + d
<1> DEFINE q == n \div d
           m == n % d
<1>1. q \in Nat /\ m \in Nat /\ m < d /\ n = d * q + m /\ d * q \in Nat
  BY DivMod
<1>2. d * (q + 1) = d * q + d
  BY <1>1
<1>3. \/ Nearest(n, d) = q /\ 2 * m <= d
      \/ Nearest(n, d) = q + 1 /\ 2 * m >= d
  BY <1>1 DEF Nearest
<1> HIDE DEF q, m
<1>4. CASE Nearest(n, d) = q /\ 2 * m <= d
  BY <1>1, <1>4
<1>5. CASE Nearest(n, d) = q + 1 /\ 2 * m >= d
  <2>1. d * Nearest(n, d) = d * q + d
    BY <1>2, <1>5
  <2> QED
    BY <1>1, <1>5, <2>1
<1> QED
  BY <1>3, <1>4, <1>5

\* What is off by less than half a divisor is the nearest.
LEMMA NearestUnique ==
  ASSUME NEW n \in Nat, NEW d \in Nat \ {0}, NEW r \in Nat,
         2 * (d * r) < 2 * n + d, 2 * n < 2 * (d * r) + d
  PROVE  Nearest(n, d) = r
<1> DEFINE s == Nearest(n, d)
<1>1. s \in Nat /\ d * s \in Nat /\ 2 * (d * s) <= 2 * n + d /\ 2 * n <= 2 * (d * s) + d
  BY NearestClose
<1> HIDE DEF s
<1>2. ~(s >= r + 1)
  <2> SUFFICES ASSUME s >= r + 1 PROVE FALSE
    OBVIOUS
  <2>1. d * s >= d * (r + 1) /\ d * (r + 1) = d * r + d /\ d * r \in Nat
    BY <1>1
  <2> QED
    BY <1>1, <2>1
<1>3. ~(r >= s + 1)
  <2> SUFFICES ASSUME r >= s + 1 PROVE FALSE
    OBVIOUS
  <2>1. d * r >= d * (s + 1) /\ d * (s + 1) = d * s + d /\ d * r \in Nat
    BY <1>1
  <2> QED
    BY <1>1, <2>1
<1>4. s = r
  BY <1>1, <1>2, <1>3
<1> QED
  BY <1>4 DEF s

\* Rounding keeps the order.
LEMMA NearestMonotone ==
  ASSUME NEW n \in Nat, NEW k \in Nat, n <= k, NEW d \in Nat \ {0}
  PROVE  Nearest(n, d) <= Nearest(k, d)
<1> DEFINE s == Nearest(n, d)
           t == Nearest(k, d)
<1>1. s \in Nat /\ d * s \in Nat /\ 2 * (d * s) <= 2 * n + d
  BY NearestClose
<1>2. t \in Nat /\ d * t \in Nat /\ 2 * k <= 2 * (d * t) + d
  BY NearestClose
<1>3. CASE n = k
  BY <1>1, <1>3
<1>4. CASE n < k
  <2> HIDE DEF s, t
  <2>1. ~(s >= t + 1)
    <3> SUFFICES ASSUME s >= t + 1 PROVE FALSE
      OBVIOUS
    <3>1. d * s >= d * (t + 1) /\ d * (t + 1) = d * t + d
      BY <1>1, <1>2
    <3> QED
      BY <1>1, <1>2, <1>4, <3>1
  <2>2. s <= t
    BY <1>1, <1>2, <2>1
  <2> QED
    BY <2>2 DEF s, t
<1> QED
  BY <1>3, <1>4

----------------------------------------------------------------------------
(* A quote. *)

LEMMA PricesTyped ==
  /\ Grid \in Nat \ {0} /\ Coin \in Nat \ {0} /\ FreeFrom \in Nat \ {0}
  /\ DeliveryUsdt \in Nat \ {0} /\ LargestPayout \in Nat \ {0}
  /\ \A price \in Prices : price \in Nat \ {0} /\ price < Grid
BY QuoteConstants

\* What an amount is worth, before the delivery.
Gross(price, amount) == Nearest(amount * price, Grid)

LEMMA GrossMonotone ==
  ASSUME NEW price \in Prices, NEW a \in Nat, NEW b \in Nat, a <= b
  PROVE  Gross(price, a) \in Nat /\ Gross(price, b) \in Nat /\ Gross(price, a) <= Gross(price, b)
<1>1. price \in Nat /\ Grid \in Nat \ {0}
  BY PricesTyped
<1>2. a * price \in Nat /\ b * price \in Nat /\ a * price <= b * price
  BY <1>1, MulMonotone
<1> QED
  BY <1>1, <1>2, NearestClose, NearestMonotone DEF Gross

\* The amount computed for a payout is worth that payout: a step of the amount moves
\* the payout by less than a step.
LEMMA GrossOfNearest ==
  ASSUME NEW price \in Prices, NEW payout \in Nat
  PROVE  /\ Nearest(payout * Grid, price) \in Nat
         /\ Gross(price, Nearest(payout * Grid, price)) = payout
<1> DEFINE x == Nearest(payout * Grid, price)
<1>1. price \in Nat \ {0} /\ price < Grid /\ Grid \in Nat \ {0} /\ payout * Grid \in Nat
  BY PricesTyped
<1>2. /\ x \in Nat /\ price * x \in Nat
      /\ 2 * (price * x) <= 2 * (payout * Grid) + price
      /\ 2 * (payout * Grid) <= 2 * (price * x) + price
  BY <1>1, NearestClose
<1>3. price * x = x * price /\ payout * Grid = Grid * payout
  BY <1>1, <1>2
<1>4. /\ 2 * (Grid * payout) < 2 * (x * price) + Grid
      /\ 2 * (x * price) < 2 * (Grid * payout) + Grid
      /\ x * price \in Nat
  <2> HIDE DEF x
  <2> QED
    BY <1>1, <1>2, <1>3
<1>5. Nearest(x * price, Grid) = payout
  BY <1>1, <1>4, NearestUnique
<1> QED
  BY <1>2, <1>5 DEF Gross

\* The delivery costs something.
LEMMA FeeTyped == ASSUME NEW usdt \in Prices PROVE Fee(usdt) \in Nat \ {0}
<1> DEFINE m == DeliveryUsdt * usdt + Coin - 1
           q == m \div Coin
<1>1. usdt \in Nat \ {0} /\ Coin \in Nat \ {0} /\ DeliveryUsdt \in Nat \ {0}
  BY PricesTyped
<1>2. DeliveryUsdt * usdt \in Nat /\ DeliveryUsdt * usdt >= 1
  BY <1>1
<1>3. m \in Nat /\ m >= Coin
  BY <1>1, <1>2
<1>4. q \in Nat /\ m % Coin \in Nat /\ m % Coin < Coin /\ m = Coin * q + (m % Coin)
  <2> HIDE DEF m
  <2> QED
    BY <1>1, <1>3, DivMod
<1>5. q # 0
  <2> SUFFICES ASSUME q = 0 PROVE FALSE
    OBVIOUS
  <2>1. Coin * q = 0
    BY <1>1
  <2> HIDE DEF q, m
  <2> QED
    BY <1>1, <1>3, <1>4, <2>1
<1>6. Coin * q \in Nat \ {0}
  <2> HIDE DEF q
  <2> QED
    BY <1>1, <1>4, <1>5
<1> QED
  BY <1>6 DEF Fee

LEMMA PaidIs ==
  ASSUME NEW cash \in BOOLEAN, NEW price \in Prices, NEW usdt \in Prices, NEW amount \in Nat
  PROVE  /\ ~cash \/ amount >= FreeFrom => Paid(cash, price, usdt, amount) = Gross(price, amount)
         /\ cash /\ amount < FreeFrom =>
              \/ /\ Gross(price, amount) > Fee(usdt)
                 /\ Paid(cash, price, usdt, amount) = Gross(price, amount) - Fee(usdt)
              \/ /\ Gross(price, amount) <= Fee(usdt)
                 /\ Paid(cash, price, usdt, amount) = -1
<1>1. ~(cash /\ amount < FreeFrom) <=> (~cash \/ amount >= FreeFrom)
  BY PricesTyped
<1>2. Gross(price, amount) \in Nat /\ Fee(usdt) \in Nat
  BY GrossMonotone, FeeTyped
<1>3. ~(Gross(price, amount) > Fee(usdt)) <=> Gross(price, amount) <= Fee(usdt)
  BY <1>2
<1>4. CASE ~cash \/ amount >= FreeFrom
  BY <1>1, <1>4 DEF Paid, Gross
<1>5. CASE cash /\ amount < FreeFrom
  BY <1>1, <1>3, <1>5 DEF Paid, Gross, Refused
<1> QED
  BY <1>1, <1>4, <1>5

LEMMA PaidMonotone ==
  ASSUME NEW cash \in BOOLEAN, NEW price \in Prices, NEW usdt \in Prices, NEW amount \in Nat
  PROVE  Paid(cash, price, usdt, amount) <= Paid(cash, price, usdt, amount + 1)
<1> DEFINE fee == Fee(usdt)
           a == Gross(price, amount)
           b == Gross(price, amount + 1)
<1>1. a \in Nat /\ b \in Nat /\ a <= b /\ fee \in Nat \ {0} /\ FreeFrom \in Nat
  BY GrossMonotone, FeeTyped, PricesTyped
<1>2. CASE ~cash \/ amount >= FreeFrom
  <2>1. Paid(cash, price, usdt, amount) = a /\ Paid(cash, price, usdt, amount + 1) = b
    BY <1>1, <1>2, PaidIs
  <2> QED
    BY <1>1, <2>1
<1>3. CASE cash /\ amount < FreeFrom
  <2> DEFINE x == Paid(cash, price, usdt, amount)
             y == Paid(cash, price, usdt, amount + 1)
  <2>1. (a > fee /\ x = a - fee) \/ (a <= fee /\ x = -1)
    BY <1>1, <1>3, PaidIs
  <2>2. y = b \/ (b > fee /\ y = b - fee) \/ (b <= fee /\ y = -1)
    <3>1. amount + 1 \in Nat /\ (amount + 1 >= FreeFrom \/ amount + 1 < FreeFrom)
      BY <1>1
    <3>2. CASE amount + 1 >= FreeFrom
      BY <3>1, <3>2, PaidIs
    <3>3. CASE amount + 1 < FreeFrom
      BY <1>3, <3>1, <3>3, PaidIs
    <3> QED
      BY <3>1, <3>2, <3>3
  <2>3. x <= y
    <3> HIDE DEF a, b, fee, x, y
    <3> QED
      BY <1>1, <2>1, <2>2
  <2> QED
    BY <2>3
<1> QED
  BY <1>1, <1>2, <1>3

\* Who wants a payout that some amount is paid gets an amount, unless that one is worth
\* what the limit of free delivery is worth.
LEMMA SoldFound ==
  ASSUME NEW cash \in BOOLEAN, NEW price \in Prices, NEW usdt \in Prices,
         NEW payout \in Nat \ {0}, NEW amount \in Nat, Paid(cash, price, usdt, amount) = payout
  PROVE  \/ /\ Sold(cash, price, usdt, payout) # Refused
            /\ Paid(cash, price, usdt, Sold(cash, price, usdt, payout)) = payout
         \/ Gross(price, amount) = Gross(price, FreeFrom)
<1> DEFINE fee == Fee(usdt)
           withFee == Nearest((payout + fee) * Grid, price)
           free == Nearest(payout * Grid, price)
<1>1. fee \in Nat \ {0} /\ payout + fee \in Nat /\ FreeFrom \in Nat
  BY FeeTyped, PricesTyped
<1>2. withFee \in Nat /\ Gross(price, withFee) = payout + fee
  BY <1>1, GrossOfNearest
<1>3. free \in Nat /\ Gross(price, free) = payout
  BY GrossOfNearest
<1>4. ASSUME NEW sold \in Nat, Paid(cash, price, usdt, sold) = payout,
             Sold(cash, price, usdt, payout) = IF Paid(cash, price, usdt, sold) = payout THEN sold ELSE Refused
      PROVE  /\ Sold(cash, price, usdt, payout) # Refused
             /\ Paid(cash, price, usdt, Sold(cash, price, usdt, payout)) = payout
  BY <1>4 DEF Refused
<1>5. CASE ~cash
  <2>1. Nearest((payout + 0) * Grid, price) = free
    OBVIOUS
  <2>2. Sold(cash, price, usdt, payout) = IF Paid(cash, price, usdt, free) = payout THEN free ELSE Refused
    BY <1>5, <2>1 DEF Sold
  <2>3. Paid(cash, price, usdt, free) = payout
    BY <1>3, <1>5, PaidIs
  <2> QED
    BY <1>3, <1>4, <2>2, <2>3
<1>6. CASE cash /\ withFee < FreeFrom
  <2>1. ~(withFee >= FreeFrom)
    BY <1>1, <1>2, <1>6
  <2>2. Sold(cash, price, usdt, payout) =
          IF Paid(cash, price, usdt, withFee) = payout THEN withFee ELSE Refused
    BY <1>6, <2>1 DEF Sold
  <2>3. Paid(cash, price, usdt, withFee) = payout
    <3>1. \/ /\ Gross(price, withFee) > fee
             /\ Paid(cash, price, usdt, withFee) = Gross(price, withFee) - fee
          \/ Gross(price, withFee) <= fee
      BY <1>2, <1>6, PaidIs
    <3>2. ~(Gross(price, withFee) <= fee) /\ Gross(price, withFee) - fee = payout
      <4> HIDE DEF withFee, fee
      <4> QED
        BY <1>1, <1>2
    <3> QED
      BY <3>1, <3>2, Zenon
  <2> QED
    BY <1>2, <1>4, <2>2, <2>3
<1>7. CASE cash /\ withFee >= FreeFrom
  <2>1. Sold(cash, price, usdt, payout) =
          IF Paid(cash, price, usdt, free) = payout THEN free ELSE Refused
    BY <1>7 DEF Sold
  <2>2. CASE free >= FreeFrom
    <3>1. Paid(cash, price, usdt, free) = payout
      BY <1>3, <2>2, PaidIs
    <3> QED
      BY <1>3, <1>4, <2>1, <3>1
  <2>3. CASE amount >= FreeFrom /\ free < FreeFrom
    <3>1. Gross(price, amount) = payout
      BY <2>3, PaidIs
    <3>2. Gross(price, free) <= Gross(price, FreeFrom) /\ Gross(price, FreeFrom) <= Gross(price, amount)
          /\ Gross(price, FreeFrom) \in Nat
      <4>1. free <= FreeFrom /\ FreeFrom <= amount
        BY <1>1, <1>3, <2>3
      <4> HIDE DEF free
      <4> QED
        BY <1>1, <1>3, <4>1, GrossMonotone
    <3> QED
      BY <1>3, <3>1, <3>2
  <2>4. CASE amount < FreeFrom
    <3>1. Gross(price, amount) = payout + fee
      <4>1. payout # -1
        OBVIOUS
      <4>2. Paid(cash, price, usdt, amount) = Gross(price, amount) - fee
        BY ZenonT(40), <1>7, <2>4, <4>1, PaidIs
      <4>3. Gross(price, amount) \in Nat
        BY GrossMonotone
      <4> QED
        BY <1>1, <4>2, <4>3
    <3>2. Gross(price, amount) <= Gross(price, FreeFrom) /\ Gross(price, FreeFrom) <= Gross(price, withFee)
          /\ Gross(price, FreeFrom) \in Nat
      <4>1. FreeFrom <= withFee /\ amount <= FreeFrom
        BY <1>1, <1>2, <1>7, <2>4
      <4> HIDE DEF withFee
      <4> QED
        BY <1>1, <1>2, <4>1, GrossMonotone
    <3> QED
      BY <1>1, <1>2, <3>1, <3>2
  <2> QED
    BY <1>1, <1>3, <2>2, <2>3, <2>4
<1> QED
  BY <1>1, <1>2, <1>5, <1>6, <1>7

\* The two directions of a quote agree: more is never paid less, and a payout that can be
\* had is found, but for those that are worth what the limit of free delivery is worth.
THEOREM DirectionsCorrect == \A cash \in BOOLEAN : DirectionsAgree[cash]
<1> SUFFICES ASSUME NEW cash \in BOOLEAN PROVE DirectionsAgree[cash]
  OBVIOUS
<1>1. ASSUME NEW price \in Prices, NEW usdt \in Prices
      PROVE  1..((LargestPayout + Fee(usdt)) * Grid) \subseteq Nat /\ 1..LargestPayout \subseteq Nat \ {0}
  BY PricesTyped, FeeTyped
<1>2. ASSUME NEW price \in Prices, NEW usdt \in Prices,
             NEW amount \in 1..((LargestPayout + Fee(usdt)) * Grid)
      PROVE  Paid(cash, price, usdt, amount) <= Paid(cash, price, usdt, amount + 1)
  BY <1>1, PaidMonotone
<1>3. ASSUME NEW price \in Prices, NEW usdt \in Prices, NEW payout \in 1..LargestPayout,
             NEW amount \in 1..((LargestPayout + Fee(usdt)) * Grid),
             Paid(cash, price, usdt, amount) = payout
      PROVE  \/ /\ Sold(cash, price, usdt, payout) # Refused
                /\ Paid(cash, price, usdt, Sold(cash, price, usdt, payout)) = payout
             \/ Nearest(amount * price, Grid) = Nearest(FreeFrom * price, Grid)
  <2>1. payout \in Nat \ {0} /\ amount \in Nat
    BY <1>1
  <2> QED
    BY <1>3, <2>1, SoldFound DEF Gross
<1> QED
  BY <1>2, <1>3, Zenon DEF DirectionsAgree

\* Every summary the dialog shows has a quote whose directions agree.
THEOREM QuotesCorrect == Spec => []QuotesAgree
<1>1. QuotesAgree
  <2>1. (data.method = "cash") \in BOOLEAN
    BY Zenon
  <2> QED
    BY <2>1, DirectionsCorrect, Zenon DEF QuotesAgree
<1> QED
  BY <1>1, PTL

----------------------------------------------------------------------------
(* The rates under the dialog. *)

LEMMA RatesTyped == RateTypeOK /\ [RateNext]_rateVars => RateTypeOK'
<1> SUFFICES ASSUME RateTypeOK, [RateNext]_rateVars PROVE RateTypeOK'
  OBVIOUS
<1> DEFINE Job == [at : JobPlaces, number : 0..MaxFetches, got : Parts]
<1>1. {} \in Parts /\ MaxFetches \in Nat
  BY RateConstants DEF Parts
<1>2. NoJob \in Job /\ NoRows \in [Pairs -> 0..MaxFetches]
  BY <1>1 DEF NoJob, NoRows, JobPlaces
<1>3. ASSUME NEW u \in Updaters, BeginFetch(u) PROVE RateTypeOK'
  <2>1. fetches + 1 \in 0..MaxFetches
    BY <1>1, <1>3 DEF BeginFetch, RateTypeOK
  <2>2. [at |-> "asking", number |-> fetches + 1, got |-> {}] \in Job
    BY <1>1, <2>1 DEF JobPlaces
  <2> QED
    BY <1>3, <2>1, <2>2 DEF BeginFetch, RateTypeOK
<1>4. ASSUME NEW u \in Updaters, Answer(u) PROVE RateTypeOK'
  <2>1. PICK got \in Parts : Answered(u, got)
    BY <1>4 DEF Answer
  <2>2. ASSUME NEW place \in JobPlaces, Becomes(u, place, got) PROVE job' \in [Updaters -> Job]
    BY <2>2 DEF Becomes, RateTypeOK
  <2>3. \/ \E place \in JobPlaces : Becomes(u, place, got)
        \/ job' = [job EXCEPT ![u] = NoJob]
    BY <2>1 DEF Answered, JobPlaces
  <2>4. job' \in [Updaters -> Job]
    BY <1>2, <2>2, <2>3 DEF RateTypeOK
  <2> QED
    BY <1>4, <2>4 DEF Answer, RateTypeOK
<1>5. ASSUME NEW u \in Updaters, FetchFails(u) PROVE RateTypeOK'
  BY <1>2, <1>5 DEF FetchFails, RateTypeOK
<1>6. ASSUME NEW u \in Updaters, LoadRows(u) PROVE RateTypeOK'
  <2>1. job' \in [Updaters -> Job]
    BY <1>6 DEF LoadRows, Becomes, RateTypeOK, JobPlaces
  <2> QED
    BY <1>6, <2>1 DEF LoadRows, RateTypeOK
<1>7. ASSUME NEW u \in Updaters, Save(u) PROVE RateTypeOK'
  <2>1. PICK same \in SUBSET Changed(u) :
          LET written == Saved(job[u].got) \ same
          IN  /\ table' = [p \in Pairs |-> IF p \in written THEN job[u].number ELSE table[p]]
              /\ passed' = (passed \ written) \cup same
    BY <1>7 DEF Save
  <2>2. job[u].number \in 0..MaxFetches /\ same \subseteq Pairs
    BY DEF RateTypeOK, Changed, Saved, Pairs
  <2>3. table' \in [Pairs -> 0..MaxFetches] /\ passed' \subseteq Pairs
    BY <2>1, <2>2 DEF RateTypeOK
  <2> QED
    BY <1>2, <1>7, <2>3 DEF Save, RateTypeOK
<1>8. CASE UNCHANGED rateVars
  BY <1>8 DEF rateVars, RateTypeOK
<1> QED
  BY <1>3, <1>4, <1>5, <1>6, <1>7, <1>8 DEF RateNext

----------------------------------------------------------------------------
(* The dialog. *)

\* What an order takes from the data is what the summary showed.
AsShown(d, s) ==
    /\ d.country = s.country /\ d.method = s.method
    /\ d.sell = s.sell /\ d.amount = s.amount /\ d.city = s.city

\* A warning is noted as accepted only where it was accepted.
DialogRight ==
    /\ data.ack => accepted
    /\ state = "confirming" =>
          AsShown(data, shown) /\ summaries # 0 /\ data.summary = summaries

\* What a press has in its hands.
PressRight(h) ==
    handler[h].at # "idle" =>
        /\ AsShown(handler[h].data, handler[h].shown)
        /\ handler[h].data.summary \in 1..summaries
        /\ handler[h].offline => handler[h].accepted
        /\ handler[h].at = "created" /\ handler[h].data.method = "cash" =>
              CityCountry[OrderCity(handler[h].data)] = handler[h].data.country

DialogInv ==
    /\ TypeOK /\ DialogRight
    /\ \A h \in Handlers : PressRight(h)

LEMMA NoDataTyped == NoData \in Data
BY DialogConstants DEF NoData, Data

HandlerRecord == [at : {"idle", "checked", "created"}, data : Data, shown : Data,
                  accepted : BOOLEAN, offline : BOOLEAN]

LEMMA IdleTyped == Idle \in HandlerRecord
BY NoDataTyped DEF Idle, HandlerRecord

\* The steps of the dialog that do not show a summary.
Moved ==
    /\ state' \in States \ {"confirming"} /\ data' \in Data /\ shown' \in Data
    /\ accepted' \in BOOLEAN /\ (data'.ack => accepted')

LEMMA AnewMoved == Anew => Moved
<1> SUFFICES ASSUME Anew PROVE Moved
  OBVIOUS
<1>1. NoData \in Data /\ NoData.ack = FALSE
  BY NoDataTyped DEF NoData
<1>2. state' \in States \ {"confirming"} /\ data' = NoData /\ shown' = NoData
  BY DEF Anew, Cleared, States
<1>3. accepted' \in BOOLEAN /\ ~data'.ack
  BY <1>1, <1>2, Zenon DEF Anew
<1> QED
  BY <1>1, <1>2, <1>3, Zenon DEF Moved

\* The steps that lead elsewhere, with what was chosen.
LEMMA ToMoved ==
  ASSUME TypeOK, NEW d \in Data, d.ack => accepted,
         ToService(d) \/ ToCurrency(d) \/ ToCity(d) \/ ToAmount(d)
  PROVE  Moved
<1>1. shown \in Data /\ accepted \in BOOLEAN
  BY DEF TypeOK
<1>2. ASSUME NEW place \in States \ {"confirming"}, state' = place, data' = d,
             UNCHANGED <<shown, accepted>>
      PROVE  Moved
  BY <1>1, <1>2 DEF Moved
<1>3. CASE ToService(d)
  BY <1>2, <1>3, AnewMoved DEF ToService, States
<1>4. CASE ToCurrency(d)
  BY <1>2, <1>4, AnewMoved DEF ToCurrency, States
<1>5. CASE ToCity(d)
  BY <1>2, <1>4, <1>5 DEF ToCity, States
<1>6. CASE ToAmount(d)
  BY <1>2, <1>6 DEF ToAmount, States
<1> QED
  BY <1>3, <1>4, <1>5, <1>6

\* A choice is written into the data and changes nothing else there.
LEMMA DataChosen ==
  ASSUME NEW d \in Data
  PROVE  /\ \A c \in Countries : [d EXCEPT !.country = c] \in Data /\ [d EXCEPT !.country = c].ack = d.ack
         /\ \A m \in Methods : [d EXCEPT !.method = m] \in Data /\ [d EXCEPT !.method = m].ack = d.ack
         /\ \A c \in Cities : [d EXCEPT !.city = c] \in Data /\ [d EXCEPT !.city = c].ack = d.ack
         /\ \A s \in Sells : [d EXCEPT !.sell = s] \in Data /\ [d EXCEPT !.sell = s].ack = d.ack
         /\ \A a \in Amounts : [d EXCEPT !.amount = a] \in Data /\ [d EXCEPT !.amount = a].ack = d.ack
BY DEF Data

\* The steps of the dialog, but for the summary, are of the kind above.
LEMMA StepsMoved ==
  ASSUME DialogInv,
         \/ Start \/ Back
         \/ \E c \in Countries : PickCountry(c)
         \/ \E m \in Methods : PickService(m)
         \/ \E c \in Cities : PickCity(c)
         \/ \E s \in Sells : PickCurrency(s)
  PROVE  Moved /\ Dialog
<1>1. data \in Data /\ (data.ack => accepted) /\ TypeOK
  BY DEF DialogInv, TypeOK, DialogRight
<1>2. CASE Start
  BY <1>2, AnewMoved DEF Start
<1>3. CASE Back
  BY <1>1, <1>3, AnewMoved, ToMoved DEF Back
<1>4. ASSUME NEW c \in Countries, PickCountry(c) PROVE Moved /\ Dialog
  <2> DEFINE d == [data EXCEPT !.country = c]
  <2>1. d \in Data /\ d.ack = data.ack
    BY <1>1, DataChosen
  <2> HIDE DEF d
  <2> QED
    BY <1>1, <1>4, <2>1, ToMoved DEF PickCountry, d
<1>5. ASSUME NEW m \in Methods, PickService(m) PROVE Moved /\ Dialog
  <2> DEFINE d == [data EXCEPT !.method = m]
  <2>1. d \in Data /\ d.ack = data.ack
    BY <1>1, DataChosen
  <2>2. ToCity(d) \/ ToCurrency(d)
    BY <1>5 DEF PickService
  <2>3. Dialog
    BY <1>5 DEF PickService
  <2> HIDE DEF d
  <2> QED
    BY <1>1, <2>1, <2>2, <2>3, ToMoved
<1>6. ASSUME NEW c \in Cities, PickCity(c) PROVE Moved /\ Dialog
  <2> DEFINE d == [data EXCEPT !.city = c]
  <2>1. d \in Data /\ d.ack = data.ack
    BY <1>1, DataChosen
  <2> HIDE DEF d
  <2> QED
    BY <1>1, <1>6, <2>1, ToMoved DEF PickCity, d
<1>7. ASSUME NEW s \in Sells, PickCurrency(s) PROVE Moved /\ Dialog
  <2> DEFINE d == [data EXCEPT !.sell = s]
  <2>1. d \in Data /\ d.ack = data.ack
    BY <1>1, DataChosen
  <2> HIDE DEF d
  <2> QED
    BY <1>1, <1>7, <2>1, ToMoved DEF PickCurrency, d
<1> QED
  BY <1>2, <1>3, <1>4, <1>5, <1>6, <1>7

LEMMA DialogInit == Init => DialogInv
<1> SUFFICES ASSUME Init PROVE DialogInv
  OBVIOUS
<1>1. RateTypeOK
  <2>1. /\ NoJob \in [at : JobPlaces, number : 0..MaxFetches, got : Parts]
        /\ NoRows \in [Pairs -> 0..MaxFetches]
    BY RateConstants DEF NoJob, NoRows, JobPlaces, Parts
  <2> QED
    BY <2>1, RateConstants DEF Init, RateInit, RateTypeOK
<1>2. handler \in [Handlers -> HandlerRecord]
  BY IdleTyped DEF Init
<1>3. accepted \in BOOLEAN /\ offline \in BOOLEAN /\ accepted = FALSE
  BY Zenon DEF Init
<1>4. /\ state \in States /\ data \in Data /\ shown \in Data /\ summaries \in 0..MaxSummaries
      /\ orders \in [1..MaxSummaries -> 0..2] /\ broken \subseteq 1..summaries
      /\ faults \in 0..MaxFaults
  BY NoDataTyped, DialogConstants DEF Init, States
<1>5. TypeOK
  BY <1>1, <1>2, <1>3, <1>4 DEF TypeOK, HandlerRecord
<1>6. data = NoData /\ NoData.ack = FALSE /\ state # "confirming"
  BY DEF Init, NoData
<1>7. DialogRight
  BY <1>6, Zenon DEF DialogRight
<1>8. \A h \in Handlers : PressRight(h)
  BY DEF Init, PressRight, Idle
<1> QED
  BY <1>5, <1>7, <1>8 DEF DialogInv

\* A press goes on to a new place, or ends; the others keep what they have.
LEMMA PressGoes ==
  ASSUME DialogInv, NEW h \in Handlers, summaries' = summaries, NEW record \in HandlerRecord,
         handler' = [handler EXCEPT ![h] = record],
         record.at # "idle" =>
            /\ AsShown(record.data, record.shown) /\ record.data.summary \in 1..summaries
            /\ record.offline => record.accepted
            /\ record.at = "created" /\ record.data.method = "cash" =>
                  CityCountry[OrderCity(record.data)] = record.data.country
  PROVE  handler' \in [Handlers -> HandlerRecord] /\ \A g \in Handlers : PressRight(g)'
<1>1. /\ handler' \in [Handlers -> HandlerRecord] /\ handler'[h] = record
      /\ \A g \in Handlers \ {h} : handler'[g] = handler[g]
  BY DEF DialogInv, TypeOK, HandlerRecord
<1>2. PressRight(h)'
  BY <1>1 DEF PressRight
<1>3. \A g \in Handlers \ {h} : PressRight(g)'
  BY <1>1 DEF DialogInv, PressRight
<1> QED
  BY <1>1, <1>2, <1>3

\* The press as a record, and how a step changes its place.
LEMMA PlaceChanged ==
  ASSUME DialogInv, NEW h \in Handlers, NEW place \in {"idle", "checked", "created"}, Goes(h, place)
  PROVE  \E record \in HandlerRecord :
            /\ handler' = [handler EXCEPT ![h] = record]
            /\ place = "idle" => record = Idle
            /\ place # "idle" =>
                  /\ record.at = place /\ record.data = handler[h].data
                  /\ record.shown = handler[h].shown /\ record.accepted = handler[h].accepted
                  /\ record.offline = handler[h].offline
<1> DEFINE record == IF place = "idle" THEN Idle ELSE [handler[h] EXCEPT !.at = place]
<1>1. handler[h] \in HandlerRecord
  BY DEF DialogInv, TypeOK, HandlerRecord
<1>2. [handler[h] EXCEPT !.at = place] \in HandlerRecord
  BY <1>1 DEF HandlerRecord
<1>3. record \in HandlerRecord
  BY <1>2, IdleTyped
<1>4. handler' = [handler EXCEPT ![h] = record]
  BY DEF Goes
<1>5. place = "idle" => record = Idle
  OBVIOUS
<1>6. place # "idle" =>
        /\ record.at = place /\ record.data = handler[h].data
        /\ record.shown = handler[h].shown /\ record.accepted = handler[h].accepted
        /\ record.offline = handler[h].offline
  BY <1>1 DEF HandlerRecord
<1> HIDE DEF record
<1> QED
  BY <1>3, <1>4, <1>5, <1>6

\* The summary a press has in its hands was shown.
LEMMA SummaryTyped ==
  ASSUME DialogInv, NEW h \in Handlers, handler[h].at # "idle"
  PROVE  handler[h].data.summary \in 1..summaries /\ handler[h].data.summary \in 1..MaxSummaries
<1>1. handler[h].data.summary \in 1..summaries
  BY DEF DialogInv, PressRight
<1>2. summaries \in 0..MaxSummaries /\ MaxSummaries \in Nat
  BY DialogConstants DEF DialogInv, TypeOK
<1> QED
  BY <1>1, <1>2

LEMMA DialogNext == DialogInv /\ [Next]_vars => DialogInv'
<1> SUFFICES ASSUME DialogInv, [Next]_vars PROVE DialogInv'
  OBVIOUS
<1> USE DEF dialogVars, orderVars
<1> DEFINE PressesRight == \A h \in Handlers : PressRight(h)
<1>1. CASE UNCHANGED vars
  BY <1>1 DEF vars, rateVars, DialogInv, TypeOK, RateTypeOK, DialogRight, PressRight
\* The presses do not see the dialog go on.
<1>2. ASSUME handler' = handler, summaries' = summaries \/ summaries' = summaries + 1
      PROVE  PressesRight'
  BY <1>2 DEF DialogInv, PressRight, TypeOK
<1>3. ASSUME UNCHANGED rateVars PROVE RateTypeOK'
  BY <1>3 DEF rateVars, RateTypeOK, DialogInv, TypeOK
<1>4. ASSUME Moved PROVE DialogRight'
  BY <1>4, Zenon DEF Moved, DialogRight
<1>5. CASE \/ Start \/ Back
           \/ \E c \in Countries : PickCountry(c)
           \/ \E m \in Methods : PickService(m)
           \/ \E c \in Cities : PickCity(c)
           \/ \E s \in Sells : PickCurrency(s)
  <2>1. Moved /\ Dialog
    BY <1>5, StepsMoved
  <2>2. RateTypeOK' /\ DialogRight' /\ PressesRight'
    BY <1>2, <1>3, <1>4, <2>1 DEF Dialog
  <2>3. TypeOK'
    BY <2>1, <2>2 DEF Dialog, Fine, Moved, DialogInv, TypeOK
  <2> QED
    BY <2>2, <2>3 DEF DialogInv
<1>6. ASSUME NEW a \in Amounts, EnterAmount(a) PROVE DialogInv'
  <2> DEFINE d == [data EXCEPT !.amount = a]
  <2>1. d \in Data /\ d.ack = data.ack
    BY DataChosen DEF DialogInv, TypeOK
  <2>2. UNCHANGED <<rateVars, accepted, orderVars, offline, faults>> /\ state = "amount"
    BY <1>6 DEF EnterAmount, Fine
  <2>3. CASE Priced(d)
    <3>1. summaries < MaxSummaries /\ ToConfirming(d)
      BY <1>6, <2>3 DEF EnterAmount
    <3>2. /\ summaries' = summaries + 1 /\ summaries' \in 0..MaxSummaries /\ summaries' # 0
          /\ summaries \in Nat
      BY <3>1, DialogConstants DEF ToConfirming, DialogInv, TypeOK
    <3>3. /\ data' \in Data /\ data'.ack = data.ack /\ data'.summary = summaries'
          /\ shown' = data' /\ state' = "confirming"
      <4>1. data' = [d EXCEPT !.summary = summaries'] /\ shown' = data' /\ state' = "confirming"
        BY <3>1 DEF ToConfirming
      <4> HIDE DEF d
      <4> QED
        BY <2>1, <3>2, <4>1 DEF Data
    <3>4. DialogRight'
      <4>1. data'.ack => accepted'
        BY <2>2, <3>3, Zenon DEF DialogInv, DialogRight
      <4>2. AsShown(data, shown)'
        BY <3>3 DEF AsShown
      <4> QED
        BY <3>2, <3>3, <4>1, <4>2, Zenon DEF DialogRight
    <3>5. RateTypeOK' /\ PressesRight'
      BY <1>2, <1>3, <2>2, <3>2
    <3>6. broken' \subseteq 1..summaries'
      BY <2>2, <3>2 DEF DialogInv, TypeOK
    <3>7. TypeOK'
      BY <2>2, <3>2, <3>3, <3>5, <3>6 DEF DialogInv, TypeOK, States
    <3> QED
      BY <3>4, <3>5, <3>7 DEF DialogInv
  <2>4. CASE ~Priced(d)
    <3>1. data' = d /\ UNCHANGED <<state, summaries, shown>>
      BY <1>6, <2>4 DEF EnterAmount
    <3>2. DialogRight'
      BY <2>1, <2>2, <3>1, Zenon DEF DialogInv, DialogRight
    <3>3. RateTypeOK' /\ PressesRight'
      BY <1>2, <1>3, <2>2, <3>1
    <3>4. TypeOK'
      <4> HIDE DEF d
      <4> QED
        BY <2>1, <2>2, <3>1, <3>3 DEF DialogInv, TypeOK
    <3> QED
      BY <3>2, <3>3, <3>4 DEF DialogInv
  <2> QED
    BY <2>3, <2>4
<1>7. ASSUME NEW h \in Handlers, NEW accepts \in BOOLEAN, Press(h, accepts) PROVE DialogInv'
  <2>1. /\ state = "confirming" /\ handler[h] = Idle
        /\ UNCHANGED <<rateVars, state, summaries, shown, orders, offline, faults>>
        /\ accepted' = (accepted \/ accepts)
        /\ data' = (IF accepts THEN [data EXCEPT !.ack = TRUE] ELSE data)
        /\ broken' \subseteq broken \cup {data.summary}
    BY <1>7 DEF Press, Obeys, Fine
  <2>2. /\ data' \in Data /\ data'.summary = data.summary
        /\ AsShown(data', shown) <=> AsShown(data, shown)
    BY <2>1 DEF DialogInv, TypeOK, Data, AsShown
  <2>3. data'.ack => accepted'
    <3>1. CASE accepts
      BY <2>1, <3>1, Zenon
    <3>2. CASE ~accepts
      BY <2>1, <3>2, Zenon DEF DialogInv, DialogRight
    <3> QED
      BY <3>1, <3>2
  <2>4. data.summary = summaries /\ summaries \in 1..MaxSummaries /\ AsShown(data', shown)
    BY <2>1, <2>2 DEF DialogInv, TypeOK, DialogRight
  <2>5. DialogRight'
    BY <2>1, <2>2, <2>3, <2>4, Zenon DEF DialogInv, DialogRight
  <2>6. handler' \in [Handlers -> HandlerRecord] /\ PressesRight'
    <3> DEFINE record == [at |-> "checked", data |-> data', shown |-> shown,
                          accepted |-> accepted', offline |-> offline]
    <3>1. CASE offline /\ ~data'.ack
      <4>1. handler' = handler
        BY <1>7, <3>1 DEF Press
      <4> QED
        BY <1>2, <2>1, <4>1 DEF DialogInv, TypeOK, HandlerRecord
    <3>2. CASE ~(offline /\ ~data'.ack)
      <4>1. handler' = [handler EXCEPT ![h] = record]
        BY <1>7, <3>2 DEF Press
      <4>2. accepted' \in BOOLEAN
        BY <2>1, Zenon DEF DialogInv, TypeOK
      <4>3. shown \in Data /\ offline \in BOOLEAN
        BY DEF DialogInv, TypeOK
      <4>4. record \in HandlerRecord
        BY <2>2, <4>2, <4>3 DEF HandlerRecord
      <4>5. offline => accepted'
        BY <2>3, <3>2, Zenon
      <4>6. /\ record.at = "checked" /\ record.data = data' /\ record.shown = shown
            /\ (record.offline => record.accepted)
        BY <4>5
      <4> HIDE DEF record
      <4>7. record.data.summary \in 1..summaries /\ AsShown(record.data, record.shown)
        BY <2>2, <2>4, <4>6
      <4> QED
        BY <2>1, <4>1, <4>4, <4>6, <4>7, PressGoes
    <3> QED
      BY <3>1, <3>2
  <2>7. TypeOK'
    <3>1. accepted' \in BOOLEAN
      BY <2>1, Zenon DEF DialogInv, TypeOK
    <3>2. broken' \subseteq 1..summaries'
      BY <2>1, <2>4 DEF DialogInv, TypeOK
    <3> QED
      BY <1>3, <2>1, <2>2, <2>6, <3>1, <3>2 DEF DialogInv, TypeOK, HandlerRecord
  <2> QED
    BY <2>5, <2>6, <2>7 DEF DialogInv
\* A press goes on, the dialog stays or begins again.
<1>8. ASSUME NEW h \in Handlers, NEW place \in {"idle", "created"}, Goes(h, place),
             place = "created" =>
                /\ handler[h].at = "checked"
                /\ handler[h].data.method = "cash" =>
                      CityCountry[OrderCity(handler[h].data)] = handler[h].data.country,
             UNCHANGED <<rateVars, summaries, offline>>,
             DialogRight', state' \in States, data' \in Data, shown' \in Data, accepted' \in BOOLEAN,
             orders' \in [1..MaxSummaries -> 0..2], broken' \subseteq 1..summaries,
             faults' \in 0..MaxFaults
      PROVE  DialogInv'
  <2>1. PICK record \in HandlerRecord :
            /\ handler' = [handler EXCEPT ![h] = record]
            /\ place = "idle" => record = Idle
            /\ place # "idle" =>
                  /\ record.at = place /\ record.data = handler[h].data
                  /\ record.shown = handler[h].shown /\ record.accepted = handler[h].accepted
                  /\ record.offline = handler[h].offline
    BY <1>8, PlaceChanged
  <2>2. PressRight(h) /\ Idle.at = "idle"
    BY DEF DialogInv, Idle
  <2>3. handler' \in [Handlers -> HandlerRecord] /\ PressesRight'
    <3>1. CASE place = "idle"
      BY <1>8, <2>1, <2>2, <3>1, PressGoes
    <3>2. CASE place = "created"
      <4>1. /\ AsShown(record.data, record.shown) /\ record.data.summary \in 1..summaries
            /\ record.data.method = "cash" =>
                  CityCountry[OrderCity(record.data)] = record.data.country
        BY <1>8, <2>1, <2>2, <3>2 DEF PressRight
      <4>2. record.offline => record.accepted
        BY <1>8, <2>1, <2>2, <3>2 DEF PressRight
      <4> QED
        BY <1>8, <2>1, <4>1, <4>2, PressGoes
    <3> QED
      BY <3>1, <3>2
  <2>4. TypeOK'
    BY <1>3, <1>8, <2>3 DEF DialogInv, TypeOK, HandlerRecord
  <2> QED
    BY <1>8, <2>3, <2>4 DEF DialogInv
\* Where the dialog stays as it is.
<1>9. ASSUME UNCHANGED <<dialogVars, faults>> \/ (UNCHANGED dialogVars /\ Fault)
      PROVE  /\ DialogRight' /\ state' \in States /\ data' \in Data /\ shown' \in Data
             /\ accepted' \in BOOLEAN /\ faults' \in 0..MaxFaults
  BY <1>9, DialogConstants DEF Fault, DialogInv, DialogRight, TypeOK
<1>10. ASSUME NEW h \in Handlers, Create(h) PROVE DialogInv'
  <2>1. /\ handler[h].at = "checked" /\ Goes(h, "created")
        /\ UNCHANGED <<rateVars, dialogVars, broken, offline, faults>>
        /\ handler[h].data.method = "cash" =>
              CityCountry[OrderCity(handler[h].data)] = handler[h].data.country
    BY <1>10 DEF Create, Acceptable, Fine
  <2>2. orders' \in [1..MaxSummaries -> 0..2]
    <3> DEFINE s == handler[h].data.summary
               n == IF orders[s] = 2 THEN 2 ELSE orders[s] + 1
    <3>1. orders' = [orders EXCEPT ![s] = n]
      BY <1>10 DEF Create
    <3>2. s \in 1..MaxSummaries
      BY <2>1, SummaryTyped
    <3>3. n \in 0..2
      <4> HIDE DEF s
      <4> QED
        BY <3>2 DEF DialogInv, TypeOK
    <3> HIDE DEF s, n
    <3> QED
      BY <3>1, <3>3 DEF DialogInv, TypeOK
  <2>3. broken' \subseteq 1..summaries
    BY <2>1 DEF DialogInv, TypeOK
  <2> QED
    BY <1>8, <1>9, <2>1, <2>2, <2>3
<1>11. ASSUME NEW h \in Handlers, Refuse(h) PROVE DialogInv'
  <2>1. /\ Goes(h, "idle") /\ UNCHANGED <<rateVars, dialogVars, orders, broken, offline, faults>>
    BY <1>11 DEF Refuse, Fine
  <2>2. orders' \in [1..MaxSummaries -> 0..2] /\ broken' \subseteq 1..summaries
    BY <2>1 DEF DialogInv, TypeOK
  <2> QED
    BY <1>8, <1>9, <2>1, <2>2
<1>12. ASSUME NEW h \in Handlers, BreakOff(h) PROVE DialogInv'
  <2>1. /\ handler[h].at = "created" /\ Goes(h, "idle") /\ Fault
        /\ UNCHANGED <<rateVars, dialogVars, orders, offline>>
        /\ broken' = broken \cup {handler[h].data.summary}
    BY <1>12 DEF BreakOff
  <2>2. handler[h].data.summary \in 1..summaries
    BY <2>1 DEF DialogInv, PressRight
  <2>3. orders' \in [1..MaxSummaries -> 0..2] /\ broken' \subseteq 1..summaries
    BY <2>1, <2>2 DEF DialogInv, TypeOK
  <2> QED
    BY <1>8, <1>9, <2>1, <2>3
<1>13. ASSUME NEW h \in Handlers, Finish(h) PROVE DialogInv'
  <2>1. /\ Goes(h, "idle") /\ Anew /\ UNCHANGED <<rateVars, summaries, orders, broken, offline, faults>>
    BY <1>13 DEF Finish, Fine
  <2>2. Moved /\ DialogRight'
    BY <1>4, <2>1, AnewMoved
  <2>3. /\ orders' \in [1..MaxSummaries -> 0..2] /\ broken' \subseteq 1..summaries
        /\ faults' \in 0..MaxFaults
    BY <2>1 DEF DialogInv, TypeOK
  <2> QED
    BY <1>8, <2>1, <2>2, <2>3 DEF Moved
<1>14. CASE Shift
  <2>1. offline' \in BOOLEAN
    BY <1>14, Zenon DEF Shift
  <2>2. UNCHANGED <<rateVars, dialogVars, orderVars, faults>>
    BY <1>14 DEF Shift, Fine
  <2>3. TypeOK'
    BY <1>3, <2>1, <2>2 DEF DialogInv, TypeOK
  <2> QED
    BY <1>2, <1>9, <2>2, <2>3 DEF DialogInv
<1>15. CASE UpdateRates
  <2>1. RateTypeOK' /\ UNCHANGED <<dialogVars, orderVars, offline, faults>>
    BY <1>15, RatesTyped DEF UpdateRates, Fine, DialogInv, TypeOK
  <2>2. TypeOK'
    BY <2>1 DEF DialogInv, TypeOK
  <2> QED
    BY <1>2, <1>9, <2>1, <2>2 DEF DialogInv
<1> QED
  BY <1>1, <1>5, <1>6, <1>7, <1>10, <1>11, <1>12, <1>13, <1>14, <1>15 DEF Next

THEOREM DialogCorrect == Spec => []DialogInv
BY DialogInit, DialogNext, PTL DEF Spec

\* The dialog, its presses and the rates under it keep their types.
THEOREM ExchangeTypeCorrect == Spec => []TypeOK
<1>1. DialogInv => TypeOK
  BY DEF DialogInv
<1> QED
  BY <1>1, DialogCorrect, PTL

\* An order is what its confirmation showed, whichever old button was pressed, and a cash
\* order has a city of its country.
THEOREM ShownCorrect == Spec => []OrderAsShown
<1>1. DialogInv => OrderAsShown
  BY DEF DialogInv, PressRight, OrderAsShown, AsShown
<1> QED
  BY <1>1, DialogCorrect, PTL

\* Off the working hours only a customer who accepted that in the same dialog orders.
THEOREM OfflineCorrect == Spec => []NoSilentOfflineOrder
<1>1. DialogInv => NoSilentOfflineOrder
  BY DEF DialogInv, PressRight, NoSilentOfflineOrder
<1> QED
  BY <1>1, DialogCorrect, PTL

----------------------------------------------------------------------------
(* The orders. *)

\* A press that is handled for a summary.
InHand(h, s) == handler[h].at # "idle" /\ handler[h].data.summary = s

\* For a summary whose handling neither broke off nor overlapped there is one press at
\* most; when it has made the order it is that press's, and no further one can come: the
\* dialog still shows the summary only while the press is about to clear it.
Settled(s) ==
    /\ orders[s] <= 1
    /\ \A g, h \in Handlers : InHand(g, s) /\ InHand(h, s) => g = h
    /\ orders[s] = 1 => \A h \in Handlers : InHand(h, s) => handler[h].at = "created"
    /\ orders[s] = 1 /\ state = "confirming" /\ summaries = s => \E h \in Handlers : InHand(h, s)

OrdersInv ==
    \A s \in 1..MaxSummaries :
        /\ s > summaries => orders[s] = 0
        /\ s \notin broken => Settled(s)

LEMMA OrdersInit == Init => OrdersInv
BY DEF Init, OrdersInv, Settled, InHand, Idle

\* A step that leaves the presses and the orders alone, and shows no old summary again.
LEMMA OrdersKept ==
  ASSUME OrdersInv, UNCHANGED orderVars, summaries' = summaries,
         state' = "confirming" => state = "confirming"
  PROVE  OrdersInv'
BY DEF OrdersInv, Settled, InHand, orderVars

\* What a press does to the hands.
LEMMA GoesInHand ==
  ASSUME DialogInv, NEW h \in Handlers, NEW place \in {"idle", "created"}, Goes(h, place),
         handler[h].at # "idle"
  PROVE  /\ \A g \in Handlers \ {h} : handler'[g] = handler[g]
         /\ handler'[h].at = place
         /\ \A g \in Handlers : \A s : InHand(g, s)' => InHand(g, s)
         /\ place = "created" => \A g \in Handlers : \A s : InHand(g, s) => InHand(g, s)'
         /\ \A g \in Handlers : handler[g].at = "created" /\ g # h => handler'[g].at = "created"
<1>1. PICK record \in HandlerRecord :
            /\ handler' = [handler EXCEPT ![h] = record]
            /\ place = "idle" => record = Idle
            /\ place # "idle" =>
                  /\ record.at = place /\ record.data = handler[h].data
                  /\ record.shown = handler[h].shown /\ record.accepted = handler[h].accepted
                  /\ record.offline = handler[h].offline
  BY PlaceChanged
<1>2. /\ \A g \in Handlers \ {h} : handler'[g] = handler[g]
      /\ handler'[h] = record
  BY <1>1 DEF DialogInv, TypeOK
<1>3. record.at = place
  BY <1>1 DEF Idle
<1>4. place = "created" => record.data = handler[h].data
  BY <1>1
<1> QED
  BY <1>2, <1>3, <1>4 DEF InHand

LEMMA OrdersNext == DialogInv /\ OrdersInv /\ [Next]_vars => OrdersInv'
<1> SUFFICES ASSUME DialogInv, OrdersInv, [Next]_vars PROVE OrdersInv'
  OBVIOUS
<1>1. CASE UNCHANGED vars
  BY <1>1, OrdersKept DEF vars, dialogVars
<1>2. CASE \/ Start \/ Back
           \/ \E c \in Countries : PickCountry(c)
           \/ \E m \in Methods : PickService(m)
           \/ \E c \in Cities : PickCity(c)
           \/ \E s \in Sells : PickCurrency(s)
  <2>1. Moved /\ Dialog
    BY <1>2, StepsMoved
  <2> QED
    BY <2>1, OrdersKept DEF Moved, Dialog
<1>3. CASE Shift \/ UpdateRates
  BY <1>3, OrdersKept DEF Shift, UpdateRates, dialogVars
<1>4. ASSUME NEW a \in Amounts, EnterAmount(a) PROVE OrdersInv'
  <2>1. UNCHANGED orderVars
    BY <1>4 DEF EnterAmount
  <2>2. CASE summaries' = summaries + 1
    <3>1. summaries \in Nat /\ \A s \in 1..MaxSummaries : s > summaries' => s > summaries
      BY <2>2 DEF DialogInv, TypeOK
    <3>2. \A s \in 1..MaxSummaries : summaries' = s => orders[s] = 0
      BY <2>2, <3>1 DEF OrdersInv
    <3> QED
      BY <2>1, <3>1, <3>2 DEF OrdersInv, Settled, InHand, orderVars
  <2>3. CASE UNCHANGED <<state, summaries>>
    BY <2>1, <2>3, OrdersKept
  <2> QED
    BY <1>4, <2>2, <2>3 DEF EnterAmount, ToConfirming
<1>5. ASSUME NEW h \in Handlers, NEW accepts \in BOOLEAN, Press(h, accepts) PROVE OrdersInv'
  <2>1. /\ state = "confirming" /\ handler[h] = Idle /\ UNCHANGED <<state, summaries, orders>>
        /\ broken' = broken \cup {data.summary : g \in {g \in Handlers : handler[g] # Idle}}
        /\ data'.summary = data.summary
    BY <1>5 DEF Press, Obeys, DialogInv, TypeOK, Data
  <2>2. data.summary = summaries
    BY <2>1 DEF DialogInv, DialogRight
  <2>3. CASE handler' = handler
    BY <2>1, <2>3 DEF OrdersInv, Settled, InHand
  <2>4. CASE handler' # handler
    <3>1. /\ \A g \in Handlers \ {h} : handler'[g] = handler[g]
          /\ handler'[h].at = "checked" /\ handler'[h].data.summary = summaries
      BY <1>5, <2>1, <2>2, <2>4 DEF Press, DialogInv, TypeOK
    <3>2. handler[h].at = "idle"
      BY <2>1 DEF Idle
    <3>3. ASSUME NEW s \in 1..MaxSummaries, s \notin broken', s # summaries PROVE Settled(s)'
      <4>1. \A g \in Handlers : InHand(g, s)' <=> InHand(g, s)
        BY <3>1, <3>2, <3>3 DEF InHand
      <4>2. \A g \in Handlers : InHand(g, s) => g # h
        BY <3>2 DEF InHand
      <4>3. Settled(s)
        BY <2>1, <3>3 DEF OrdersInv
      <4> QED
        BY <2>1, <3>1, <3>3, <4>1, <4>2, <4>3 DEF Settled
    <3>4. ASSUME NEW s \in 1..MaxSummaries, s \notin broken', s = summaries PROVE Settled(s)'
      <4>1. \A g \in Handlers : handler[g].at = "idle"
        BY <2>1, <2>2, <3>4 DEF Idle
      <4>2. s \notin broken /\ orders[s] <= 1 /\ orders[s] # 1
        BY <2>1, <3>4, <4>1 DEF OrdersInv, Settled, InHand
      <4>3. InHand(h, s)' /\ \A g \in Handlers \ {h} : ~InHand(g, s)'
        BY <3>1, <3>4, <4>1 DEF InHand
      <4> QED
        BY <2>1, <4>2, <4>3 DEF Settled
    <3> QED
      BY <2>1, <3>3, <3>4 DEF OrdersInv
  <2> QED
    BY <2>3, <2>4
<1>6. ASSUME NEW h \in Handlers, Create(h) PROVE OrdersInv'
  <2>1. /\ handler[h].at = "checked" /\ Goes(h, "created") /\ UNCHANGED <<state, summaries, broken>>
    BY <1>6 DEF Create, dialogVars
  <2>2. PICK t \in 1..MaxSummaries : t = handler[h].data.summary /\ t <= summaries /\ InHand(h, t)
    BY <2>1, SummaryTyped DEF InHand
  <2> DEFINE n == IF orders[t] = 2 THEN 2 ELSE orders[t] + 1
  <2>3. orders' = [orders EXCEPT ![t] = n]
    BY <1>6, <2>2 DEF Create
  <2>4. /\ orders'[t] = n
        /\ \A s \in (1..MaxSummaries) \ {t} : orders'[s] = orders[s]
    BY <2>3 DEF DialogInv, TypeOK
  <2>5. /\ \A g \in Handlers \ {h} : handler'[g] = handler[g]
        /\ handler'[h].at = "created"
        /\ \A g \in Handlers : \A s : InHand(g, s)' <=> InHand(g, s)
    BY <2>1, GoesInHand
  <2>6. ASSUME NEW s \in 1..MaxSummaries, s \notin broken PROVE Settled(s)'
    <3>1. Settled(s)
      BY <2>6 DEF OrdersInv
    <3>2. CASE s # t
      <4>1. orders'[s] = orders[s]
        BY <2>4, <3>2
      <4> QED
        BY SMTT(30), <2>1, <2>5, <3>1, <3>2, <4>1 DEF Settled, InHand
    <3>3. CASE s = t
      <4>1. orders[t] # 1 /\ orders[t] <= 1 /\ orders[t] \in 0..2
        BY <2>1, <2>2, <3>1, <3>3 DEF Settled, DialogInv, TypeOK
      <4>2. orders'[t] = 1
        BY <2>4, <4>1
      <4>3. \A g \in Handlers : InHand(g, t)' => g = h
        BY <2>2, <2>5, <3>1, <3>3 DEF Settled
      <4>4. InHand(h, t)'
        BY <2>2, <2>5
      <4> QED
        BY <2>5, <3>3, <4>2, <4>3, <4>4 DEF Settled
    <3> QED
      BY <3>2, <3>3
  <2>7. ASSUME NEW s \in 1..MaxSummaries, s > summaries PROVE orders'[s] = 0
    <3>1. s # t
      BY <2>2, <2>7 DEF DialogInv, TypeOK
    <3> QED
      BY <2>4, <2>7, <3>1 DEF OrdersInv
  <2> QED
    BY <2>1, <2>6, <2>7 DEF OrdersInv
\* A press ends.
<1>7. ASSUME NEW h \in Handlers, Goes(h, "idle"), handler[h].at # "idle",
             UNCHANGED <<summaries, orders>>, broken \subseteq broken',
             \A s \in 1..MaxSummaries :
                 s \notin broken' /\ InHand(h, s) /\ orders[s] = 1 => state' # "confirming",
             state' = "confirming" => state = "confirming"
      PROVE  OrdersInv'
  <2>1. /\ \A g \in Handlers \ {h} : handler'[g] = handler[g]
        /\ handler'[h].at = "idle"
        /\ \A g \in Handlers : \A s : InHand(g, s)' => InHand(g, s)
    BY <1>7, GoesInHand
  <2>2. ASSUME NEW s \in 1..MaxSummaries, s \notin broken' PROVE Settled(s)'
    <3>1. Settled(s)
      BY <1>7, <2>2 DEF OrdersInv
    <3>2. ASSUME orders[s] = 1, state' = "confirming", summaries = s
          PROVE  \E g \in Handlers : InHand(g, s)'
      <4>1. PICK g \in Handlers : InHand(g, s)
        BY <1>7, <3>1, <3>2 DEF Settled
      <4>2. g # h
        BY <1>7, <2>2, <3>2, <4>1
      <4> QED
        BY <2>1, <4>1, <4>2 DEF InHand
    <3>3. \A g \in Handlers : InHand(g, s)' => g # h /\ handler'[g] = handler[g]
      BY <2>1 DEF InHand
    <3> QED
      BY <1>7, <2>1, <3>1, <3>2, <3>3 DEF Settled
  <2> QED
    BY <1>7, <2>2 DEF OrdersInv
<1>8. ASSUME NEW h \in Handlers, Refuse(h) PROVE OrdersInv'
  <2>1. /\ handler[h].at = "checked" /\ Goes(h, "idle")
        /\ UNCHANGED <<state, summaries, orders, broken>>
    BY <1>8 DEF Refuse, dialogVars
  <2>2. \A s \in 1..MaxSummaries : s \notin broken /\ InHand(h, s) => orders[s] # 1
    BY <2>1 DEF OrdersInv, Settled
  <2> QED
    BY <1>7, <2>1, <2>2
<1>9. ASSUME NEW h \in Handlers, BreakOff(h) PROVE OrdersInv'
  <2>1. /\ handler[h].at = "created" /\ Goes(h, "idle") /\ UNCHANGED <<state, summaries, orders>>
        /\ broken' = broken \cup {handler[h].data.summary}
    BY <1>9 DEF BreakOff, dialogVars
  <2>2. \A s \in 1..MaxSummaries : ~(s \notin broken' /\ InHand(h, s))
    BY <2>1 DEF InHand
  <2> QED
    BY <1>7, <2>1, <2>2
<1>10. ASSUME NEW h \in Handlers, Finish(h) PROVE OrdersInv'
  <2>1. /\ handler[h].at = "created" /\ Goes(h, "idle") /\ UNCHANGED <<summaries, orders, broken>>
        /\ state' = "country"
    BY <1>10 DEF Finish, Anew
  <2> QED
    BY <1>7, <2>1
<1> QED
  BY <1>1, <1>2, <1>3, <1>4, <1>5, <1>6, <1>8, <1>9, <1>10 DEF Next

\* One confirmation makes one order, however often its button is pressed, unless its
\* handling broke off after the commit or two presses were handled at the same time.
THEOREM OneOrderCorrect == Spec => []OneOrderPerSummary
<1>1. DialogInv /\ OrdersInv => OneOrderPerSummary
  <2> SUFFICES ASSUME DialogInv, OrdersInv, NEW s \in 1..MaxSummaries, orders[s] > 1
               PROVE  s \in broken
    BY DEF OneOrderPerSummary
  <2>1. orders[s] \in 0..2 /\ ~(orders[s] <= 1)
    BY DEF DialogInv, TypeOK
  <2> QED
    BY <2>1 DEF OrdersInv, Settled
<1> QED
  BY <1>1, OrdersInit, OrdersNext, DialogCorrect, PTL DEF Spec
=============================================================================
