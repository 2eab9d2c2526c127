------------------------------- MODULE Quotes --------------------------------
(***************************************************************************)
(* The amounts of a quote in both directions: what a customer gets for the *)
(* amount he sells, and the amount he has to sell for a wanted payout      *)
(* (services/cash_delivery_rate.py, behind ExchangeService.build_quote).   *)
(* It is the arithmetic of the summary ExchangeDialog shows.               *)
(* Amounts to sell and payouts are counted in their smallest steps, 1e-8   *)
(* and 0.01; a price is what Grid steps of the sold currency are worth.    *)
(***************************************************************************)
EXTENDS ExchangeDialog, Integers

CONSTANTS Grid,
          Coin,             \* the steps of a payout in one whole unit of its currency
          FreeFrom,         \* CASH_DELIVERY_THRESHOLDS of the sold currency
          DeliveryUsdt,     \* CASH_DELIVERY_USDT_AMOUNT
          Prices,           \* the prices compared
          LargestPayout     \* bound of the comparison

\* A price moves a payout by less than a step per step sold: 25 000 dong for a dollar
\* are a fortieth of one.
ASSUME QuoteConstants ==
    /\ {Grid, Coin, FreeFrom, DeliveryUsdt, LargestPayout} \subseteq Nat \ {0}
    /\ Prices \subseteq 1..(Grid - 1)

Refused == -1

\* ROUND_HALF_EVEN of n / d.
Nearest(n, d) ==
    LET q == n \div d
        rest == 2 * (n % d)
    IN  IF rest > d \/ (rest = d /\ q % 2 = 1) THEN q + 1 ELSE q

\* The delivery of cash costs some USDT, in whole units of the payout, rounded up.
Fee(usdt) == Coin * ((DeliveryUsdt * usdt + Coin - 1) \div Coin)

\* Mutant: the limit of free delivery is taken for a deduction.
PaidLess(cash, price, usdt, amount) ==
    LET gross == Nearest(amount * price, Grid)
    IN  IF ~cash \/ amount < FreeFrom THEN gross
        ELSE IF gross > Fee(usdt) THEN gross - Fee(usdt) ELSE Refused

\* calculate: the payout of an amount; what the delivery eats up is refused.
Paid(cash, price, usdt, amount) ==
    LET gross == Nearest(amount * price, Grid)
    IN  IF ~cash \/ amount >= FreeFrom THEN gross
        ELSE IF gross > Fee(usdt) THEN gross - Fee(usdt) ELSE Refused

\* Mutant: an amount that would be delivered free pays the fee all the same.
SoldWithFee(cash, price, usdt, payout) ==
    LET sold == Nearest((payout + IF cash THEN Fee(usdt) ELSE 0) * Grid, price)
    IN  IF Paid(cash, price, usdt, sold) = payout THEN sold ELSE Refused

\* calculate_amount_sell: with the fee first, without it when that reaches the limit,
\* and then checked in the other direction.
Sold(cash, price, usdt, payout) ==
    LET withFee == Nearest((payout + IF cash THEN Fee(usdt) ELSE 0) * Grid, price)
        sold == IF cash /\ withFee >= FreeFrom THEN Nearest(payout * Grid, price) ELSE withFee
    IN  IF Paid(cash, price, usdt, sold) = payout THEN sold ELSE Refused

\* Who sells more is never paid less.  A payout for which no amount is found is paid for
\* no amount either, but for one that is worth, without the fee, what the limit of free
\* delivery is worth: on either side of the limit the amount found may be on the other.
DirectionsAgree == [cash \in BOOLEAN |->
    \A price, usdt \in Prices :
        LET Sellable == 1..((LargestPayout + Fee(usdt)) * Grid)
        IN  /\ \A amount \in Sellable :
                  Paid(cash, price, usdt, amount) <= Paid(cash, price, usdt, amount + 1)
            /\ \A payout \in 1..LargestPayout :
                  LET sold == Sold(cash, price, usdt, payout)
                  IN  \A amount \in Sellable :
                        Paid(cash, price, usdt, amount) = payout =>
                            \/ sold # Refused /\ Paid(cash, price, usdt, sold) = payout
                            \/ Nearest(amount * price, Grid) = Nearest(FreeFrom * price, Grid)]

\* The two directions of the quote behind a summary agree, whatever the prices are.
QuotesAgree == state = "confirming" => DirectionsAgree[data.method = "cash"]
=============================================================================
