--------------------------- MODULE ExchangeDialog ----------------------------
(***************************************************************************)
(* The dialog in which a customer orders an exchange from the bot          *)
(* (telegram/handlers/exchange.py, start.py) on top of the rates, and the  *)
(* checks an order has to pass (services/order_flow.py).  The state and    *)
(* the data of the dialog are in Redis; the buttons of every message sent  *)
(* so far stay pressable, and only the state decides which are obeyed.     *)
(* Presses of the confirmation are handled in steps, so two of them may    *)
(* overlap and one may break off; the other updates are handled at once.   *)
(***************************************************************************)
EXTENDS Rates

Methods == {"cash", "qrcode"}

CONSTANTS Handlers, Countries, Cities, None,
          Buys,          \* COUNTRY_CURRENCY
          CityCountry,   \* the country of each city
          UserCity,      \* Users.city_id
          Sells, Amounts,
          MinAmount,     \* MIN_AMOUNT_BY_METHOD
          FreeDelivery,  \* CASH_DELIVERY_THRESHOLDS
          MaxSummaries, MaxFaults   \* bounds

ASSUME DialogConstants ==
    /\ Buys \in [Countries -> Targets] /\ Sells \subseteq {"USDT", "RUB"}
    /\ CityCountry \in [Cities -> Countries] /\ UserCity \in Cities \cup {None}
    /\ Amounts \subseteq Nat /\ MinAmount \in [Methods -> Nat]
    /\ FreeDelivery \in Nat
    /\ None \notin Countries \cup Cities
    /\ MaxSummaries \in Nat /\ MaxFaults \in Nat

VARIABLES
    state, data,  \* the dialog, as the storage of the dispatcher has it
    summaries,    \* how many confirmations were shown
    shown,        \* history: the data the latest of them showed
    accepted,     \* history: the off-hours warning was accepted in this dialog
    handler,      \* the presses being handled, with what each has read
    orders,       \* how many orders each confirmation made: 0, 1 or more
    broken,       \* history: confirmations whose handling broke off or overlapped
    offline,      \* the managers are off duty
    faults

dialogVars == <<state, data, summaries, shown, accepted>>
orderVars == <<handler, orders, broken>>
vars == <<rateVars, dialogVars, orderVars, offline, faults>>

States == {"none", "country", "service", "city", "currency", "amount", "confirming"}

NoData == [country |-> None, method |-> None, city |-> None, sell |-> None,
           amount |-> 0, ack |-> FALSE, summary |-> 0]
Idle == [at |-> "idle", data |-> NoData, shown |-> NoData, accepted |-> FALSE, offline |-> FALSE]

Data == [country : Countries \cup {None}, method : Methods \cup {None},
         city : Cities \cup {None}, sell : Sells \cup {None},
         amount : Amounts \cup {0}, ack : BOOLEAN, summary : 0..MaxSummaries]

TypeOK ==
    /\ RateTypeOK
    /\ state \in States /\ data \in Data
    /\ summaries \in 0..MaxSummaries /\ shown \in Data /\ accepted \in BOOLEAN
    /\ handler \in [Handlers -> [at : {"idle", "checked", "created"}, data : Data, shown : Data,
                                 accepted : BOOLEAN, offline : BOOLEAN]]
    /\ orders \in [1..MaxSummaries -> 0..2] /\ broken \subseteq 1..summaries
    /\ offline \in BOOLEAN /\ faults \in 0..MaxFaults

Init ==
    /\ RateInit
    /\ state = "none" /\ data = NoData
    /\ summaries = 0 /\ shown = NoData /\ accepted = FALSE
    /\ handler = [h \in Handlers |-> Idle]
    /\ orders = [s \in 1..MaxSummaries |-> 0] /\ broken = {}
    /\ offline = FALSE /\ faults = 0

Fine == UNCHANGED faults
Fault == faults < MaxFaults /\ faults' = faults + 1

----------------------------------------------------------------------------
(* The steps of the dialog. *)

\* Mutant: the acceptance of the off-hours warning survives.
ClearedKeepingAck == [NoData EXCEPT !.ack = data.ack]

\* state.clear
Cleared == NoData

\* The dialog begins again: /start, "cancel", a step whose data are missing.
Anew == state' = "country" /\ data' = Cleared /\ shown' = NoData /\ accepted' = FALSE

\* The delivery of cash below the limit costs something, whose price takes a rate of USDT.
Deliverable(d) == d.method = "cash" /\ d.amount < FreeDelivery => Quotable("USDT", Buys[d.country])

\* build_quote finds what it needs.
Priced(d) == Quotable(d.sell, Buys[d.country]) /\ Deliverable(d)

\* The service step.
ToService(d) ==
    IF d.country # None
    THEN state' = "service" /\ data' = d /\ UNCHANGED <<shown, accepted>>
    ELSE Anew

\* The pairs between which the currency step lets choose.
Offered(country) == {s \in Sells : Quotable(s, Buys[country])}

\* The currency step; without a rate for the country the dialog begins again.
ToCurrency(d) ==
    IF d.country # None /\ Offered(d.country) # {}
    THEN state' = "currency" /\ data' = d /\ UNCHANGED <<shown, accepted>>
    ELSE Anew

\* The city step; a country without cities has none.
ToCity(d) ==
    IF d.country # None /\ \E c \in Cities : CityCountry[c] = d.country
    THEN state' = "city" /\ data' = d /\ UNCHANGED <<shown, accepted>>
    ELSE ToCurrency(d)

\* The amount step shows the rate if there is one.
ToAmount(d) == state' = "amount" /\ data' = d /\ UNCHANGED <<shown, accepted>>

\* The summary and its button.
ToConfirming(d) ==
    /\ state' = "confirming" /\ summaries' = summaries + 1
    /\ data' = [d EXCEPT !.summary = summaries + 1]
    /\ shown' = data'

\* What a step only reads: the rates it shows, the customer.
Dialog == Fine /\ UNCHANGED <<rateVars, summaries, orderVars, offline>>

Start == Anew /\ Dialog

PickCountry(c) ==
    /\ state = "country" /\ ToService([data EXCEPT !.country = c])
    /\ Dialog

PickService(m) ==
    /\ state = "service"
    /\ LET d == [data EXCEPT !.method = m]
       IN  IF m = "cash" THEN ToCity(d) ELSE ToCurrency(d)
    /\ Dialog

\* A button of an older message names any city.
PickCity(c) ==
    /\ state = "city" /\ ToCurrency([data EXCEPT !.city = c])
    /\ Dialog

PickCurrency(s) ==
    /\ state = "currency" /\ ToAmount([data EXCEPT !.sell = s])
    /\ Dialog

\* A message with an amount: too small, without a rate, or shown for confirmation.
EnterAmount(a) ==
    /\ state = "amount" /\ a >= MinAmount[data.method]
    /\ LET d == [data EXCEPT !.amount = a]
       IN  IF Priced(d) THEN summaries < MaxSummaries /\ ToConfirming(d)
           ELSE data' = d /\ UNCHANGED <<state, summaries, shown>>
    /\ Fine /\ UNCHANGED <<rateVars, accepted, orderVars, offline>>

Back ==
    /\ \/ state = "confirming" /\ ToAmount(data)
       \/ state = "amount" /\ ToCurrency(data)
       \/ state \in {"currency", "city"} /\ ToService(data)
       \/ state = "service" /\ Anew
    /\ Dialog

----------------------------------------------------------------------------
(* The confirmation. *)

\* Mutant: the button is obeyed in every state of the dialog.
ObeysAnyState == data.summary # 0

\* The filter of the handler.
Obeys == state = "confirming"

\* The handler reads the data, then the schedule; without an acceptance of the warning
\* it only shows it.  "confirm_offline" notes the acceptance and does the same.
Press(h, accepts) ==
    /\ Obeys /\ handler[h] = Idle
    /\ data' = IF accepts THEN [data EXCEPT !.ack = TRUE] ELSE data
    /\ accepted' = (accepted \/ accepts)
    /\ handler' = IF offline /\ ~data'.ack THEN handler
                  ELSE [handler EXCEPT ![h] = [at |-> "checked", data |-> data', shown |-> shown,
                                               accepted |-> accepted', offline |-> offline]]
    /\ broken' = broken \cup {data.summary : g \in {g \in Handlers : handler[g] # Idle}}
    /\ Fine /\ UNCHANGED <<rateVars, state, summaries, shown, orders, offline>>

\* Only cash has a city: the chosen one, or else the customer's own.
OrderCity(d) ==
    IF d.method # "cash" THEN None ELSE IF d.city # None THEN d.city ELSE UserCity

\* Mutant: any city that exists will do for cash.
AcceptableAnywhere(d) ==
    /\ d.method = "cash" => OrderCity(d) # None
    /\ d.amount >= MinAmount[d.method] /\ Priced(d)

\* The checks of create_order_for_user, each with an error of its own.
Acceptable(d) ==
    /\ d.method = "cash" => OrderCity(d) # None /\ CityCountry[OrderCity(d)] = d.country
    /\ d.amount >= MinAmount[d.method] /\ Priced(d)

Goes(h, place) == handler' = [handler EXCEPT ![h] = IF place = "idle" THEN Idle ELSE [@ EXCEPT !.at = place]]

\* The order is committed.
Create(h) ==
    /\ handler[h].at = "checked" /\ Acceptable(handler[h].data)
    /\ orders' = [orders EXCEPT ![handler[h].data.summary] = IF @ = 2 THEN 2 ELSE @ + 1]
    /\ Goes(h, "created")
    /\ Fine /\ UNCHANGED <<rateVars, dialogVars, broken, offline>>

\* The order is refused, or the database fails before the commit: the customer is told
\* so and the dialog stays where it is.
Refuse(h) ==
    /\ handler[h].at = "checked"
    /\ Goes(h, "idle")
    /\ Fine /\ UNCHANGED <<rateVars, dialogVars, orders, broken, offline>>

\* The handler breaks off after the commit: the process ends, or the order cannot be
\* read again and the customer is told that there is none.
BreakOff(h) ==
    /\ handler[h].at = "created" /\ Fault
    /\ broken' = broken \cup {handler[h].data.summary}
    /\ Goes(h, "idle")
    /\ UNCHANGED <<rateVars, dialogVars, orders, offline>>

\* Mutant: a card Telegram refuses ends the handler before the dialog is cleared.
FinishUncleared(h) ==
    /\ handler[h].at = "created"
    /\ \/ Fine /\ Anew
       \/ Fault /\ UNCHANGED <<state, data, shown, accepted>>
    /\ Goes(h, "idle")
    /\ UNCHANGED <<rateVars, summaries, orders, broken, offline>>

\* The customer gets the card or, when Telegram refuses it, an alert; the dialog
\* is cleared in both cases.
Finish(h) ==
    /\ handler[h].at = "created"
    /\ Anew
    /\ Goes(h, "idle")
    /\ Fine /\ UNCHANGED <<rateVars, summaries, orders, broken, offline>>

\* The working hours begin or end, or the schedule is changed.
Shift ==
    /\ offline' = ~offline
    /\ Fine /\ UNCHANGED <<rateVars, dialogVars, orderVars>>

UpdateRates == RateNext /\ Fine /\ UNCHANGED <<dialogVars, orderVars, offline>>

Next ==
    \/ Start \/ Back \/ Shift \/ UpdateRates
    \/ \E c \in Countries : PickCountry(c)
    \/ \E m \in Methods : PickService(m)
    \/ \E c \in Cities : PickCity(c)
    \/ \E s \in Sells : PickCurrency(s)
    \/ \E a \in Amounts : EnterAmount(a)
    \/ \E h \in Handlers :
          \/ \E accepts \in BOOLEAN : Press(h, accepts)
          \/ Create(h) \/ Refuse(h) \/ BreakOff(h) \/ Finish(h)

Spec == Init /\ [][Next]_vars

----------------------------------------------------------------------------
\* One confirmation makes one order, however often its button is pressed, unless its
\* handling broke off after the commit or two presses were handled at the same time.
OneOrderPerSummary ==
    \A s \in 1..MaxSummaries : orders[s] > 1 => s \in broken

\* An order is what its confirmation showed, whichever old button was pressed and
\* however the customer went back and forth; a cash order has a city of its country.
OrderAsShown ==
    \A h \in Handlers : handler[h].at = "created" =>
        LET o == handler[h].data
            s == handler[h].shown
        IN  /\ o.country = s.country /\ o.method = s.method
            /\ o.sell = s.sell /\ o.amount = s.amount /\ o.city = s.city
            /\ o.method = "cash" => CityCountry[OrderCity(o)] = o.country

\* While the managers are off duty an order is made only by a customer who accepted
\* that in the same dialog.
NoSilentOfflineOrder ==
    \A h \in Handlers :
        handler[h].at = "created" /\ handler[h].offline => handler[h].accepted
=============================================================================
