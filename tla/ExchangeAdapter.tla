--------------------------- MODULE ExchangeAdapter ---------------------------
(***************************************************************************)
(* What the service sees of an exchange through exchange.Adapter: the      *)
(* simulated adapter of internal/exchange/simulated.go, whose orders live  *)
(* in the process, and the exchanges behind the CCXT adapter, whose orders *)
(* outlive it and may fill later.  Quantities are signed: a SELL is        *)
(* negative.                                                               *)
(***************************************************************************)
EXTENDS Integers, FiniteSets

CONSTANTS MaxOrders,  \* bound: orders placed
          ClientIds,  \* client order ids; "" is none
          Keys,       \* API keys; "" is none
          Symbols

ASSUME AdapterAssumption == MaxOrders \in Nat /\ "" \in ClientIds /\ "" \in Keys

VARIABLES adapter,      \* EXCHANGE_ADAPTER
          orders,       \* by exchange order id
          placed,       \* how many orders were ever placed
          clientOrders, \* client order id -> the last order placed with it
          settings      \* leverage and margin mode, as numbers

adapterVars == <<adapter, orders, placed, clientOrders, settings>>

NoOrder == [status |-> "none"]
Known == {o \in 1 .. MaxOrders : orders[o] # NoOrder}
FinalStatuses == {"filled", "canceled", "failed"}
Final(o) == orders[o].status \in FinalStatuses

Abs(q) == IF q < 0 THEN -q ELSE q

\* The simulated adapter tells accounts apart by exchange and account name, an
\* exchange by the credentials.
Owner(ref) == IF adapter = "simulated" THEN ref.identity ELSE ref.key

\* The sum of the amounts of all orders.
Total(amount) ==
    LET upTo[n \in 0 .. MaxOrders] == IF n = 0 THEN 0 ELSE upTo[n - 1] + amount[n]
    IN  upTo[MaxOrders]

\* FetchPositions: what the orders of the account have filled.
Position(owner, s) ==
    Total([o \in 1 .. MaxOrders |->
             IF orders[o].status = "filled" /\ orders[o].owner = owner /\ orders[o].symbol = s
             THEN orders[o].filled ELSE 0])

\* What an order fills: the simulated adapter ignores reduce_only, an exchange
\* cuts such an order to the position it reduces.
Fill(owner, s, q, reduceOnly) ==
    LET held == Position(owner, s)
    IN  IF adapter = "simulated" \/ ~reduceOnly THEN q
        ELSE IF q * held >= 0 THEN 0
        ELSE IF Abs(q) <= Abs(held) THEN q ELSE -held

\* PlaceOrder: the order gets the next id and is filled at once, or has the
\* status the request simulates (an exchange: rests in the book).
PlaceOrder(ref, cid, s, q, reduceOnly, status) ==
    LET o == placed + 1
        owner == Owner(ref)
    IN  /\ placed < MaxOrders /\ q # 0
        /\ placed' = o
        /\ orders' = [orders EXCEPT ![o] =
              [owner |-> owner, key |-> ref.key, symbol |-> s, quantity |-> q, reduceOnly |-> reduceOnly,
               status |-> status,
               filled |-> IF status = "filled" THEN Fill(owner, s, q, reduceOnly) ELSE 0]]
        /\ clientOrders' = IF cid = "" THEN clientOrders ELSE [clientOrders EXCEPT ![cid] = o]
        /\ UNCHANGED <<adapter, settings>>

\* findOrderLocked: by order id, else by client order id; 0 when there is none.
\* An exchange shows an account its own orders only.
FindOrder(owner, o, cid) ==
    LET visible == {x \in Known : adapter = "simulated" \/ orders[x].owner = owner}
    IN  IF o \in visible THEN o
        ELSE IF cid # "" /\ clientOrders[cid] \in visible THEN clientOrders[cid] ELSE 0

\* CancelOrder refuses an order that is not found (ErrOrderNotFound) or final
\* (ErrOrderAlreadyFinal).
MayCancel(o) == o # 0 /\ ~Final(o)

CancelOrder(o) ==
    /\ MayCancel(o)
    /\ orders' = [orders EXCEPT ![o].status = "canceled"]
    /\ UNCHANGED <<adapter, placed, clientOrders, settings>>

\* SetLeverage and SetMarginMode: the simulated adapter stores nothing ...
SetSetting(ref, s, kind, v) ==
    /\ settings' = IF adapter = "simulated" THEN settings
                   ELSE [settings EXCEPT ![ref.key][s][kind] = v]
    /\ UNCHANGED <<adapter, orders, placed, clientOrders>>

\* ... and shows leverage 1 and the margin mode of the account (1 here) with
\* every position.
Observed(key, s, kind) == IF adapter = "simulated" THEN 1 ELSE settings[key][s][kind]

\* A resting order of an exchange is filled.
ExchangeFill(o) ==
    /\ adapter = "ccxt"
    /\ o \in Known /\ ~Final(o)
    /\ orders' = [orders EXCEPT ![o].status = "filled",
                                ![o].filled = Fill(orders[o].owner, orders[o].symbol,
                                                   orders[o].quantity, orders[o].reduceOnly)]
    /\ UNCHANGED <<adapter, placed, clientOrders, settings>>

\* The process ends, and with it the orders of the simulated adapter.
AdapterRestart ==
    /\ orders' = IF adapter = "simulated" THEN [o \in 1 .. MaxOrders |-> NoOrder] ELSE orders
    /\ clientOrders' = IF adapter = "simulated" THEN [c \in ClientIds |-> 0] ELSE clientOrders
    /\ UNCHANGED <<adapter, placed, settings>>

AdapterInit ==
    /\ adapter \in {"simulated", "ccxt"}
    /\ orders = [o \in 1 .. MaxOrders |-> NoOrder]
    /\ placed = 0
    /\ clientOrders = [c \in ClientIds |-> 0]
    /\ settings = [k \in Keys |-> [s \in Symbols |-> [leverage |-> 1, margin_mode |-> 1]]]
==============================================================================
