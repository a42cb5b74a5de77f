-------------------------- MODULE ExternalOps_proofs --------------------------
(***************************************************************************)
(* Proofs about the adapter API and the tasks that follow its orders, for  *)
(* any accounts, handlers and orders, any number of attempts and any       *)
(* failures.                                                               *)
(***************************************************************************)
EXTENDS ExternalOps, TLAPS, WellFoundedInduction
------------------------------------------------------------------------------
(* The inductive invariant *)

IsOrder(x) ==
    /\ x = [owner |-> x.owner, key |-> x.key, symbol |-> x.symbol, quantity |-> x.quantity,
            reduceOnly |-> x.reduceOnly, status |-> x.status, filled |-> x.filled]
    /\ x.status \in FinalStatuses \cup {"submitted"}
    /\ x.quantity \in Int /\ x.filled \in Int

\* The exchange: orders are numbered one after the other, and behind CCXT an
\* order belongs to the key it was placed with.
AdapterPart ==
    /\ adapter \in {"simulated", "ccxt"}
    /\ placed \in 0 .. MaxOrders
    /\ orders = [o \in 1 .. MaxOrders |-> orders[o]]
    /\ \A o \in 1 .. MaxOrders : orders[o] = NoOrder \/ IsOrder(orders[o])
    /\ \A o \in 1 .. MaxOrders : o > placed => orders[o] = NoOrder
    /\ \A o \in 1 .. MaxOrders : adapter = "ccxt" /\ orders[o] # NoOrder
                                   => orders[o].owner = orders[o].key

\* Order o is on the exchange, under one of these keys, when the adapter and the
\* orders are these.
PlacedWith(o, keys, ad, os) == ad = "ccxt" => os[o] # NoOrder /\ os[o].key \in keys

IsClosing(l) ==
    /\ l = [pc |-> "close", ref |-> l.ref, todo |-> l.todo]
    /\ l.todo \in [Symbols -> Int]

\* What a handler is to have followed is its own order.
IsScheduling(l, ad, os) ==
    /\ l = Scheduling(l.ref, l.subject, l.todo)
    /\ l.subject \in Subject
    /\ l.todo \in [Symbols -> Int]
    /\ l.subject.kind = "order" => PlacedWith(l.subject.o, {l.ref.key}, ad, os)

IsHandler(l, ad, os) == l = Idle \/ IsClosing(l) \/ IsScheduling(l, ad, os)

HandlerPart ==
    /\ http = [h \in Handler |-> http[h]]
    /\ \A h \in Handler : IsHandler(http[h], adapter, orders)

\* A task of an order comes after as many lookups as its attempt says, ends only
\* when the order has, and has the order's key.
FollowsOrder(t, ad, os, looked) ==
    t.subject.kind = "order" =>
       /\ looked[t.subject.o] >= t.attempt
       /\ t.state # "waiting" => looked[t.subject.o] > t.attempt
       /\ t.state = "done" => os[t.subject.o].status \in FinalStatuses
       /\ PlacedWith(t.subject.o, {"", Stored[t.acct].key}, ad, os)

QueuePart ==
    /\ queue \subseteq Task
    /\ \A t \in queue : FollowsOrder(t, adapter, orders, lookups)

HistoryPart ==
    /\ lookups \in [1 .. MaxOrders -> 0 .. Attempts]
    /\ acked \subseteq 1 .. placed
    /\ audited \cup exhausted \cup lost \cup unaudited \subseteq 1 .. MaxOrders
    /\ OpenOrderFollowed
    /\ ExhaustedAfterAll

IInv == AdapterPart /\ HandlerPart /\ QueuePart /\ HistoryPart
------------------------------------------------------------------------------
(* Basic facts *)

\* What is assumed of the constants.
LEMMA Constants ==
    /\ MaxOrders \in Nat /\ Attempts \in Nat /\ Attempts > 0
    /\ Quantities \subseteq Int
<1>1. Attempts \in Nat \ {0} /\ Quantities \subseteq Int
  BY OpsAssumption, Zenon DEF OpsAssumption
<1>2. MaxOrders \in Nat
  BY AdapterAssumption DEF AdapterAssumption
<1> QED BY <1>1, <1>2

\* The orders of one subject.
LEMMA OrdersOfOne ==
    \A o, x : o \in OrdersOf({x}) <=> x.kind = "order" /\ o = x.o
BY DEF OrdersOf

\* Where a handler is.
LEMMA HandlerPc ==
    ASSUME NEW l, NEW ad, NEW os, IsHandler(l, ad, os)
    PROVE  /\ l.pc \in {"idle", "close", "schedule"}
           /\ l.pc = "idle" => l = Idle
           /\ l.pc = "close" => IsClosing(l)
           /\ l.pc = "schedule" => IsScheduling(l, ad, os)
<1>1. CASE l = Idle
  BY <1>1 DEF Idle
<1>2. CASE IsClosing(l)
  <2>1. l.pc = "close"
    BY <1>2 DEF IsClosing
  <2> QED BY <1>2, <2>1
<1>3. CASE IsScheduling(l, ad, os)
  <2>1. l.pc = "schedule"
    BY <1>3 DEF IsScheduling, Scheduling
  <2> QED BY <1>3, <2>1
<1> QED BY <1>1, <1>2, <1>3 DEF IsHandler

\* The subject of a task: an order or a setting.
LEMMA SubjectShape ==
    ASSUME NEW x \in Subject
    PROVE  /\ x.kind = "order" => x = [kind |-> "order", o |-> x.o] /\ x.o \in 1 .. MaxOrders
           /\ x.kind \in {"order"} \cup SettingKinds
BY DEF Subject, SettingKinds

\* A new task.
LEMMA TaskShape ==
    ASSUME NEW t \in Task
    PROVE  /\ t = [acct |-> t.acct, subject |-> t.subject, attempt |-> t.attempt, state |-> t.state]
           /\ t.acct \in Account /\ t.subject \in Subject /\ t.attempt \in 0 .. Attempts - 1
           /\ t.state \in {"waiting", "again", "done"}
BY DEF Task

\* The order that is found is on the exchange; on an exchange it is the owner's.
LEMMA Found ==
    \A owner, o, cid : FindOrder(owner, o, cid) # 0 =>
       /\ FindOrder(owner, o, cid) \in 1 .. MaxOrders
       /\ orders[FindOrder(owner, o, cid)] # NoOrder
       /\ adapter # "simulated" => orders[FindOrder(owner, o, cid)].owner = owner
       /\ cid = "" => FindOrder(owner, o, cid) = o
<1> SUFFICES ASSUME NEW owner, NEW o, NEW cid, FindOrder(owner, o, cid) # 0
             PROVE  /\ FindOrder(owner, o, cid) \in 1 .. MaxOrders
                    /\ orders[FindOrder(owner, o, cid)] # NoOrder
                    /\ adapter # "simulated" => orders[FindOrder(owner, o, cid)].owner = owner
                    /\ cid = "" => FindOrder(owner, o, cid) = o
  OBVIOUS
<1> DEFINE visible == {x \in Known : adapter = "simulated" \/ orders[x].owner = owner}
<1>1. FindOrder(owner, o, cid) \in visible /\ (cid = "" => FindOrder(owner, o, cid) = o)
  BY DEF FindOrder
<1> QED BY <1>1 DEF Known
------------------------------------------------------------------------------
(* Sums over the orders *)

\* The least of some numbers.
LEMMA LeastOf ==
    ASSUME NEW T \in SUBSET Nat, T # {}
    PROVE  \E x \in T : \A y \in T : x <= y
<1>1. PICK x \in T : \A y \in T : ~(<<y, x>> \in OpToRel(<, Nat))
  BY NatLessThanWellFounded, WFMin
<1>2. \A y \in T : y \in Nat /\ ~(y < x)
  BY <1>1 DEF OpToRel
<1>3. \A y \in T : x <= y
  BY <1>2
<1> QED BY <1>3

\* f adds up the first n amounts.
AddsUp(f, amount, n) ==
    /\ f \in [0 .. n -> Int]
    /\ f[0] = 0
    /\ \A i \in 1 .. n : f[i] = f[i - 1] + amount[i]

\* There is such a function for all the amounts.
LEMMA PartialSums ==
    ASSUME NEW amount \in [1 .. MaxOrders -> Int]
    PROVE  \E f : AddsUp(f, amount, MaxOrders)
<1> DEFINE T == {n \in 0 .. MaxOrders : ~\E f : AddsUp(f, amount, n)}
<1>1. T = {}
  <2> SUFFICES ASSUME T # {} PROVE FALSE
    OBVIOUS
  <2>1. T \in SUBSET Nat
    BY Constants
  <2>2. PICK n \in T : \A m \in T : n <= m
    BY <2>1, LeastOf
  <2>3. n \in 0 .. MaxOrders /\ n \in Nat
    BY <2>1
  <2>4. n # 0
    <3>1. AddsUp([i \in 0 .. 0 |-> 0], amount, 0)
      BY DEF AddsUp
    <3> QED BY <3>1, <2>2
  <2>5. n - 1 \in 0 .. MaxOrders /\ n - 1 \notin T
    BY <2>2, <2>3, <2>4, Constants
  <2>6. PICK f : AddsUp(f, amount, n - 1)
    BY <2>5
  <2> DEFINE g == [i \in 0 .. n |-> IF i = n THEN f[n - 1] + amount[n] ELSE f[i]]
  <2>7. AddsUp(g, amount, n)
    <3>1. f \in [0 .. n - 1 -> Int] /\ f[0] = 0 /\ \A i \in 1 .. n - 1 : f[i] = f[i - 1] + amount[i]
      BY <2>6 DEF AddsUp
    <3>2. n \in 1 .. MaxOrders /\ amount[n] \in Int /\ f[n - 1] \in Int
      <4>1. n \in 1 .. MaxOrders /\ n - 1 \in 0 .. n - 1
        BY <2>3, <2>4, Constants
      <4> QED BY <3>1, <4>1
    <3>3. g \in [0 .. n -> Int]
      BY <2>3, <3>1, <3>2
    <3>4. g[0] = 0
      BY <2>3, <2>4, <3>1
    <3>5. ASSUME NEW i \in 1 .. n PROVE g[i] = g[i - 1] + amount[i]
      <4>1. i - 1 \in 0 .. n /\ i - 1 # n /\ i \in 0 .. n /\ g[i - 1] = f[i - 1]
        BY <2>3
      <4>2. CASE i = n
        BY <4>1, <4>2
      <4>3. CASE i # n
        BY <2>3, <3>1, <4>1, <4>3
      <4> QED BY <4>2, <4>3
    <3> QED BY <3>3, <3>4, <3>5 DEF AddsUp
  <2> QED BY <2>2, <2>7
<1>2. MaxOrders \in 0 .. MaxOrders
  BY Constants
<1> QED BY <1>1, <1>2

\* Two functions that add up the same amounts are the same at every number.
LEMMA SumsUnique ==
    ASSUME NEW amount \in [1 .. MaxOrders -> Int], NEW f, AddsUp(f, amount, MaxOrders),
           NEW g, g[0] = 0, \A i \in 1 .. MaxOrders : g[i] = g[i - 1] + amount[i]
    PROVE  \A n \in 0 .. MaxOrders : g[n] = f[n]
<1> DEFINE T == {n \in 0 .. MaxOrders : g[n] # f[n]}
<1> SUFFICES ASSUME T # {} PROVE FALSE
  OBVIOUS
<1>1. T \in SUBSET Nat
  BY Constants
<1>2. PICK n \in T : \A m \in T : n <= m
  BY <1>1, LeastOf
<1>3. n \in 1 .. MaxOrders
  BY <1>2, Constants DEF AddsUp
<1>4. n - 1 \in 0 .. MaxOrders /\ n - 1 \notin T
  BY <1>2, <1>3, Constants
<1>5. g[n - 1] = f[n - 1]
  BY <1>4
<1>6. g[n] = f[n]
  BY <1>3, <1>5 DEF AddsUp
<1> QED BY <1>2, <1>6

\* Total is the last of the partial sums.
LEMMA TotalAddsUp ==
    ASSUME NEW amount \in [1 .. MaxOrders -> Int]
    PROVE  \E f : AddsUp(f, amount, MaxOrders) /\ Total(amount) = f[MaxOrders]
<1>1. PICK f : AddsUp(f, amount, MaxOrders)
  BY PartialSums
<1> DEFINE R(h) == [n \in 0 .. MaxOrders |-> IF n = 0 THEN 0 ELSE h[n - 1] + amount[n]]
           g == CHOOSE h : h = R(h)
<1>2. f = R(f)
  <2>1. f = [n \in 0 .. MaxOrders |-> f[n]]
    BY <1>1 DEF AddsUp
  <2>2. \A n \in 0 .. MaxOrders : f[n] = IF n = 0 THEN 0 ELSE f[n - 1] + amount[n]
    BY <1>1, Constants DEF AddsUp
  <2> QED BY <2>1, <2>2
<1>3. g = R(g)
  <2> HIDE DEF R
  <2> QED BY <1>2
<1>4. Total(amount) = g[MaxOrders]
  BY DEF Total
<1> HIDE DEF g
<1>5. g[0] = 0
  BY <1>3, Constants
<1>6. \A i \in 1 .. MaxOrders : g[i] = g[i - 1] + amount[i]
  BY <1>3, Constants
<1> HIDE DEF R
<1>7. g[MaxOrders] = f[MaxOrders]
  <2>1. \A n \in 0 .. MaxOrders : g[n] = f[n]
    BY <1>1, <1>5, <1>6, SumsUnique
  <2> QED BY <2>1, Constants
<1> QED BY <1>1, <1>4, <1>7

\* Sums of whole numbers are whole numbers.
LEMMA TotalType ==
    ASSUME NEW amount \in [1 .. MaxOrders -> Int]
    PROVE  Total(amount) \in Int
BY TotalAddsUp, Constants DEF AddsUp

\* One amount changes, and the sum with it.
LEMMA TotalChange ==
    ASSUME NEW a \in [1 .. MaxOrders -> Int], NEW b \in [1 .. MaxOrders -> Int],
           NEW k \in 1 .. MaxOrders, \A n \in 1 .. MaxOrders : n # k => b[n] = a[n]
    PROVE  Total(b) = Total(a) + (b[k] - a[k])
<1>1. PICK f : AddsUp(f, a, MaxOrders) /\ Total(a) = f[MaxOrders]
  BY TotalAddsUp
<1>2. PICK g : AddsUp(g, b, MaxOrders) /\ Total(b) = g[MaxOrders]
  BY TotalAddsUp
<1> DEFINE d == b[k] - a[k]
           T == {n \in 0 .. MaxOrders : g[n] # IF n >= k THEN f[n] + d ELSE f[n]}
<1>3. T = {}
  <2> SUFFICES ASSUME T # {} PROVE FALSE
    OBVIOUS
  <2>1. T \in SUBSET Nat
    BY Constants
  <2>2. PICK n \in T : \A m \in T : n <= m
    BY <2>1, LeastOf
  <2>3. n \in 1 .. MaxOrders /\ n \in Nat /\ k \in Nat /\ k >= 1
    BY <1>1, <1>2, <2>2, Constants DEF AddsUp
  <2>4. n - 1 \in 0 .. MaxOrders /\ n - 1 \notin T
    BY <2>2, <2>3, Constants
  <2>5. g[n - 1] = IF n - 1 >= k THEN f[n - 1] + d ELSE f[n - 1]
    BY <2>4
  <2>6. g[n] = g[n - 1] + b[n] /\ f[n] = f[n - 1] + a[n]
    BY <1>1, <1>2, <2>3 DEF AddsUp
  <2>7. f[n - 1] \in Int /\ a[n] \in Int /\ b[n] \in Int /\ a[k] \in Int /\ b[k] \in Int
    BY <1>1, <2>3, <2>4 DEF AddsUp
  <2>8. g[n] = IF n >= k THEN f[n] + d ELSE f[n]
    <3>1. CASE n = k
      BY <2>3, <2>5, <2>6, <2>7, <3>1
    <3>2. CASE n # k
      BY <2>3, <2>5, <2>6, <2>7, <3>2
    <3> QED BY <3>1, <3>2
  <2> QED BY <2>2, <2>8
<1>4. g[MaxOrders] = f[MaxOrders] + d
  BY <1>3, Constants
<1> QED BY <1>1, <1>2, <1>4

\* What order x adds to the position of an owner.
Amount(x, owner, s) ==
    IF x.status = "filled" /\ x.owner = owner /\ x.symbol = s THEN x.filled ELSE 0

\* Positions are whole numbers.
LEMMA PositionType == ASSUME AdapterPart PROVE \A owner, s : Position(owner, s) \in Int
<1>1. ASSUME NEW owner, NEW s PROVE Position(owner, s) \in Int
  <2> DEFINE a == [o \in 1 .. MaxOrders |-> Amount(orders[o], owner, s)]
  <2>1. Position(owner, s) = Total(a)
    BY DEF Position, Amount
  <2>2. a \in [1 .. MaxOrders -> Int]
    BY DEF AdapterPart, IsOrder, Amount, NoOrder
  <2> HIDE DEF a
  <2> QED BY <2>1, <2>2, TotalType
<1> QED BY <1>1
------------------------------------------------------------------------------
(* What a step may do *)

\* An order stays on the exchange with its key, and one that has ended has ended.
OrdersGrow ==
    /\ adapter' = adapter
    /\ \A o \in 1 .. MaxOrders : orders[o] # NoOrder =>
          /\ orders'[o] # NoOrder /\ orders'[o].key = orders[o].key
          /\ orders[o].status \in FinalStatuses => orders'[o].status \in FinalStatuses
    /\ \A o \in acked : orders'[o] # NoOrder => orders[o] # NoOrder

GivenUp == audited \cup exhausted \cup lost \cup unaudited

\* Somebody else takes over, the order has ended, or it is given up.
TakenOver(x) ==
    x.kind = "order" =>
      \/ \E u \in queue' : u.subject = x
      \/ orders'[x.o].status \in FinalStatuses
      \/ x.o \in GivenUp'

LEMMA SameOrders == ASSUME IInv, UNCHANGED <<adapter, orders>> PROVE OrdersGrow
BY DEF OrdersGrow

LEMMA SameAdapter == ASSUME IInv, UNCHANGED <<adapter, orders, placed>> PROVE AdapterPart'
BY DEF IInv, AdapterPart

\* Local states and tasks stay right while the orders grow.
LEMMA StillRight ==
    ASSUME IInv, OrdersGrow
    PROVE  /\ \A l : IsHandler(l, adapter, orders) => IsHandler(l, adapter', orders')
           /\ \A t \in Task : FollowsOrder(t, adapter, orders, lookups)
                                => FollowsOrder(t, adapter', orders', lookups)
<1>1. \A o \in 1 .. MaxOrders : \A keys :
         PlacedWith(o, keys, adapter, orders) => PlacedWith(o, keys, adapter', orders')
  BY DEF PlacedWith, OrdersGrow
<1>2. ASSUME NEW l, IsHandler(l, adapter, orders) PROVE IsHandler(l, adapter', orders')
  <2>1. CASE IsScheduling(l, adapter, orders)
    <3>1. l.subject.kind = "order" => l.subject.o \in 1 .. MaxOrders
      BY <2>1, SubjectShape DEF IsScheduling
    <3> QED BY <1>1, <2>1, <3>1 DEF IsScheduling, IsHandler
  <2> QED BY <1>2, <2>1 DEF IsHandler
<1>3. ASSUME NEW t \in Task, FollowsOrder(t, adapter, orders, lookups)
      PROVE  FollowsOrder(t, adapter', orders', lookups)
  <2>1. t.subject.kind = "order" => t.subject.o \in 1 .. MaxOrders
    BY TaskShape, SubjectShape
  <2>2. \A o \in 1 .. MaxOrders : orders[o].status \in FinalStatuses => orders[o] # NoOrder
    BY DEF NoOrder, FinalStatuses
  <2> QED BY <1>1, <1>3, <2>1, <2>2 DEF FollowsOrder, OrdersGrow
<1> QED BY <1>2, <1>3

\* One handler moves.
LEMMA HandlerMoves ==
    ASSUME IInv, OrdersGrow, NEW h \in Handler, NEW l, Goto(h, l), IsHandler(l, adapter', orders')
    PROVE  /\ HandlerPart'
           /\ http'[h] = l /\ \A g \in Handler : g # h => http'[g] = http[g]
<1>1. /\ http' = [g \in Handler |-> http'[g]] /\ http'[h] = l
      /\ \A g \in Handler : g # h => http'[g] = http[g]
  BY DEF Goto, IInv, HandlerPart
<1> QED BY <1>1, StillRight DEF IInv, HandlerPart

\* No handler moves.
LEMMA HandlersStay ==
    ASSUME IInv, OrdersGrow, http' = http PROVE HandlerPart'
BY StillRight DEF IInv, HandlerPart

\* The queue stays as it is.
LEMMA QueueStays ==
    ASSUME IInv, OrdersGrow, UNCHANGED <<queue, lookups>> PROVE QueuePart'
BY StillRight DEF IInv, QueuePart

\* An open order is followed after a step that lets nobody go without a
\* successor.
LEMMA OpenKept ==
    ASSUME IInv, OrdersGrow, GivenUp \subseteq GivenUp',
           \A t \in queue : TakenOver(t.subject),
           \A h \in Handler : http[h].pc = "schedule" =>
              (http'[h].pc = "schedule" /\ http'[h].subject = http[h].subject) \/ TakenOver(http[h].subject),
           \A o \in acked' \ acked : \/ orders'[o].status \in FinalStatuses \/ o \in GivenUp'
                                     \/ \E h \in Handler : /\ http'[h].pc = "schedule"
                                                           /\ http'[h].subject = [kind |-> "order", o |-> o]
    PROVE  OpenOrderFollowed'
<1> SUFFICES ASSUME NEW o \in acked', orders'[o] # NoOrder, o \in 1 .. MaxOrders,
                    orders'[o].status \notin FinalStatuses, o \notin GivenUp'
             PROVE  Followed(o)'
  BY DEF OpenOrderFollowed, Known, Final, GivenUp
<1>1. CASE o \notin acked
  <2>1. PICK h \in Handler : http'[h].pc = "schedule" /\ http'[h].subject = [kind |-> "order", o |-> o]
    BY <1>1
  <2>2. o \in OrdersOf({http'[h].subject})
    BY <2>1, OrdersOfOne
  <2> QED BY <2>1, <2>2 DEF Followed
<1>2. CASE o \in acked
  <2>1. o \in Known /\ ~Final(o) /\ o \notin GivenUp
    BY <1>2 DEF OrdersGrow, Known, Final
  <2>2. Followed(o)
    BY <1>2, <2>1 DEF IInv, HistoryPart, OpenOrderFollowed, GivenUp
  <2>3. ASSUME NEW x \in Subject, x.kind = "order", x.o = o, TakenOver(x) PROVE Followed(o)'
    BY <2>3 DEF TakenOver, Followed
  <2>4. CASE \E t \in queue : t.subject.kind = "order" /\ t.subject.o = o
    BY <2>3, <2>4, TaskShape DEF IInv, QueuePart
  <2>5. CASE \E h \in Handler : http[h].pc = "schedule" /\ o \in OrdersOf({http[h].subject})
    <3>1. PICK h \in Handler : http[h].pc = "schedule" /\ o \in OrdersOf({http[h].subject})
      BY <2>5
    <3>2. http[h].subject.kind = "order" /\ http[h].subject.o = o
      BY <3>1, OrdersOfOne
    <3>3. http[h].subject \in Subject
      BY <3>1, HandlerPc DEF IInv, HandlerPart, IsScheduling
    <3>4. CASE http'[h].pc = "schedule" /\ http'[h].subject = http[h].subject
      <4>1. o \in OrdersOf({http'[h].subject})
        BY <3>1, <3>4
      <4> QED BY <3>4, <4>1 DEF Followed
    <3> QED BY <2>3, <3>1, <3>2, <3>3, <3>4
  <2> QED BY <2>2, <2>4, <2>5 DEF Followed
<1> QED BY <1>1, <1>2
------------------------------------------------------------------------------
(* The tasks *)

\* What is left of the invariant when only the queue, the counts and the lists
\* of orders given up change.
LEMMA TaskStepInv ==
    ASSUME IInv, UNCHANGED <<adapterVars, http, acked>>,
           QueuePart',
           lookups' \in [1 .. MaxOrders -> 0 .. Attempts],
           \A o \in exhausted' : lookups'[o] = Attempts,
           GivenUp \subseteq GivenUp', GivenUp' \subseteq 1 .. MaxOrders,
           \A t \in queue : TakenOver(t.subject)
    PROVE  IInv'
<1>1. OrdersGrow
  BY SameOrders DEF adapterVars
<1>2. AdapterPart'
  BY SameAdapter DEF adapterVars
<1>3. HandlerPart'
  BY <1>1, HandlersStay
<1>4. OpenOrderFollowed'
  BY <1>1, OpenKept
<1>5. HistoryPart'
  BY <1>4 DEF IInv, HistoryPart, ExhaustedAfterAll, GivenUp, adapterVars
<1> QED BY <1>2, <1>3, <1>5 DEF IInv

\* A task that stays in the queue is its own successor.
LEMMA StaysInQueue ==
    \A t \in queue : t \in queue' => TakenOver(t.subject)
BY DEF TakenOver

LEMMA HandleInv == ASSUME IInv, NEW t \in queue, Handle(t) PROVE IInv'
<1>1. PICK state \in {"done", "again"} :
         /\ state = "done" => Settles(t)
         /\ queue' = (queue \ {t}) \cup {[t EXCEPT !.state = state]}
  BY DEF Handle
<1> DEFINE u == [t EXCEPT !.state = state]
<1>2. t \in Task /\ FollowsOrder(t, adapter, orders, lookups) /\ t.state = "waiting"
  BY DEF IInv, QueuePart, Handle
<1>3. /\ u \in Task /\ u.subject = t.subject /\ u.attempt = t.attempt /\ u.acct = t.acct
      /\ u.state = state
  BY <1>2 DEF Task
<1> HIDE DEF u
<1>4. /\ lookups' \in [1 .. MaxOrders -> 0 .. Attempts]
      /\ \A o \in 1 .. MaxOrders : lookups'[o] >= lookups[o]
      /\ t.subject.kind = "order" => lookups'[t.subject.o] > t.attempt
  <2>1. \A o \in 1 .. MaxOrders : lookups[o] \in 0 .. Attempts
    BY DEF IInv, HistoryPart
  <2>2. \A o \in 1 .. MaxOrders :
           lookups'[o] = IF o \in OrdersOf({t.subject}) /\ lookups[o] < Attempts
                         THEN lookups[o] + 1 ELSE lookups[o]
    BY DEF Handle
  <2>3. \A o \in 1 .. MaxOrders : lookups'[o] \in 0 .. Attempts /\ lookups'[o] >= lookups[o]
    BY <2>1, <2>2, Constants
  <2>4. lookups' \in [1 .. MaxOrders -> 0 .. Attempts]
    BY <2>3 DEF Handle
  <2>5. ASSUME t.subject.kind = "order" PROVE lookups'[t.subject.o] > t.attempt
    <3>1. /\ t.subject.o \in 1 .. MaxOrders /\ t.subject.o \in OrdersOf({t.subject})
          /\ t.attempt \in 0 .. Attempts - 1
      BY <1>2, <2>5, TaskShape, SubjectShape, OrdersOfOne
    <3>2. lookups[t.subject.o] >= t.attempt
      BY <1>2, <2>5 DEF FollowsOrder
    <3> QED BY <2>1, <2>2, <3>1, <3>2, Constants
  <2> QED BY <2>3, <2>4, <2>5
<1>5. state = "done" /\ t.subject.kind = "order" => orders[t.subject.o].status \in FinalStatuses
  <2> SUFFICES ASSUME state = "done", t.subject.kind = "order"
               PROVE  orders[t.subject.o].status \in FinalStatuses
    OBVIOUS
  <2> DEFINE o == FindOrder(Owner(Stored[t.acct]), t.subject.o, "")
  <2>1. SeenStatus(t) \in FinalStatuses
    BY <1>1 DEF Settles
  <2>2. o # 0 /\ SeenStatus(t) = orders[o].status
    BY <2>1 DEF SeenStatus, FinalStatuses
  <2>3. o = t.subject.o
    <3>1. \A owner, x : FindOrder(owner, x, "") # 0 => FindOrder(owner, x, "") = x
      BY Found
    <3> QED BY <2>2, <3>1, Zenon
  <2> QED BY <2>1, <2>2, <2>3
<1>6. FollowsOrder(u, adapter, orders, lookups')
  <2> SUFFICES ASSUME t.subject.kind = "order" PROVE FollowsOrder(u, adapter, orders, lookups')
    BY <1>3 DEF FollowsOrder
  <2>1. t.subject.o \in 1 .. MaxOrders /\ t.attempt \in Nat
    BY <1>2, TaskShape, SubjectShape, Constants
  <2>2. lookups'[t.subject.o] \in Nat
    BY <1>4, <2>1, Constants
  <2>3. PlacedWith(u.subject.o, {"", Stored[u.acct].key}, adapter, orders)
    BY <1>2, <1>3 DEF FollowsOrder
  <2>4. lookups'[u.subject.o] > u.attempt /\ lookups'[u.subject.o] >= u.attempt
    BY <1>3, <1>4, <2>1, <2>2
  <2>5. u.state = "done" => orders[u.subject.o].status \in FinalStatuses
    BY <1>3, <1>5
  <2> QED BY <2>3, <2>4, <2>5 DEF FollowsOrder
<1>7. QueuePart'
  <2>1. ASSUME NEW v \in queue PROVE FollowsOrder(v, adapter, orders, lookups')
    <3>1. v \in Task /\ FollowsOrder(v, adapter, orders, lookups)
      BY DEF IInv, QueuePart
    <3>2. v.subject.kind = "order" => v.subject.o \in 1 .. MaxOrders
      BY <3>1, TaskShape, SubjectShape
    <3>3. v.attempt \in Nat
      BY <3>1, TaskShape, Constants
    <3>4. \A o \in 1 .. MaxOrders : lookups[o] \in Nat /\ lookups'[o] \in Nat
      BY <1>4, Constants DEF IInv, HistoryPart
    <3> SUFFICES ASSUME v.subject.kind = "order" PROVE FollowsOrder(v, adapter, orders, lookups')
      BY DEF FollowsOrder
    <3>5. /\ lookups'[v.subject.o] >= v.attempt
          /\ v.state # "waiting" => lookups'[v.subject.o] > v.attempt
      <4> DEFINE a == lookups[v.subject.o]  b == lookups'[v.subject.o]
      <4>1. a \in Nat /\ b \in Nat /\ b >= a
        BY <1>4, <3>2, <3>4
      <4>2. a >= v.attempt /\ (v.state # "waiting" => a > v.attempt)
        BY <3>1 DEF FollowsOrder
      <4> QED BY <3>3, <4>1, <4>2
    <3> QED BY <3>1, <3>5 DEF FollowsOrder
  <2> QED BY <1>1, <1>3, <1>6, <2>1 DEF IInv, QueuePart, u, Handle, adapterVars
<1>8. \A v \in queue : TakenOver(v.subject)
  <2>1. u \in queue' /\ \A v \in queue : v # t => v \in queue'
    BY <1>1 DEF u
  <2> QED BY <1>3, <2>1, StaysInQueue DEF TakenOver
<1>9. \A o \in exhausted' : lookups'[o] = Attempts
  <2> SUFFICES ASSUME NEW o \in exhausted PROVE lookups'[o] = Attempts
    BY DEF Handle
  <2>1. o \in 1 .. MaxOrders /\ lookups[o] = Attempts
    BY DEF IInv, HistoryPart, ExhaustedAfterAll
  <2> QED BY <1>4, <2>1, Constants
<1>10. GivenUp \subseteq GivenUp' /\ GivenUp' \subseteq 1 .. MaxOrders
  BY DEF Handle, GivenUp, IInv, HistoryPart
<1>11. UNCHANGED <<adapterVars, http, acked>>
  BY DEF Handle
<1> QED BY <1>4, <1>7, <1>8, <1>9, <1>10, <1>11, TaskStepInv

\* A task ends: its order has ended, or is on one of the lists.
LEMMA TaskGoesInv ==
    ASSUME IInv, NEW t \in queue, queue' = queue \ {t},
           UNCHANGED <<adapterVars, http, acked, lookups>>,
           \A o \in exhausted' : lookups[o] = Attempts,
           GivenUp \subseteq GivenUp', GivenUp' \subseteq 1 .. MaxOrders,
           t.subject.kind = "order" =>
              orders[t.subject.o].status \in FinalStatuses \/ t.subject.o \in GivenUp'
    PROVE  IInv'
<1>1. OrdersGrow
  BY SameOrders DEF adapterVars
<1>2. QueuePart'
  BY <1>1, StillRight DEF IInv, QueuePart
<1>3. lookups' \in [1 .. MaxOrders -> 0 .. Attempts] /\ \A o \in exhausted' : lookups'[o] = Attempts
  BY DEF IInv, HistoryPart
<1>4. TakenOver(t.subject)
  BY DEF TakenOver, adapterVars
<1>5. \A v \in queue : TakenOver(v.subject)
  BY <1>4, StaysInQueue
<1> QED BY <1>2, <1>3, <1>5, TaskStepInv

LEMMA DoneInv == ASSUME IInv, NEW t \in queue, Done(t) PROVE IInv'
<1>1. t.subject.kind = "order" => orders[t.subject.o].status \in FinalStatuses
  BY DEF IInv, QueuePart, FollowsOrder, Done
<1>2. /\ \A o \in exhausted' : lookups[o] = Attempts
      /\ GivenUp \subseteq GivenUp' /\ GivenUp' \subseteq 1 .. MaxOrders
  BY DEF IInv, HistoryPart, ExhaustedAfterAll, GivenUp, Done
<1>3. queue' = queue \ {t} /\ UNCHANGED <<adapterVars, http, acked, lookups>>
  BY DEF Done
<1> QED BY <1>1, <1>2, <1>3, TaskGoesInv

\* An order that is given up is one, and is looked up as often as its task says.
LEMMA OfTask ==
    ASSUME IInv, NEW t \in queue
    PROVE  /\ OrdersOf({t.subject}) \subseteq 1 .. MaxOrders
           /\ t.subject.kind = "order" => /\ t.subject.o \in OrdersOf({t.subject})
                                          /\ t.subject.o \in 1 .. MaxOrders
           /\ t.subject.kind = "order" /\ t.state # "waiting" => lookups[t.subject.o] > t.attempt
           /\ t \in Task
<1>1. t \in Task /\ FollowsOrder(t, adapter, orders, lookups)
  BY DEF IInv, QueuePart
<1>2. t.subject.kind = "order" => t.subject.o \in 1 .. MaxOrders
  BY <1>1, TaskShape, SubjectShape
<1>3. \A o : o \in OrdersOf({t.subject}) <=> t.subject.kind = "order" /\ o = t.subject.o
  BY OrdersOfOne
<1>4. OrdersOf({t.subject}) \subseteq 1 .. MaxOrders
  BY <1>2, <1>3
<1>5. t.subject.kind = "order" => t.subject.o \in OrdersOf({t.subject})
  BY <1>3
<1> QED BY <1>1, <1>2, <1>4, <1>5 DEF FollowsOrder

LEMMA ExhaustedInv == ASSUME IInv, NEW t \in queue, Exhausted(t) PROVE IInv'
<1>1. ASSUME NEW o \in exhausted' PROVE lookups[o] = Attempts
  <2>1. CASE o \in exhausted
    BY <2>1 DEF IInv, HistoryPart, ExhaustedAfterAll
  <2>2. CASE o \notin exhausted
    <3>1. t.subject.kind = "order" /\ o = t.subject.o
      BY <2>2, OrdersOfOne DEF Exhausted
    <3>2. o \in 1 .. MaxOrders /\ lookups[o] > t.attempt /\ t.attempt \in 0 .. Attempts - 1
      BY <3>1, OfTask, TaskShape DEF Exhausted
    <3>3. t.attempt + 1 >= Attempts
      BY <3>2, Constants DEF Exhausted, HasDelay, NextAttempt
    <3>4. lookups[o] \in 0 .. Attempts
      BY <3>2 DEF IInv, HistoryPart
    <3> QED BY <3>2, <3>3, <3>4, Constants
  <2> QED BY <2>1, <2>2
<1>2. GivenUp \subseteq GivenUp' /\ GivenUp' \subseteq 1 .. MaxOrders
  BY OfTask DEF GivenUp, Exhausted, IInv, HistoryPart
<1>3. t.subject.kind = "order" => t.subject.o \in GivenUp'
  BY OfTask DEF GivenUp, Exhausted
<1>4. queue' = queue \ {t} /\ UNCHANGED <<adapterVars, http, acked, lookups>>
  BY DEF Exhausted
<1> QED BY <1>1, <1>2, <1>3, <1>4, TaskGoesInv

LEMMA LoseTaskInv == ASSUME IInv, NEW t \in queue, LoseTask(t) PROVE IInv'
<1>1. \A o \in exhausted' : lookups[o] = Attempts
  BY DEF IInv, HistoryPart, ExhaustedAfterAll, LoseTask
<1>2. GivenUp \subseteq GivenUp' /\ GivenUp' \subseteq 1 .. MaxOrders
  BY OfTask DEF GivenUp, LoseTask, IInv, HistoryPart
<1>3. t.subject.kind = "order" => t.subject.o \in GivenUp'
  BY OfTask DEF GivenUp, LoseTask
<1>4. queue' = queue \ {t} /\ UNCHANGED <<adapterVars, http, acked, lookups>>
  BY DEF LoseTask
<1> QED BY <1>1, <1>2, <1>3, <1>4, TaskGoesInv

\* Enqueueing adds a task or finds that one for the same lookup is there: either
\* way somebody follows the subject.
LEMMA EnqueuedFollows ==
    ASSUME NEW q \in SUBSET queue, NEW acct, NEW subject, NEW attempt,
           queue' \in Enqueued(q, acct, subject, attempt),
           \A t \in queue \ q : ~SameTask(t, acct, subject, attempt)
    PROVE  /\ \E u \in queue' : u.subject = subject
           /\ q \subseteq queue'
           /\ \A u \in queue' : \/ u \in q
                                \/ u = [acct |-> acct, subject |-> subject, attempt |-> attempt,
                                        state |-> "waiting"]
<1> DEFINE new == [acct |-> acct, subject |-> subject, attempt |-> attempt, state |-> "waiting"]
           same == {t \in queue : SameTask(t, acct, subject, attempt)}
<1>1. queue' = q \cup {new} \/ (queue' = q /\ same # {})
  BY DEF Enqueued
<1>2. new.subject = subject
  OBVIOUS
<1>3. CASE queue' = q \cup {new}
  BY <1>2, <1>3
<1>4. CASE queue' = q /\ same # {}
  <2>1. PICK t \in same : TRUE
    BY <1>4
  <2>2. t \in q /\ t.subject = subject
    BY <2>1 DEF SameTask
  <2> QED BY <1>4, <2>2
<1> QED BY <1>1, <1>3, <1>4

LEMMA AgainInv == ASSUME IInv, NEW t \in queue, Again(t) PROVE IInv'
<1>1. t \in Task /\ FollowsOrder(t, adapter, orders, lookups) /\ t.state = "again"
  BY DEF IInv, QueuePart, Again
<1>2. /\ t.attempt \in 0 .. Attempts - 1 /\ t.acct \in Account /\ t.subject \in Subject
      /\ NextAttempt(t) = t.attempt + 1
      /\ NextAttempt(t) \in 0 .. Attempts - 1
  BY <1>1, TaskShape, Constants DEF Again, HasDelay, NextAttempt
<1> DEFINE q == queue \ {t}
           new == [acct |-> t.acct, subject |-> t.subject, attempt |-> NextAttempt(t),
                   state |-> "waiting"]
<1>3. queue' \in Enqueued(q, t.acct, t.subject, NextAttempt(t))
  BY DEF Again
<1>4. ~SameTask(t, t.acct, t.subject, NextAttempt(t))
  BY <1>2 DEF SameTask
<1>5. /\ \E u \in queue' : u.subject = t.subject
      /\ q \subseteq queue'
      /\ \A u \in queue' : u \in q \/ u = new
  BY <1>3, <1>4, EnqueuedFollows
<1>6. new \in Task /\ FollowsOrder(new, adapter, orders, lookups)
  <2>1. new \in Task
    BY <1>2 DEF Task
  <2>2. ASSUME t.subject.kind = "order" PROVE lookups[t.subject.o] >= NextAttempt(t)
    <3>1. lookups[t.subject.o] > t.attempt /\ t.subject.o \in 1 .. MaxOrders
      BY <1>1, <2>2, OfTask
    <3>2. lookups[t.subject.o] \in Nat
      BY <3>1, Constants DEF IInv, HistoryPart
    <3> QED BY <1>2, <3>1, <3>2, Constants
  <2> QED BY <1>1, <2>1, <2>2 DEF FollowsOrder
<1> HIDE DEF new
<1>7. QueuePart'
  BY <1>5, <1>6 DEF IInv, QueuePart, Again, adapterVars
<1>8. \A v \in queue : TakenOver(v.subject)
  <2>1. TakenOver(t.subject)
    BY <1>5 DEF TakenOver
  <2> QED BY <1>5, <2>1, StaysInQueue
<1>9. /\ lookups' \in [1 .. MaxOrders -> 0 .. Attempts]
      /\ \A o \in exhausted' : lookups'[o] = Attempts
      /\ GivenUp \subseteq GivenUp' /\ GivenUp' \subseteq 1 .. MaxOrders
  BY DEF IInv, HistoryPart, ExhaustedAfterAll, GivenUp, Again
<1>10. UNCHANGED <<adapterVars, http, acked>>
  BY DEF Again
<1> QED BY <1>7, <1>8, <1>9, <1>10, TaskStepInv
------------------------------------------------------------------------------
(* The handlers, between their calls of the exchange *)

\* A handler that has nothing to schedule moves.
LEMMA HandlerStepInv ==
    ASSUME IInv, UNCHANGED <<adapter, orders, placed, queue, acked, audited, exhausted, lost, unaudited, lookups>>,
           NEW h \in Handler, http[h].pc # "schedule", NEW l, Goto(h, l),
           IsHandler(l, adapter, orders)
    PROVE  IInv'
<1>1. OrdersGrow
  BY SameOrders
<1>2. AdapterPart'
  BY SameAdapter
<1>3. HandlerPart' /\ \A g \in Handler : g # h => http'[g] = http[g]
  BY <1>1, HandlerMoves
<1>4. QueuePart'
  BY <1>1, QueueStays
<1>5. OpenOrderFollowed'
  <2>1. \A t \in queue : TakenOver(t.subject)
    BY StaysInQueue
  <2>2. \A g \in Handler : http[g].pc = "schedule"
                             => http'[g].pc = "schedule" /\ http'[g].subject = http[g].subject
    BY <1>3
  <2>3. GivenUp \subseteq GivenUp'
    BY DEF GivenUp
  <2> QED BY <1>1, <2>1, <2>2, <2>3, OpenKept
<1>6. HistoryPart'
  BY <1>5 DEF IInv, HistoryPart, ExhaustedAfterAll
<1> QED BY <1>2, <1>3, <1>4, <1>6 DEF IInv

LEMMA CloseFetchInv == ASSUME IInv, NEW h \in Handler, CloseFetch(h) PROVE IInv'
<1>1. PICK ref \in Refs :
         Goto(h, [pc |-> "close", ref |-> ref, todo |-> [s \in Symbols |-> Position(Owner(ref), s)]])
  BY DEF CloseFetch
<1> DEFINE todo == [s \in Symbols |-> Position(Owner(ref), s)]
           l == [pc |-> "close", ref |-> ref, todo |-> todo]
<1>2. todo \in [Symbols -> Int]
  BY PositionType DEF IInv
<1> HIDE DEF todo
<1>3. IsHandler(l, adapter, orders)
  BY <1>2 DEF IsHandler, IsClosing
<1>4. http[h].pc # "schedule"
  BY DEF CloseFetch, Arrives, Idle
<1>5. Goto(h, l)
  BY <1>1 DEF todo
<1> HIDE DEF l
<1>6. UNCHANGED <<adapter, orders, placed, queue, acked, audited, exhausted, lost, unaudited, lookups>>
  BY DEF CloseFetch, adapterVars
<1> QED BY <1>3, <1>4, <1>5, <1>6, HandlerStepInv

LEMMA ClosePlaceFailsInv == ASSUME IInv, NEW h \in Handler, ClosePlaceFails(h) PROVE IInv'
<1>1. PICK s \in Symbols : Goto(h, [http[h] EXCEPT !.todo[s] = 0])
  BY DEF ClosePlaceFails
<1> DEFINE l == [http[h] EXCEPT !.todo[s] = 0]
<1>2. IsClosing(http[h])
  BY HandlerPc DEF IInv, HandlerPart, ClosePlaceFails
<1>3. IsClosing(l)
  <2>1. l = [pc |-> "close", ref |-> http[h].ref, todo |-> [http[h].todo EXCEPT ![s] = 0]]
    BY <1>2 DEF IsClosing
  <2>2. [http[h].todo EXCEPT ![s] = 0] \in [Symbols -> Int]
    BY <1>2 DEF IsClosing
  <2> HIDE DEF l
  <2> QED BY <2>1, <2>2 DEF IsClosing
<1> HIDE DEF l
<1>4. http[h].pc # "schedule" /\ Goto(h, l)
  BY <1>1 DEF ClosePlaceFails, l
<1>5. UNCHANGED <<adapter, orders, placed, queue, acked, audited, exhausted, lost, unaudited, lookups>>
  BY DEF ClosePlaceFails, adapterVars
<1> QED BY <1>3, <1>4, <1>5, HandlerStepInv DEF IsHandler

LEMMA CloseEndsInv == ASSUME IInv, NEW h \in Handler, CloseEnds(h) PROVE IInv'
<1>1. http[h].pc # "schedule" /\ Goto(h, Idle)
  BY DEF CloseEnds
<1>2. UNCHANGED <<adapter, orders, placed, queue, acked, audited, exhausted, lost, unaudited, lookups>>
  BY DEF CloseEnds, adapterVars
<1> QED BY <1>1, <1>2, HandlerStepInv DEF IsHandler

\* What a handler without positions to close has to do.
LEMMA NoPositionsType == NoPositions \in [Symbols -> Int]
BY DEF NoPositions

LEMMA SetSettingInv ==
    ASSUME IInv, NEW h \in Handler, NEW kind \in SettingKinds, SetAdapterSetting(h, kind)
    PROVE  IInv'
<1>1. PICK ref \in Refs, s \in Symbols, v \in Leverages :
         /\ SetSetting(ref, s, kind, v)
         /\ Goto(h, Scheduling(ref, [kind |-> kind, symbol |-> s, expected |-> v], NoPositions))
  BY DEF SetAdapterSetting
<1> DEFINE x == [kind |-> kind, symbol |-> s, expected |-> v]
           l == Scheduling(ref, x, NoPositions)
<1>2. x \in Subject /\ x.kind # "order"
  BY DEF Subject, SettingKinds
<1> HIDE DEF x
<1>3. l.ref = ref /\ l.subject = x /\ l.todo = NoPositions
  BY DEF Scheduling
<1>4. Goto(h, l)
  BY <1>1 DEF x
<1>5. IsHandler(l, adapter, orders)
  <2> HIDE DEF l
  <2>1. l = Scheduling(l.ref, l.subject, l.todo)
    BY <1>3 DEF l
  <2> QED BY <1>2, <1>3, <2>1, NoPositionsType DEF IsHandler, IsScheduling
<1> HIDE DEF l
<1>6. http[h].pc # "schedule"
  BY DEF SetAdapterSetting, Arrives, Idle
<1>7. UNCHANGED <<adapter, orders, placed, queue, acked, audited, exhausted, lost, unaudited, lookups>>
  BY <1>1 DEF SetAdapterSetting, SetSetting
<1> QED BY <1>4, <1>5, <1>6, <1>7, HandlerStepInv

\* Where a handler goes after scheduling.
LEMMA AfterScheduling ==
    ASSUME IInv, NEW h \in Handler, http[h].pc = "schedule", Scheduled(h),
           UNCHANGED <<adapter, orders>>
    PROVE  HandlerPart' /\ \A g \in Handler : g # h => http'[g] = http[g]
<1> DEFINE l == IF http[h].todo = NoPositions THEN Idle
                ELSE [pc |-> "close", ref |-> http[h].ref, todo |-> http[h].todo]
<1>1. IsScheduling(http[h], adapter, orders)
  BY HandlerPc DEF IInv, HandlerPart
<1>2. IsHandler(l, adapter', orders')
  BY <1>1 DEF IsScheduling, IsHandler, IsClosing
<1>3. Goto(h, l)
  BY DEF Scheduled
<1> HIDE DEF l
<1> QED BY <1>2, <1>3, HandlerMoves, SameOrders

\* The account found is the one whose key the request has, if it has one.
LEMMA ResolvedKey ==
    ASSUME NEW ref, NEW a \in Resolved(ref), NEW o, PlacedWith(o, {ref.key}, adapter, orders)
    PROVE  PlacedWith(o, {"", Stored[a].key}, adapter, orders)
BY DEF PlacedWith, Resolved, KeyMatches

LEMMA ScheduleInv == ASSUME IInv, NEW h \in Handler, Schedule(h) PROVE IInv'
<1> DEFINE ref == http[h].ref
           x == http[h].subject
<1>1. PICK a \in Resolved(ref) : queue' \in Enqueued(queue, a, x, 0)
  BY DEF Schedule
<1>2. /\ http[h].pc = "schedule" /\ Scheduled(h) /\ adapterVars' = adapterVars
      /\ UNCHANGED <<adapter, orders, placed, acked, audited, exhausted, lost, unaudited, lookups>>
  BY DEF Schedule, adapterVars
<1>3. IsScheduling(http[h], adapter, orders)
  BY <1>2, HandlerPc DEF IInv, HandlerPart
<1>4. OrdersGrow /\ AdapterPart'
  BY <1>2, SameOrders, SameAdapter
<1>5. HandlerPart' /\ \A g \in Handler : g # h => http'[g] = http[g]
  BY <1>2, AfterScheduling
<1> DEFINE new == [acct |-> a, subject |-> x, attempt |-> 0, state |-> "waiting"]
<1>6. /\ \E u \in queue' : u.subject = x
      /\ queue \subseteq queue'
      /\ \A u \in queue' : u \in queue \/ u = new
  BY <1>1, EnqueuedFollows
<1>7. new \in Task /\ FollowsOrder(new, adapter, orders, lookups)
  <2>1. x \in Subject
    BY <1>3 DEF IsScheduling
  <2>2. a \in Account
    BY <1>1 DEF Resolved, Candidates
  <2>3. 0 \in 0 .. Attempts - 1
    BY Constants
  <2>4. new \in Task
    BY <2>1, <2>2, <2>3 DEF Task
  <2>5. ASSUME x.kind = "order"
        PROVE  /\ lookups[x.o] >= 0
               /\ PlacedWith(x.o, {"", Stored[a].key}, adapter, orders)
    <3>1. x.o \in 1 .. MaxOrders
      BY <2>1, <2>5, SubjectShape
    <3>2. lookups[x.o] >= 0
      BY <3>1, Constants DEF IInv, HistoryPart
    <3>3. PlacedWith(x.o, {ref.key}, adapter, orders)
      BY <1>3, <2>5 DEF IsScheduling
    <3> QED BY <3>2, <3>3, ResolvedKey
  <2> QED BY <2>4, <2>5 DEF FollowsOrder
<1>8. QueuePart'
  <2> HIDE DEF new
  <2> QED BY <1>2, <1>6, <1>7 DEF IInv, QueuePart
<1>9. OpenOrderFollowed'
  <2>1. \A t \in queue : TakenOver(t.subject)
    BY <1>6, StaysInQueue
  <2>2. TakenOver(x)
    BY <1>6 DEF TakenOver
  <2>3. \A g \in Handler : http[g].pc = "schedule"
           => (http'[g].pc = "schedule" /\ http'[g].subject = http[g].subject) \/ TakenOver(http[g].subject)
    BY <1>5, <2>2
  <2>4. GivenUp \subseteq GivenUp'
    BY <1>2 DEF GivenUp
  <2> QED BY <1>2, <1>4, <2>1, <2>3, <2>4, OpenKept
<1>10. HistoryPart'
  BY <1>2, <1>9 DEF IInv, HistoryPart, ExhaustedAfterAll
<1> QED BY <1>4, <1>5, <1>8, <1>10 DEF IInv

\* The schedule fails; whether that is audited or not, the order is on a list.
LEMMA ScheduleFailsInv ==
    ASSUME IInv, NEW h \in Handler, ScheduleFails(h) \/ ScheduleFailsUnaudited(h)
    PROVE  IInv'
<1> DEFINE x == http[h].subject
<1>1. /\ http[h].pc = "schedule" /\ Scheduled(h)
      /\ audited' \cup unaudited' = audited \cup unaudited \cup OrdersOf({x})
      /\ UNCHANGED <<adapter, orders, placed, queue, acked, exhausted, lost, lookups>>
  BY DEF ScheduleFails, ScheduleFailsUnaudited, adapterVars
<1>2. x \in Subject
  BY <1>1, HandlerPc DEF IInv, HandlerPart, IsScheduling
<1>3. OrdersOf({x}) \subseteq 1 .. MaxOrders /\ (x.kind = "order" => x.o \in OrdersOf({x}))
  BY <1>2, SubjectShape, OrdersOfOne
<1>4. OrdersGrow /\ AdapterPart'
  BY <1>1, SameOrders, SameAdapter
<1>5. HandlerPart' /\ \A g \in Handler : g # h => http'[g] = http[g]
  BY <1>1, AfterScheduling
<1>6. QueuePart'
  BY <1>1, <1>4, QueueStays
<1>7. GivenUp \subseteq GivenUp' /\ TakenOver(x)
  BY <1>1, <1>3 DEF GivenUp, TakenOver
<1>8. OpenOrderFollowed'
  <2>1. \A t \in queue : TakenOver(t.subject)
    BY <1>1, StaysInQueue
  <2>2. \A g \in Handler : http[g].pc = "schedule"
           => (http'[g].pc = "schedule" /\ http'[g].subject = http[g].subject) \/ TakenOver(http[g].subject)
    BY <1>5, <1>7
  <2> QED BY <1>1, <1>4, <1>7, <2>1, <2>2, OpenKept
<1>9. HistoryPart'
  BY <1>1, <1>3, <1>8 DEF IInv, HistoryPart, ExhaustedAfterAll
<1> QED BY <1>4, <1>5, <1>6, <1>9 DEF IInv
------------------------------------------------------------------------------
(* Orders *)

LEMMA FillType ==
    ASSUME AdapterPart, NEW owner, NEW s, NEW q \in Int, NEW ro
    PROVE  Fill(owner, s, q, ro) \in Int
<1>1. Position(owner, s) \in Int
  BY PositionType
<1> QED BY <1>1 DEF Fill

\* A new order.
OrderOf(ref, s, q, ro, st) ==
    [owner |-> Owner(ref), key |-> ref.key, symbol |-> s, quantity |-> q, reduceOnly |-> ro,
     status |-> st, filled |-> IF st = "filled" THEN Fill(Owner(ref), s, q, ro) ELSE 0]

\* An order is placed: it has the next number and the key of the request, and is
\* the only one that changes.
LEMMA OrderPlaced ==
    ASSUME IInv, NEW ref, NEW cid, NEW s, NEW q \in Int, NEW ro, NEW st \in {"filled", "submitted"},
           PlaceOrder(ref, cid, s, q, ro, st)
    PROVE  /\ AdapterPart' /\ OrdersGrow
           /\ placed' = placed + 1 /\ placed' \in 1 .. MaxOrders
           /\ orders[placed'] = NoOrder
           /\ orders'[placed'] = OrderOf(ref, s, q, ro, st)
           /\ \A o \in 1 .. MaxOrders : o # placed' => orders'[o] = orders[o]
           /\ PlacedWith(placed', {ref.key}, adapter', orders')
<1> DEFINE x == OrderOf(ref, s, q, ro, st)
           k == placed + 1
<1>1. /\ placed' = k /\ k \in 1 .. MaxOrders /\ placed \in Nat
      /\ orders' = [orders EXCEPT ![k] = x]
      /\ adapter' = adapter
  <2>1. placed' = placed + 1 /\ placed < MaxOrders /\ adapter' = adapter
    BY DEF PlaceOrder
  <2>2. placed \in Nat /\ k \in 1 .. MaxOrders
    BY <2>1, Constants DEF IInv, AdapterPart
  <2>3. orders' = [orders EXCEPT ![k] = x]
    BY Zenon DEF PlaceOrder, OrderOf
  <2> QED BY <2>1, <2>2, <2>3
<1>2. orders[k] = NoOrder
  BY <1>1 DEF IInv, AdapterPart
<1>3. /\ x.key = ref.key /\ x.status = st /\ x.owner = Owner(ref) /\ x # NoOrder
      /\ IsOrder(x)
  <2>1. (IF st = "filled" THEN Fill(Owner(ref), s, q, ro) ELSE 0) \in Int
    BY FillType DEF IInv
  <2>2. x.status = st /\ st # "none"
    BY DEF OrderOf
  <2>3. x # NoOrder
    BY <2>2 DEF NoOrder
  <2>4. x.key = ref.key /\ x.owner = Owner(ref) /\ x.quantity = q
    BY DEF OrderOf
  <2>5. /\ x.filled = IF st = "filled" THEN Fill(Owner(ref), s, q, ro) ELSE 0
        /\ x = [owner |-> x.owner, key |-> x.key, symbol |-> x.symbol, quantity |-> x.quantity,
                reduceOnly |-> x.reduceOnly, status |-> x.status, filled |-> x.filled]
    BY DEF OrderOf
  <2> HIDE DEF x
  <2>6. x.filled \in Int /\ x.status \in FinalStatuses \cup {"submitted"}
    BY <2>1, <2>2, <2>5 DEF FinalStatuses
  <2>7. IsOrder(x)
    BY <2>4, <2>5, <2>6 DEF IsOrder
  <2> QED BY <2>2, <2>3, <2>4, <2>7
<1> HIDE DEF x
<1>4. /\ orders' = [o \in 1 .. MaxOrders |-> orders'[o]]
      /\ orders'[k] = x
      /\ \A o \in 1 .. MaxOrders : o # k => orders'[o] = orders[o]
  BY <1>1 DEF IInv, AdapterPart
<1>5. adapter = "ccxt" => x.owner = x.key
  BY <1>3 DEF Owner
<1>6. AdapterPart'
  <2>1. adapter' \in {"simulated", "ccxt"} /\ placed' \in 0 .. MaxOrders
    BY <1>1, Constants DEF IInv, AdapterPart
  <2>2. \A o \in 1 .. MaxOrders : orders'[o] = NoOrder \/ IsOrder(orders'[o])
    BY <1>3, <1>4 DEF IInv, AdapterPart
  <2>3. \A o \in 1 .. MaxOrders : o > placed' => orders'[o] = NoOrder
    BY <1>1, <1>4, Constants DEF IInv, AdapterPart
  <2>4. \A o \in 1 .. MaxOrders : adapter' = "ccxt" /\ orders'[o] # NoOrder
                                    => orders'[o].owner = orders'[o].key
    BY <1>1, <1>4, <1>5 DEF IInv, AdapterPart
  <2> QED BY <1>4, <2>1, <2>2, <2>3, <2>4 DEF AdapterPart
<1>7. OrdersGrow
  <2>1. \A o \in acked : o \in 1 .. MaxOrders /\ o # k
    BY <1>1, Constants DEF IInv, HistoryPart
  <2> QED BY <1>1, <1>2, <1>4, <2>1 DEF OrdersGrow
<1>8. PlacedWith(k, {ref.key}, adapter', orders')
  BY <1>3, <1>4 DEF PlacedWith
<1> QED BY <1>1, <1>2, <1>4, <1>6, <1>7, <1>8 DEF x

\* The handler that is to schedule order k.
LEMMA SchedulingOrder ==
    ASSUME NEW ref, NEW k \in 1 .. MaxOrders, NEW todo \in [Symbols -> Int], NEW ad, NEW os,
           PlacedWith(k, {ref.key}, ad, os)
    PROVE  IsHandler(Scheduling(ref, [kind |-> "order", o |-> k], todo), ad, os)
<1> DEFINE x == [kind |-> "order", o |-> k]
           l == Scheduling(ref, x, todo)
<1>1. x \in Subject /\ x.o = k
  BY DEF Subject
<1> HIDE DEF x
<1>2. l.ref = ref /\ l.subject = x /\ l.todo = todo
  BY DEF Scheduling
<1>3. l = Scheduling(l.ref, l.subject, l.todo)
  BY <1>2
<1> HIDE DEF l
<1>4. IsScheduling(l, ad, os)
  BY <1>1, <1>2, <1>3 DEF IsScheduling
<1> QED BY <1>4 DEF IsHandler, l, x

\* A handler places an order and is told so.
LEMMA PlacedInv ==
    ASSUME IInv, NEW h \in Handler, http[h].pc # "schedule",
           NEW ref, NEW cid, NEW s, NEW q \in Int, NEW ro, NEW st \in {"filled", "submitted"},
           PlaceOrder(ref, cid, s, q, ro, st),
           NEW todo \in [Symbols -> Int],
           Goto(h, Scheduling(ref, [kind |-> "order", o |-> placed'], todo)),
           acked' = acked \cup {placed'},
           UNCHANGED <<queue, audited, exhausted, lost, unaudited, lookups>>
    PROVE  IInv'
<1>1. /\ AdapterPart' /\ OrdersGrow
      /\ placed' = placed + 1 /\ placed' \in 1 .. MaxOrders
      /\ PlacedWith(placed', {ref.key}, adapter', orders')
  BY OrderPlaced
<1> DEFINE l == Scheduling(ref, [kind |-> "order", o |-> placed'], todo)
<1>2. IsHandler(l, adapter', orders')
  BY <1>1, SchedulingOrder
<1>3. l.pc = "schedule" /\ l.subject = [kind |-> "order", o |-> placed']
  BY DEF Scheduling
<1>4. Goto(h, l)
  OBVIOUS
<1> HIDE DEF l
<1>5. HandlerPart' /\ http'[h] = l /\ \A g \in Handler : g # h => http'[g] = http[g]
  BY <1>1, <1>2, <1>4, HandlerMoves
<1>6. QueuePart'
  BY <1>1, QueueStays
<1>7. OpenOrderFollowed'
  <2>1. \A t \in queue : TakenOver(t.subject)
    BY StaysInQueue
  <2>2. \A g \in Handler : http[g].pc = "schedule"
                             => http'[g].pc = "schedule" /\ http'[g].subject = http[g].subject
    BY <1>5
  <2>3. \A o \in acked' \ acked : \E g \in Handler : /\ http'[g].pc = "schedule"
                                                     /\ http'[g].subject = [kind |-> "order", o |-> o]
    BY <1>3, <1>5
  <2>4. GivenUp \subseteq GivenUp'
    BY DEF GivenUp
  <2> QED BY <1>1, <2>1, <2>2, <2>3, <2>4, OpenKept
<1>8. HistoryPart'
  <2>1. acked' \subseteq 1 .. placed'
    BY <1>1, Constants DEF IInv, HistoryPart, AdapterPart
  <2> QED BY <1>7, <2>1 DEF IInv, HistoryPart, ExhaustedAfterAll
<1> QED BY <1>1, <1>5, <1>6, <1>8 DEF IInv

LEMMA PlaceAdapterOrderInv == ASSUME IInv, NEW h \in Handler, PlaceAdapterOrder(h) PROVE IInv'
<1>1. PICK ref \in Refs, cid \in ClientIds, s \in Symbols, q \in Quantities, ro \in ReduceOnly,
           st \in {"filled", "submitted"} :
          /\ PlaceOrder(ref, cid, s, q, ro, st)
          /\ Goto(h, Scheduling(ref, [kind |-> "order", o |-> placed'], NoPositions))
  BY DEF PlaceAdapterOrder
<1>2. http[h].pc # "schedule" /\ q \in Int
  <2>1. http[h] = Idle
    BY DEF PlaceAdapterOrder, Arrives
  <2> QED BY <2>1, Constants DEF Idle
<1>3. acked' = acked \cup {placed'} /\ UNCHANGED <<queue, audited, exhausted, lost, unaudited, lookups>>
  BY DEF PlaceAdapterOrder
<1> QED BY <1>1, <1>2, <1>3, NoPositionsType, PlacedInv

LEMMA ClosePlaceInv == ASSUME IInv, NEW h \in Handler, ClosePlace(h) PROVE IInv'
<1>1. PICK s \in Symbols, st \in {"filled", "submitted"} :
          /\ PlaceOrder(http[h].ref, "", s, CloseQuantity(http[h].todo[s]), TRUE, st)
          /\ Goto(h, Scheduling(http[h].ref, [kind |-> "order", o |-> placed'],
                                [http[h].todo EXCEPT ![s] = 0]))
  BY DEF ClosePlace
<1>2. http[h].pc = "close" /\ http[h].todo \in [Symbols -> Int]
  BY HandlerPc DEF ClosePlace, IInv, HandlerPart, IsClosing
<1>3. /\ CloseQuantity(http[h].todo[s]) \in Int
      /\ [http[h].todo EXCEPT ![s] = 0] \in [Symbols -> Int]
  BY <1>2 DEF CloseQuantity
<1>4. acked' = acked \cup {placed'} /\ UNCHANGED <<queue, audited, exhausted, lost, unaudited, lookups>>
  BY DEF ClosePlace
<1> DEFINE ref == http[h].ref
           q == CloseQuantity(http[h].todo[s])
           todo == [http[h].todo EXCEPT ![s] = 0]
<1>5. /\ PlaceOrder(ref, "", s, q, TRUE, st)
      /\ Goto(h, Scheduling(ref, [kind |-> "order", o |-> placed'], todo))
      /\ q \in Int /\ todo \in [Symbols -> Int] /\ http[h].pc # "schedule"
  BY <1>1, <1>2, <1>3
<1> HIDE DEF ref, q, todo
<1> QED BY <1>4, <1>5, PlacedInv

\* The orders grow and nothing else changes.
LEMMA OrdersOnlyInv ==
    ASSUME IInv, AdapterPart', OrdersGrow, placed' >= placed,
           UNCHANGED <<http, queue, acked, audited, exhausted, lost, unaudited, lookups>>
    PROVE  IInv'
<1>1. HandlerPart' /\ QueuePart'
  BY HandlersStay, QueueStays
<1>2. OpenOrderFollowed'
  <2>1. \A t \in queue : TakenOver(t.subject)
    BY StaysInQueue
  <2>2. GivenUp \subseteq GivenUp'
    BY DEF GivenUp
  <2> QED BY <2>1, <2>2, OpenKept
<1>3. HistoryPart'
  <2>1. acked' \subseteq 1 .. placed'
    BY Constants DEF IInv, HistoryPart, AdapterPart
  <2> QED BY <1>2, <2>1 DEF IInv, HistoryPart, ExhaustedAfterAll
<1> QED BY <1>1, <1>3 DEF IInv

LEMMA PlaceAnswerLostInv == ASSUME IInv, NEW h \in Handler, PlaceAnswerLost(h) PROVE IInv'
<1>1. PICK ref \in Refs, s \in Symbols, q \in Quantities, ro \in ReduceOnly :
         PlaceOrder(ref, "", s, q, ro, "submitted")
  BY DEF PlaceAnswerLost
<1>2. q \in Int /\ placed \in Nat
  BY Constants DEF IInv, AdapterPart
<1>3. AdapterPart' /\ OrdersGrow /\ placed' = placed + 1
  BY <1>1, <1>2, OrderPlaced
<1>4. UNCHANGED <<http, queue, acked, audited, exhausted, lost, unaudited, lookups>>
  BY DEF PlaceAnswerLost
<1> QED BY <1>2, <1>3, <1>4, OrdersOnlyInv

\* An order nobody can look up is on its list at once.
LEMMA PlaceAnswerNamesNoOrderInv ==
    ASSUME IInv, NEW h \in Handler, PlaceAnswerNamesNoOrder(h) PROVE IInv'
<1>1. PICK ref \in Refs, s \in Symbols, q \in Quantities, ro \in ReduceOnly :
         PlaceOrder(ref, "", s, q, ro, "submitted")
  BY DEF PlaceAnswerNamesNoOrder
<1>2. q \in Int /\ placed \in Nat
  BY Constants DEF IInv, AdapterPart
<1>3. AdapterPart' /\ OrdersGrow /\ placed' = placed + 1 /\ placed' \in 1 .. MaxOrders
  BY <1>1, <1>2, OrderPlaced
<1>4. /\ UNCHANGED <<http, queue, audited, exhausted, lost, lookups>>
      /\ acked' = acked \cup {placed'} /\ unaudited' = unaudited \cup {placed'}
  BY DEF PlaceAnswerNamesNoOrder
<1>5. HandlerPart' /\ QueuePart'
  BY <1>3, <1>4, HandlersStay, QueueStays
<1>6. OpenOrderFollowed'
  <2>1. \A t \in queue : TakenOver(t.subject)
    BY <1>4, StaysInQueue
  <2>2. GivenUp \subseteq GivenUp' /\ \A o \in acked' \ acked : o \in GivenUp'
    BY <1>4 DEF GivenUp
  <2> QED BY <1>3, <1>4, <2>1, <2>2, OpenKept
<1>7. HistoryPart'
  <2>1. acked' \subseteq 1 .. placed'
    BY <1>2, <1>3, <1>4 DEF IInv, HistoryPart
  <2> QED BY <1>3, <1>4, <1>6, <2>1 DEF IInv, HistoryPart, ExhaustedAfterAll
<1> QED BY <1>3, <1>5, <1>7 DEF IInv

\* A close whose order was taken, and that was not told so.
LEMMA CloseAnswerLostInv == ASSUME IInv, NEW h \in Handler, CloseAnswerLost(h) PROVE IInv'
<1>1. PICK s \in Symbols :
         /\ PlaceOrder(http[h].ref, "", s, CloseQuantity(http[h].todo[s]), TRUE, "submitted")
         /\ Goto(h, [http[h] EXCEPT !.todo[s] = 0])
  BY DEF CloseAnswerLost
<1> DEFINE q == CloseQuantity(http[h].todo[s])
           l == [http[h] EXCEPT !.todo[s] = 0]
<1>2. IsClosing(http[h]) /\ http[h].pc # "schedule"
  BY HandlerPc DEF IInv, HandlerPart, CloseAnswerLost
<1>3. q \in Int /\ placed \in Nat
  BY <1>2, Constants DEF CloseQuantity, IsClosing, IInv, AdapterPart
<1>4. PlaceOrder(http[h].ref, "", s, q, TRUE, "submitted") /\ Goto(h, l)
  BY <1>1
<1> HIDE DEF q
<1>5. AdapterPart' /\ OrdersGrow /\ placed' = placed + 1
  BY <1>3, <1>4, OrderPlaced
<1>6. IsClosing(l)
  <2>1. l = [pc |-> "close", ref |-> http[h].ref, todo |-> [http[h].todo EXCEPT ![s] = 0]]
    BY <1>2 DEF IsClosing
  <2>2. [http[h].todo EXCEPT ![s] = 0] \in [Symbols -> Int]
    BY <1>2 DEF IsClosing
  <2> HIDE DEF l
  <2> QED BY <2>1, <2>2 DEF IsClosing
<1> HIDE DEF l
<1>7. HandlerPart' /\ \A g \in Handler : g # h => http'[g] = http[g]
  BY <1>4, <1>5, <1>6, HandlerMoves DEF IsHandler
<1>8. UNCHANGED <<queue, acked, audited, exhausted, lost, unaudited, lookups>>
  BY DEF CloseAnswerLost
<1>9. QueuePart'
  BY <1>5, <1>8, QueueStays
<1>10. OpenOrderFollowed'
  <2>1. \A t \in queue : TakenOver(t.subject)
    BY <1>8, StaysInQueue
  <2>2. \A g \in Handler : http[g].pc = "schedule"
                             => http'[g].pc = "schedule" /\ http'[g].subject = http[g].subject
    BY <1>2, <1>7
  <2>3. GivenUp \subseteq GivenUp'
    BY <1>8 DEF GivenUp
  <2> QED BY <1>5, <1>8, <2>1, <2>2, <2>3, OpenKept
<1>11. HistoryPart'
  <2>1. acked' \subseteq 1 .. placed'
    BY <1>3, <1>5, <1>8 DEF IInv, HistoryPart
  <2> QED BY <1>8, <1>10, <2>1 DEF IInv, HistoryPart, ExhaustedAfterAll
<1> QED BY <1>5, <1>7, <1>9, <1>11 DEF IInv

\* One order gets another status; it stays the same order.
LEMMA OrderChanges ==
    ASSUME IInv, NEW k \in 1 .. MaxOrders, orders[k] # NoOrder, NEW x, orders' = [orders EXCEPT ![k] = x],
           UNCHANGED <<adapter, placed>>,
           IsOrder(x), x.key = orders[k].key, x.owner = orders[k].owner,
           x.status \in FinalStatuses
    PROVE  /\ AdapterPart' /\ OrdersGrow
           /\ orders'[k] = x /\ \A o \in 1 .. MaxOrders : o # k => orders'[o] = orders[o]
<1>1. x # NoOrder
  <2>1. NoOrder.status = "none"
    BY DEF NoOrder
  <2> QED BY <2>1 DEF FinalStatuses
<1>2. /\ orders' = [o \in 1 .. MaxOrders |-> orders'[o]]
      /\ orders'[k] = x
      /\ \A o \in 1 .. MaxOrders : o # k => orders'[o] = orders[o]
  BY DEF IInv, AdapterPart
<1>3. \A o \in acked : o \in 1 .. MaxOrders
  BY Constants DEF IInv, HistoryPart, AdapterPart
<1>4. OrdersGrow
  BY <1>1, <1>2, <1>3 DEF OrdersGrow
<1>5. AdapterPart'
  BY <1>1, <1>2 DEF IInv, AdapterPart
<1> QED BY <1>2, <1>4, <1>5

LEMMA CancelInv == ASSUME IInv, NEW h \in Handler, CancelAdapterOrder(h) PROVE IInv'
<1>1. PICK ref \in Refs, o \in 0 .. MaxOrders, cid \in ClientIds :
          /\ CancelOrder(FindOrder(Owner(ref), o, cid))
          /\ Goto(h, Scheduling(ref, [kind |-> "order", o |-> FindOrder(Owner(ref), o, cid)], NoPositions))
  BY DEF CancelAdapterOrder
<1> DEFINE k == FindOrder(Owner(ref), o, cid)
           x == [orders[k] EXCEPT !.status = "canceled"]
<1>2. /\ k \in 1 .. MaxOrders /\ orders[k] # NoOrder
      /\ adapter # "simulated" => orders[k].owner = Owner(ref)
  <2>1. k # 0
    BY <1>1 DEF CancelOrder, MayCancel
  <2> QED BY <2>1, Found, Zenon
<1>3. /\ CancelOrder(k)
      /\ Goto(h, Scheduling(ref, [kind |-> "order", o |-> k], NoPositions))
  BY <1>1
<1> HIDE DEF k
<1>4. IsOrder(orders[k])
  BY <1>2 DEF IInv, AdapterPart
<1>5. /\ IsOrder(x) /\ x.key = orders[k].key /\ x.owner = orders[k].owner
      /\ x.status = "canceled"
  BY <1>4 DEF IsOrder, FinalStatuses
<1>6. orders' = [orders EXCEPT ![k] = x] /\ UNCHANGED <<adapter, placed>>
  BY <1>3 DEF CancelOrder
<1> HIDE DEF x
<1>7. /\ AdapterPart' /\ OrdersGrow /\ orders'[k] = x
  BY <1>2, <1>5, <1>6, OrderChanges DEF FinalStatuses
<1>8. PlacedWith(k, {ref.key}, adapter', orders')
  <2> SUFFICES ASSUME adapter = "ccxt" PROVE orders'[k] # NoOrder /\ orders'[k].key = ref.key
    BY <1>6 DEF PlacedWith
  <2>1. orders[k].owner = orders[k].key /\ orders[k].owner = ref.key
    BY <1>2 DEF IInv, AdapterPart, Owner
  <2>2. orders'[k] # NoOrder
    BY <1>2, <1>7 DEF OrdersGrow
  <2> QED BY <1>5, <1>7, <2>1, <2>2
<1>9. HandlerPart' /\ \A g \in Handler : g # h => http'[g] = http[g]
  <2> DEFINE l == Scheduling(ref, [kind |-> "order", o |-> k], NoPositions)
  <2>1. IsHandler(l, adapter', orders')
    BY <1>2, <1>8, SchedulingOrder, NoPositionsType
  <2>2. Goto(h, l)
    BY <1>3
  <2> HIDE DEF l
  <2> QED BY <1>7, <2>1, <2>2, HandlerMoves
<1>10. UNCHANGED <<queue, acked, audited, exhausted, lost, unaudited, lookups>>
  BY DEF CancelAdapterOrder
<1>11. QueuePart'
  BY <1>7, <1>10, QueueStays
<1>12. OpenOrderFollowed'
  <2>1. \A t \in queue : TakenOver(t.subject)
    BY <1>10, StaysInQueue
  <2>2. http[h].pc # "schedule"
    <3>1. http[h] = Idle
      BY DEF CancelAdapterOrder, Arrives
    <3> QED BY <3>1 DEF Idle
  <2>3. \A g \in Handler : http[g].pc = "schedule"
                             => http'[g].pc = "schedule" /\ http'[g].subject = http[g].subject
    BY <1>9, <2>2
  <2>4. GivenUp \subseteq GivenUp'
    BY <1>10 DEF GivenUp
  <2> QED BY <1>7, <1>10, <2>1, <2>3, <2>4, OpenKept
<1>13. HistoryPart'
  BY <1>6, <1>10, <1>12 DEF IInv, HistoryPart, ExhaustedAfterAll
<1> QED BY <1>7, <1>9, <1>11, <1>13 DEF IInv

\* An order with another status and quantity filled is an order.
LEMMA FilledOrder ==
    ASSUME NEW y, IsOrder(y), NEW f \in Int
    PROVE  LET x == [y EXCEPT !.status = "filled", !.filled = f]
           IN  IsOrder(x) /\ x.key = y.key /\ x.owner = y.owner /\ x.status = "filled"
<1> DEFINE x == [y EXCEPT !.status = "filled", !.filled = f]
<1>1. y = [owner |-> y.owner, key |-> y.key, symbol |-> y.symbol, quantity |-> y.quantity,
           reduceOnly |-> y.reduceOnly, status |-> y.status, filled |-> y.filled]
  BY DEF IsOrder
<1>2. x = [owner |-> y.owner, key |-> y.key, symbol |-> y.symbol, quantity |-> y.quantity,
           reduceOnly |-> y.reduceOnly, status |-> "filled", filled |-> f]
  <2> DEFINE z == [y EXCEPT !.status = "filled"]
  <2>1. x = [z EXCEPT !.filled = f]
    OBVIOUS
  <2>2. z = [owner |-> y.owner, key |-> y.key, symbol |-> y.symbol, quantity |-> y.quantity,
             reduceOnly |-> y.reduceOnly, status |-> "filled", filled |-> y.filled]
    BY <1>1
  <2> HIDE DEF x, z
  <2> QED BY <2>1, <2>2
<1> HIDE DEF x
<1>3. /\ x.key = y.key /\ x.owner = y.owner /\ x.symbol = y.symbol /\ x.quantity = y.quantity
      /\ x.reduceOnly = y.reduceOnly /\ x.status = "filled" /\ x.filled = f
  BY <1>2
<1>4. y.quantity \in Int
  BY DEF IsOrder
<1>5. IsOrder(x)
  BY <1>2, <1>3, <1>4 DEF IsOrder, FinalStatuses
<1>6. x.key = y.key /\ x.owner = y.owner /\ x.status = "filled"
  BY <1>3
<1> QED BY <1>5, <1>6 DEF x

\* A resting order is filled.
LEMMA ExchangeFillInv ==
    ASSUME IInv, NEW k \in Known, ExchangeFill(k), UNCHANGED opsVars
    PROVE  IInv'
<1> DEFINE f == Fill(orders[k].owner, orders[k].symbol, orders[k].quantity, orders[k].reduceOnly)
           x == [orders[k] EXCEPT !.status = "filled", !.filled = f]
<1>1. k \in 1 .. MaxOrders /\ orders[k] # NoOrder /\ IsOrder(orders[k])
  BY DEF Known, IInv, AdapterPart
<1>2. f \in Int
  <2>1. orders[k].quantity \in Int
    BY <1>1 DEF IsOrder
  <2> QED BY <2>1, FillType DEF IInv
<1>3. orders' = [orders EXCEPT ![k] = x]
  <2> HIDE DEF f
  <2>1. orders' = [orders EXCEPT ![k].status = "filled", ![k].filled = f]
    BY DEF ExchangeFill, f
  <2> QED BY <1>1, <2>1 DEF IInv, AdapterPart
<1> HIDE DEF f
<1>4. /\ IsOrder(x) /\ x.key = orders[k].key /\ x.owner = orders[k].owner
      /\ x.status = "filled"
  BY <1>1, <1>2, FilledOrder
<1> HIDE DEF x
<1>5. UNCHANGED <<adapter, placed>> /\ placed \in Nat
  BY Constants DEF ExchangeFill, IInv, AdapterPart
<1>6. AdapterPart' /\ OrdersGrow
  BY <1>1, <1>3, <1>4, <1>5, OrderChanges DEF FinalStatuses
<1>7. UNCHANGED <<http, queue, acked, audited, exhausted, lost, unaudited, lookups>>
  BY DEF opsVars
<1> QED BY <1>5, <1>6, <1>7, OrdersOnlyInv
------------------------------------------------------------------------------
(* Restarts *)

\* The orders of many subjects.
LEMMA OrdersOfMany ==
    ASSUME NEW S, NEW o
    PROVE  o \in OrdersOf(S) <=> \E x \in S : x.kind = "order" /\ o = x.o
BY DEF OrdersOf

\* What a restart takes away are orders, of the tasks that ran and of the
\* handlers that were about to schedule.
LEMMA LostOrders ==
    ASSUME IInv, Restart
    PROVE  /\ lost' \subseteq 1 .. MaxOrders /\ lost \subseteq lost'
           /\ \A t \in queue \ queue' : t.subject.kind = "order" => t.subject.o \in lost'
           /\ \A h \in Handler : http[h].pc = "schedule" /\ http[h].subject.kind = "order"
                                   => http[h].subject.o \in lost'
<1> DEFINE A == {t.subject : t \in queue \ queue'}
           B == {http[h].subject : h \in {g \in Handler : http[g].pc = "schedule"}}
<1>1. lost' = lost \cup OrdersOf(A) \cup OrdersOf(B)
  BY DEF Restart
<1>2. A \subseteq Subject
  BY TaskShape DEF IInv, QueuePart
<1>3. B \subseteq Subject
  BY HandlerPc DEF IInv, HandlerPart, IsScheduling
<1>4. \A t \in queue \ queue' : t.subject \in A
  OBVIOUS
<1>5. \A h \in Handler : http[h].pc = "schedule" => http[h].subject \in B
  OBVIOUS
<1> HIDE DEF A, B
<1>6. OrdersOf(A) \subseteq 1 .. MaxOrders /\ OrdersOf(B) \subseteq 1 .. MaxOrders
  BY <1>2, <1>3, OrdersOfMany, SubjectShape
<1>7. lost' \subseteq 1 .. MaxOrders /\ lost \subseteq lost'
  BY <1>1, <1>6 DEF IInv, HistoryPart
<1>8. \A t \in queue \ queue' : t.subject.kind = "order" => t.subject.o \in lost'
  BY <1>1, <1>4, OrdersOfMany
<1>9. \A h \in Handler : http[h].pc = "schedule" /\ http[h].subject.kind = "order"
                           => http[h].subject.o \in lost'
  BY <1>1, <1>5, OrdersOfMany
<1> QED BY <1>7, <1>8, <1>9

LEMMA RestartInv == ASSUME IInv, Restart PROVE IInv'
<1>1. /\ adapter' = adapter /\ placed' = placed
      /\ orders' = IF adapter = "simulated" THEN [o \in 1 .. MaxOrders |-> NoOrder] ELSE orders
      /\ http' = [h \in Handler |-> Idle]
      /\ queue' = {t \in queue : t.state = "waiting"}
      /\ UNCHANGED <<acked, audited, exhausted, unaudited, lookups>>
  BY DEF Restart, AdapterRestart
<1>2. adapter = "simulated" \/ (adapter = "ccxt" /\ orders' = orders)
  BY <1>1 DEF IInv, AdapterPart
<1>3. adapter = "simulated" => \A o \in 1 .. MaxOrders : orders'[o] = NoOrder
  BY <1>1
<1>4. AdapterPart'
  <2>1. CASE adapter = "simulated"
    BY <1>1, <1>3, <2>1 DEF IInv, AdapterPart
  <2>2. CASE adapter = "ccxt" /\ orders' = orders
    BY <1>1, <2>2, SameAdapter
  <2> QED BY <1>2, <2>1, <2>2
<1>5. HandlerPart'
  BY <1>1 DEF HandlerPart, IsHandler
<1>6. QueuePart'
  <2>1. ASSUME NEW t \in queue' PROVE FollowsOrder(t, adapter', orders', lookups')
    <3>1. t.state = "waiting" /\ FollowsOrder(t, adapter, orders, lookups)
      BY <1>1 DEF IInv, QueuePart
    <3>2. \A o, keys : PlacedWith(o, keys, adapter, orders) => PlacedWith(o, keys, adapter', orders')
      BY <1>1, <1>2 DEF PlacedWith
    <3> QED BY <1>1, <3>1, <3>2 DEF FollowsOrder
  <2> QED BY <1>1, <2>1 DEF IInv, QueuePart
<1>7. OpenOrderFollowed'
  <2>1. CASE adapter = "simulated"
    <3>1. Known' = {}
      BY <1>3, <2>1 DEF Known
    <3> QED BY <3>1 DEF OpenOrderFollowed
  <2>2. CASE adapter = "ccxt" /\ orders' = orders
    <3>1. OrdersGrow
      BY <1>1, <2>2, SameOrders
    <3>2. GivenUp \subseteq GivenUp' /\ lost' \subseteq GivenUp'
      BY <1>1, LostOrders DEF GivenUp
    <3>3. \A t \in queue : TakenOver(t.subject)
      BY <3>2, LostOrders, StaysInQueue DEF TakenOver
    <3>4. \A h \in Handler : http[h].pc = "schedule" => TakenOver(http[h].subject)
      BY <3>2, LostOrders DEF TakenOver
    <3> QED BY <1>1, <3>1, <3>2, <3>3, <3>4, OpenKept
  <2> QED BY <1>2, <2>1, <2>2
<1>8. HistoryPart'
  BY <1>1, <1>7, LostOrders DEF IInv, HistoryPart, ExhaustedAfterAll
<1> QED BY <1>4, <1>5, <1>6, <1>8 DEF IInv
------------------------------------------------------------------------------
(* The theorems *)

LEMMA InitInv == ASSUME Init PROVE IInv
<1>1. AdapterPart
  BY Constants DEF Init, AdapterInit, AdapterPart
<1>2. HandlerPart
  BY DEF Init, HandlerPart, IsHandler
<1>3. QueuePart
  BY DEF Init, QueuePart
<1>4. HistoryPart
  BY Constants DEF Init, HistoryPart, OpenOrderFollowed, ExhaustedAfterAll
<1> QED BY <1>1, <1>2, <1>3, <1>4 DEF IInv

LEMMA AccountChangesInv == ASSUME IInv, AccountChanges PROVE IInv'
<1>1. UNCHANGED <<adapter, orders, placed, http, queue, acked, audited, exhausted, lost, unaudited, lookups>>
  BY DEF AccountChanges, adapterVars
<1>2. AdapterPart' /\ OrdersGrow
  BY <1>1, SameOrders, SameAdapter
<1>3. placed \in Nat
  BY Constants DEF IInv, AdapterPart
<1> QED BY <1>1, <1>2, <1>3, OrdersOnlyInv

LEMMA StutterInv == ASSUME IInv, UNCHANGED vars PROVE IInv'
<1>1. UNCHANGED <<adapter, orders, placed, http, queue, acked, audited, exhausted, lost, unaudited, lookups>>
  BY DEF vars, adapterVars, opsVars
<1>2. AdapterPart' /\ OrdersGrow
  BY <1>1, SameOrders, SameAdapter
<1>3. placed \in Nat
  BY Constants DEF IInv, AdapterPart
<1> QED BY <1>1, <1>2, <1>3, OrdersOnlyInv

LEMMA NextInv == ASSUME IInv, [Next]_vars PROVE IInv'
<1>1. ASSUME NEW h \in Handler, HandlerStep(h) PROVE IInv'
  BY <1>1, PlaceAdapterOrderInv, PlaceAnswerLostInv, PlaceAnswerNamesNoOrderInv, CancelInv,
     CloseFetchInv, SetSettingInv, ClosePlaceInv, ClosePlaceFailsInv, CloseAnswerLostInv,
     CloseEndsInv, ScheduleInv, ScheduleFailsInv DEF HandlerStep
<1>2. CASE TaskStep
  BY <1>2, HandleInv, DoneInv, AgainInv, ExhaustedInv DEF TaskStep
<1>3. CASE \E t \in queue : LoseTask(t)
  BY <1>3, LoseTaskInv
<1>4. CASE (\E o \in Known : ExchangeFill(o)) /\ UNCHANGED opsVars
  BY <1>4, ExchangeFillInv
<1> QED BY <1>1, <1>2, <1>3, <1>4, RestartInv, AccountChangesInv, StutterInv DEF Next

\* The inductive invariant: the exchange numbers its orders and keeps their keys,
\* every handler and every task that follows an order has that order's key, tasks
\* end only with their orders, and no order is given up before its time.
THEOREM ExternalOpsInvariant == Spec => []IInv
BY InitInv, NextInv, PTL DEF Spec

\* Types: the orders, the tasks of asynq and the lists of the audit log.
THEOREM ExternalOpsTypes == Spec => []TypeOK
<1>1. ASSUME IInv PROVE TypeOK
  <2>1. \A o \in 1 .. MaxOrders : orders[o].status \in FinalStatuses \cup {"none", "submitted"}
    BY <1>1 DEF IInv, AdapterPart, IsOrder, NoOrder
  <2>2. \A h \in Handler : http[h].pc \in {"idle", "close", "schedule"}
    BY <1>1, HandlerPc DEF IInv, HandlerPart
  <2>3. acked \subseteq 1 .. MaxOrders
    BY <1>1, Constants DEF IInv, HistoryPart, AdapterPart
  <2> QED BY <1>1, <2>1, <2>2, <2>3 DEF IInv, QueuePart, HistoryPart, TypeOK
<1> QED BY <1>1, ExternalOpsInvariant, PTL

\* scheduleOrderReconciliation and scheduleNextOrder leave no open order without
\* a task, whatever asynq.Unique takes for a duplicate, unless it is on the list
\* of a reason: audited, exhausted, lost by a fault, or unaudited because the audit
\* event was lost by a fault as well or there was no number to look it up by.
THEOREM OpenOrdersAreFollowed == Spec => []OpenOrderFollowed
<1>1. IInv => OpenOrderFollowed
  BY DEF IInv, HistoryPart
<1> QED BY <1>1, ExternalOpsInvariant, PTL

\* scheduleNextOrder gives an order up only after all of reconciliationCheckpoints.
THEOREM ExhaustedOnlyAfterAll == Spec => []ExhaustedAfterAll
<1>1. IInv => ExhaustedAfterAll
  BY DEF IInv, HistoryPart
<1> QED BY <1>1, ExternalOpsInvariant, PTL

\* ResolveAccountID finds no account with another key than the one the order was
\* placed with.
THEOREM OrdersFollowedWithOwnKey == Spec => []FollowedWithOwnKey
<1>1. ASSUME IInv PROVE FollowedWithOwnKey
  <2> SUFFICES ASSUME NEW t \in queue, adapter = "ccxt", t.subject.kind = "order"
               PROVE  orders[t.subject.o].key \in {"", Stored[t.acct].key}
    BY DEF FollowedWithOwnKey
  <2>1. FollowsOrder(t, adapter, orders, lookups)
    BY <1>1 DEF IInv, QueuePart
  <2> QED BY <2>1 DEF FollowsOrder, PlacedWith
<1> QED BY <1>1, ExternalOpsInvariant, PTL
------------------------------------------------------------------------------
(* What a close does to a position *)

\* One order changes, and the positions by what it adds.
LEMMA PositionChanges ==
    ASSUME AdapterPart, AdapterPart', NEW k \in 1 .. MaxOrders,
           \A o \in 1 .. MaxOrders : o # k => orders'[o] = orders[o],
           NEW owner, NEW s, NEW P, P = Total([o \in 1 .. MaxOrders |-> Amount(orders'[o], owner, s)])
    PROVE  P = Position(owner, s) + (Amount(orders'[k], owner, s) - Amount(orders[k], owner, s))
<1> DEFINE a == [o \in 1 .. MaxOrders |-> Amount(orders[o], owner, s)]
           b == [o \in 1 .. MaxOrders |-> Amount(orders'[o], owner, s)]
<1>1. Position(owner, s) = Total(a)
  BY DEF Position, Amount
<1>2. a \in [1 .. MaxOrders -> Int]
  BY DEF AdapterPart, IsOrder, Amount, NoOrder
<1>3. b \in [1 .. MaxOrders -> Int]
  BY DEF AdapterPart, IsOrder, Amount, NoOrder
<1>4. \A n \in 1 .. MaxOrders : n # k => b[n] = a[n]
  OBVIOUS
<1>5. b[k] = Amount(orders'[k], owner, s) /\ a[k] = Amount(orders[k], owner, s) /\ P = Total(b)
  OBVIOUS
<1> HIDE DEF a, b
<1> QED BY <1>1, <1>2, <1>3, <1>4, <1>5, TotalChange

\* The opposite of a position, or a part of it, makes the position smaller.
LEMMA Reduces ==
    ASSUME NEW b \in Int, NEW f \in Int,
           \/ f = 0 \/ f = -b
           \/ ~(f * b >= 0) /\ Abs(f) <= Abs(b)
    PROVE  Abs(b + f) <= Abs(b) /\ b * (b + f) >= 0
<1>1. CASE f = 0
  BY <1>1 DEF Abs
<1>2. CASE f = -b
  BY <1>2 DEF Abs
<1>3. CASE ~(f * b >= 0) /\ Abs(f) <= Abs(b)
  <2>1. CASE b > 0
    <3>1. f < 0
      BY <1>3, <2>1
    <3>2. b + f >= 0 /\ b + f <= b
      BY <1>3, <2>1, <3>1 DEF Abs
    <3> QED BY <2>1, <3>2 DEF Abs
  <2>2. CASE b < 0
    <3>1. f > 0
      BY <1>3, <2>2
    <3>2. b + f <= 0 /\ b + f >= b
      BY <1>3, <2>2, <3>1 DEF Abs
    <3> QED BY <2>2, <3>2 DEF Abs
  <2>3. CASE b = 0
    BY <1>3, <2>3
  <2> QED BY <2>1, <2>2, <2>3
<1> QED BY <1>1, <1>2, <1>3

\* A step of another handler leaves the handler alone.
LEMMA OtherHandler ==
    ASSUME IInv, NEW g \in Handler, HandlerStep(g), NEW h \in Handler, h # g
    PROVE  http'[h] = http[h]
<1>1. \A l : Goto(g, l) => http'[h] = http[h]
  BY DEF Goto, IInv, HandlerPart
<1>2. CASE PlaceAdapterOrder(g)
  BY <1>1, <1>2 DEF PlaceAdapterOrder
<1>3. CASE PlaceAnswerLost(g) \/ PlaceAnswerNamesNoOrder(g)
  BY <1>3 DEF PlaceAnswerLost, PlaceAnswerNamesNoOrder
<1>4. CASE CancelAdapterOrder(g)
  BY <1>1, <1>4 DEF CancelAdapterOrder
<1>5. CASE CloseFetch(g)
  BY <1>1, <1>5 DEF CloseFetch
<1>6. CASE \E kind \in SettingKinds : SetAdapterSetting(g, kind)
  BY <1>1, <1>6 DEF SetAdapterSetting
<1>7. CASE ClosePlace(g)
  BY <1>1, <1>7 DEF ClosePlace
<1>8. CASE ClosePlaceFails(g) \/ CloseAnswerLost(g)
  BY <1>1, <1>8 DEF ClosePlaceFails, CloseAnswerLost
<1>9. CASE CloseEnds(g)
  BY <1>1, <1>9 DEF CloseEnds
<1>10. CASE Schedule(g) \/ ScheduleFails(g) \/ ScheduleFailsUnaudited(g)
  BY <1>1, <1>10 DEF Schedule, ScheduleFails, ScheduleFailsUnaudited, Scheduled
<1> QED BY <1>2, <1>3, <1>4, <1>5, <1>6, <1>7, <1>8, <1>9, <1>10 DEF HandlerStep

\* Only closeAdapterPositions placing an order takes a handler from its loop to
\* the scheduling.
LEMMA OnlyClosePlace ==
    ASSUME IInv, [Next]_vars, NEW h \in Handler, http[h].pc = "close", http'[h].pc = "schedule"
    PROVE  ClosePlace(h)
<1>1. http'[h] # http[h] /\ http' # http /\ http[h] # Idle /\ http'[h] # Idle
  BY DEF Idle
<1>2. ASSUME NEW g \in Handler, HandlerStep(g) PROVE ClosePlace(h)
  <2>1. HandlerStep(h)
    BY <1>1, <1>2, OtherHandler
  <2>2. \A op : ~Arrives(h, op)
    BY <1>1 DEF Arrives
  <2>3. /\ ~PlaceAdapterOrder(h) /\ ~PlaceAnswerLost(h) /\ ~PlaceAnswerNamesNoOrder(h)
        /\ ~CancelAdapterOrder(h) /\ ~CloseFetch(h)
        /\ \A kind \in SettingKinds : ~SetAdapterSetting(h, kind)
    BY <2>2 DEF PlaceAdapterOrder, PlaceAnswerLost, PlaceAnswerNamesNoOrder, CancelAdapterOrder,
       CloseFetch, SetAdapterSetting
  <2>4. ~Schedule(h) /\ ~ScheduleFails(h) /\ ~ScheduleFailsUnaudited(h)
    BY DEF Schedule, ScheduleFails, ScheduleFailsUnaudited
  <2>5. \A l : Goto(h, l) => http'[h] = l
    BY DEF Goto, IInv, HandlerPart
  <2>6. ~CloseEnds(h)
    BY <1>1, <2>5 DEF CloseEnds
  <2>7. ~ClosePlaceFails(h) /\ ~CloseAnswerLost(h)
    <3> SUFFICES ASSUME NEW s \in Symbols, http'[h] = [http[h] EXCEPT !.todo[s] = 0] PROVE FALSE
      BY <2>5 DEF ClosePlaceFails, CloseAnswerLost
    <3>1. IsClosing(http[h])
      BY HandlerPc DEF IInv, HandlerPart
    <3> QED BY <3>1 DEF IsClosing
  <2> QED BY <2>1, <2>3, <2>4, <2>6, <2>7 DEF HandlerStep
<1>3. CASE TaskStep
  BY <1>1, <1>3 DEF TaskStep, Handle, Done, Again, Exhausted
<1>4. CASE \E t \in queue : LoseTask(t)
  BY <1>1, <1>4 DEF LoseTask
<1>5. CASE UNCHANGED opsVars \/ UNCHANGED vars
  BY <1>1, <1>5 DEF opsVars, vars
<1>6. CASE Restart
  BY <1>1, <1>6 DEF Restart
<1>7. CASE AccountChanges
  BY <1>1, <1>7 DEF AccountChanges
<1> QED BY <1>2, <1>3, <1>4, <1>5, <1>6, <1>7 DEF Next

\* What the order of a close fills reduces the position.
LEMMA CloseReduces ==
    ASSUME IInv, NEW h \in Handler, NEW s \in Symbols, ClosePlace(h),
           http'[h].todo[s] # http[h].todo[s],
           NEW before, before = Position(Owner(http[h].ref), s),
           adapter = "ccxt" \/ http[h].todo[s] = before
    PROVE  LET after == Position(Owner(http[h].ref), s)'
           IN  Abs(after) <= Abs(before) /\ before * after >= 0
<1> DEFINE ref == http[h].ref
           q == CloseQuantity(http[h].todo[s])
           todo == [http[h].todo EXCEPT ![s] = 0]
<1>1. http[h].pc = "close" /\ http[h].todo \in [Symbols -> Int]
  BY HandlerPc DEF ClosePlace, IInv, HandlerPart, IsClosing
<1>2. PICK r \in Symbols, st \in {"filled", "submitted"} :
          /\ PlaceOrder(http[h].ref, "", r, CloseQuantity(http[h].todo[r]), TRUE, st)
          /\ Goto(h, Scheduling(http[h].ref, [kind |-> "order", o |-> placed'],
                                [http[h].todo EXCEPT ![r] = 0]))
  BY DEF ClosePlace
<1>3. http'[h] = Scheduling(http[h].ref, [kind |-> "order", o |-> placed'], [http[h].todo EXCEPT ![r] = 0])
  BY <1>2 DEF Goto, IInv, HandlerPart
<1>4. http'[h].ref = http[h].ref /\ http'[h].todo = [http[h].todo EXCEPT ![r] = 0]
  BY <1>3 DEF Scheduling
<1>5. r = s
  BY <1>1, <1>4
<1>6. PlaceOrder(ref, "", s, q, TRUE, st) /\ q \in Int /\ q = -http[h].todo[s]
  <2>1. PlaceOrder(ref, "", s, q, TRUE, st)
    BY <1>2, <1>5, Zenon
  <2>2. http[h].todo[s] \in Int
    BY <1>1
  <2>3. q \in Int /\ q = -http[h].todo[s]
    BY <2>2 DEF CloseQuantity
  <2> QED BY <2>1, <2>3, Zenon
<1>7. adapter' = adapter /\ Owner(http[h].ref)' = Owner(ref)
  BY <1>4, <1>6 DEF PlaceOrder, Owner
<1> DEFINE x == OrderOf(ref, s, q, TRUE, st)
<1> HIDE DEF ref, q
<1>8. /\ AdapterPart' /\ placed' \in 1 .. MaxOrders
      /\ orders[placed'] = NoOrder /\ orders'[placed'] = x
      /\ \A o \in 1 .. MaxOrders : o # placed' => orders'[o] = orders[o]
  BY <1>6, OrderPlaced
<1> DEFINE after == Position(Owner(http[h].ref), s)'
           f == Amount(x, Owner(ref), s)
<1>9. before \in Int
  BY PositionType DEF IInv
<1>10. after = before + f /\ f \in Int
  <2>1. after = Total([o \in 1 .. MaxOrders |-> Amount(orders'[o], Owner(ref), s)])
    BY <1>7 DEF Position, Amount
  <2>2. Amount(NoOrder, Owner(ref), s) = 0
    BY DEF Amount, NoOrder
  <2>3. f \in Int
    <3>1. IsOrder(x)
      <4>1. orders'[placed'].status = st /\ st # "none"
        BY <1>8 DEF OrderOf
      <4>2. NoOrder.status = "none"
        BY DEF NoOrder
      <4> QED BY <1>8, <4>1, <4>2 DEF AdapterPart
    <3> HIDE DEF x
    <3> QED BY <3>1 DEF IsOrder, Amount
  <2> HIDE DEF x
  <2>4. before = Position(Owner(ref), s)
    BY DEF ref
  <2> HIDE DEF after, f
  <2>5. after = Position(Owner(ref), s) + (Amount(orders'[placed'], Owner(ref), s)
                                            - Amount(orders[placed'], Owner(ref), s))
    BY <1>8, <2>1, PositionChanges DEF IInv
  <2> QED BY <1>8, <1>9, <2>2, <2>3, <2>4, <2>5 DEF f
<1>11. f = IF st = "filled" THEN Fill(Owner(ref), s, q, TRUE) ELSE 0
  BY DEF Amount, OrderOf
<1>12. \/ f = 0 \/ f = -before
       \/ ~(f * before >= 0) /\ Abs(f) <= Abs(before)
  <2> HIDE DEF f, x
  <2>1. before = Position(Owner(ref), s)
    BY DEF ref
  <2>2. adapter = "ccxt" => adapter # "simulated"
    OBVIOUS
  <2> QED BY <1>6, <1>11, <2>1, <2>2 DEF Fill
<1> HIDE DEF f, x
<1> QED BY <1>9, <1>10, <1>12, Reduces

\* closeAdapterPositions neither opens nor reverses a position that it has read as
\* it is, and never does on an exchange, which knows reduce-only.
THEOREM ClosesNeverOpen == Spec => CloseNeverOpens
<1>1. IInv /\ [Next]_vars =>
        [\A h \in Handler, s \in Symbols :
            LET owner == Owner(http[h].ref)
                before == Position(owner, s)
                after == Position(owner, s)'
            IN  http[h].pc = "close" /\ http'[h].pc = "schedule" /\ http'[h].todo[s] # http[h].todo[s]
                /\ (adapter = "ccxt" \/ http[h].todo[s] = before)
                => Abs(after) <= Abs(before) /\ before * after >= 0]_vars
  BY OnlyClosePlace, CloseReduces
<1> QED BY <1>1, ExternalOpsInvariant, PTL DEF Spec, CloseNeverOpens
==============================================================================
