-------------------------- MODULE SyncMonitor_proofs -------------------------
(***************************************************************************)
(* Proofs about the three syncs, for any configurations, groups, accounts, *)
(* callers and limits, and in every environment.                           *)
(***************************************************************************)
EXTENDS SyncMonitor, HedgeCalculator_proofs, WellFoundedInduction
------------------------------------------------------------------------------
(* The inductive invariant *)

\* What is around the services.
WorldPart ==
    /\ now \in Nat \ {0} /\ changes \in Nat /\ batches \in Nat /\ faults \in Nat
    /\ net \in [Symbol -> NetType] /\ \A s \in Symbol : net[s].version <= changes
    /\ book \in [Place -> BookType] /\ \A p \in Place : book[p].version <= changes
    /\ price \in [Symbol -> Nat]
    /\ settings \in SettingsType
    /\ failed \in SUBSET Config

\* The configurations a batch of the exposure sync has still to deal with.
Waiting(l) ==
    {c \in Listed(l.list) :
       /\ GroupOf[c] # 0
       /\ \/ l.pc = "aggregate"
          \/ l.pc \in {"cache", "price", "snapshot"} /\ GroupOf[c] >= l.group
          \/ l.pc = "enqueue" /\ (GroupOf[c] > l.group \/ c \in l.todo)}

\* The outcomes that follow a stored snapshot, and those of them that follow
\* the question whether the configuration may execute.
Stored == {"blocked", "duplicate", "enqueued", "enqueue_failed"}
Executable == {"duplicate", "enqueued", "enqueue_failed"}

\* Between its query and its end a batch holds quantities that are not older
\* than the snapshots and not newer than ClickHouse.
NetsBetween(l, ex, ne) ==
    \A g \in Group : /\ ex[g].version <= l.nets[SymbolOf[g]].version
                     /\ l.nets[SymbolOf[g]].version <= ne[SymbolOf[g]].version

\* A row of Redis answers for a snapshot of that time until it is ExposureTTL old.
Covers(row, at) ==
    /\ row.known /\ row.at >= at
    /\ row.until # 0 => row.until >= at + ExposureTTL

\* The quantity the batch is about to store is in the cache, with its time.
CachedFirst(l, ca, ex) ==
    /\ Covers(ca[l.group], l.at)
    /\ l.at > 0 /\ l.at >= ex[l.group].at

\* Every configuration has the outcome of what was done for it so far.
Accounted(l, ex) ==
    \A c \in Config :
       /\ l.out[c] = "none" <=> c \notin Listed(l.list) \/ c \in Waiting(l)
       /\ l.out[c] \in Stored =>
             /\ GroupOf[c] # 0
             /\ ex[GroupOf[c]].version = l.nets[SymbolOf[GroupOf[c]]].version
       /\ l.out[c] \in Executable => CanExecute(l.list, c)

ExposureBatchOK(l, n, ca, ex, ne) ==
    /\ l \in ExpoType
    /\ l.at <= n
    /\ l.pc \in {"cache", "price", "snapshot", "enqueue"} =>
          l.group \in GroupsOf(l.list) /\ NetsBetween(l, ex, ne)
    /\ l.pc \in {"price", "snapshot"} => CachedFirst(l, ca, ex)
    /\ l.pc = "enqueue" =>
          /\ l.todo # {} /\ l.todo \subseteq Members(l.list, l.group)
          /\ ex[l.group].version = l.nets[SymbolOf[l.group]].version
    /\ l.pc # "idle" => Accounted(l, ex)

\* One group's rows in Redis and PostgreSQL.
GroupOK(g, n, ca, ex, ne) ==
    /\ ca[g].at <= n
    /\ ex[g].at <= n
    /\ ex[g].version <= ne[SymbolOf[g]].version
    /\ ex[g].known => ex[g].at > 0 /\ Covers(ca[g], ex[g].at)

ExposurePart ==
    /\ cache \in [Group -> CacheType] /\ exposure \in [Group -> ExposureType]
    /\ queue \in SUBSET Config /\ ran \in [Config -> Nat]
    /\ \A g \in Group : GroupOK(g, now, cache, exposure, net)
    /\ expo = [x \in ExposureCaller |-> expo[x]]
    /\ \A x \in ExposureCaller : ExposureBatchOK(expo[x], now, cache, exposure, net)
    /\ \A x, y \in ExposureCaller : expo[x].pc # "idle" /\ expo[y].pc # "idle" => x = y

PositionBatchOK(l, n, po, bo) ==
    /\ IsPos(l)
    /\ l.at <= n
    /\ l.pc \in {"fetch", "stamp", "upsert"} => l.account \in SyncedAccounts(l.list)
    /\ l.pc \in {"stamp", "upsert"} =>
          \A p \in DOMAIN l.read : /\ po[p].version <= l.read[p].version
                                   /\ l.read[p].version <= bo[p].version
    /\ l.pc = "upsert" =>
          /\ l.at > 0 /\ l.todo \subseteq DOMAIN l.read
          /\ \A p \in DOMAIN l.read : po[p].at <= l.at + MaxSkew

PlaceOK(p, n, po, bo) ==
    /\ po[p].at <= n + MaxSkew
    /\ po[p].version <= bo[p].version
    /\ po[p].known => po[p].at > 0

PositionPart ==
    /\ position \in [Place -> PositionType]
    /\ \A p \in Place : PlaceOK(p, now, position, book)
    /\ pos = [x \in PositionCaller |-> pos[x]]
    /\ \A x \in PositionCaller : PositionBatchOK(pos[x], now, position, book)
    /\ \A x, y \in PositionCaller : pos[x].pc # "idle" /\ pos[y].pc # "idle" => x = y

\* The rows a refresh takes for configuration c.
ExposureFor(c, ex) == IF GroupOf[c] = 0 THEN NoExposure ELSE ex[GroupOf[c]]
PositionFor(c, po) == IF AccountOf[c] = 0 THEN NoPosition ELSE po[<<AccountOf[c], TargetOf[c]>>]

\* A row is not newer than what it was calculated from.
NotAhead(row, c, n, ex, po) ==
    /\ row.at <= n
    /\ row.seen <= ExposureFor(c, ex).version
    /\ row.held <= PositionFor(c, po).version

\* BalancedIsSound, of one row.
SoundRow(row) ==
    row.status = "balanced" =>
       /\ row.exposureAt > 0 /\ row.at - row.exposureAt <= ExposureStale
       /\ row.positionAt > 0 /\ row.at - row.positionAt <= PositionStale
       /\ Calculate(Terms, row.net, 1, [quantity |-> row.actual, notional |-> row.actual]).action
            = "hold"

\* A refresh that writes has read tables that were there, none of its rows is
\* written yet with something newer, and the tables have only grown since.
RefreshOK(l, n, ex, po, mo) ==
    /\ l \in RefType
    /\ l.pc = "upsert" =>
          /\ l.at <= n
          /\ l.todo # {}
          /\ l.exposure \in [Group -> ExposureType] /\ l.position \in [Place -> PositionType]
          /\ \A g \in Group : /\ l.exposure[g].version <= ex[g].version
                              /\ l.exposure[g].known => l.exposure[g].at > 0
          /\ \A p \in Place : /\ l.position[p].version <= po[p].version
                              /\ l.position[p].known => l.position[p].at > 0
          /\ \A c \in Config : NotAhead(mo[c], c, l.at, l.exposure, l.position)

MonitorPart ==
    /\ monitor = [c \in Config |-> monitor[c]]
    /\ \A c \in Config : /\ RowTyped(monitor[c])
                         /\ NotAhead(monitor[c], c, now, exposure, position)
                         /\ SoundRow(monitor[c])
    /\ ref = [x \in Caller |-> ref[x]]
    /\ \A x \in Caller : RefreshOK(ref[x], now, exposure, position, monitor)
    /\ \A x, y \in Caller : ref[x].pc # "idle" /\ ref[y].pc # "idle" => x = y

IInv == WorldPart /\ ExposurePart /\ PositionPart /\ MonitorPart
------------------------------------------------------------------------------
(* Basic facts *)

\* The least of some natural numbers is one of them, and no other is smaller.
LEMMA LeastIn ==
    ASSUME NEW S \in SUBSET Nat, S # {}
    PROVE  Least(S) \in S /\ \A m \in S : Least(S) <= m
<1>1. PICK x \in S : \A y \in S : ~(<<y, x>> \in OpToRel(<, Nat))
  BY NatLessThanWellFounded, WFMin
<1>2. \A y \in S : ~(y < x)
  BY <1>1 DEF OpToRel
<1>3. \A y \in S : x <= y
  BY <1>2
<1> QED BY <1>3 DEF Least

\* Configurations, groups and places are what they are numbered with.
LEMMA Names ==
    /\ Configs \in Nat /\ Config \subseteq Nat /\ Group \subseteq Nat /\ Account \subseteq Nat
    /\ 0 \notin Group /\ 0 \notin Account
    /\ \A c \in Config : GroupOf[c] # 0 => GroupOf[c] \in Group
    /\ \A c \in Config : AccountOf[c] # 0 => <<AccountOf[c], TargetOf[c]>> \in Place
    /\ \A g \in Group : SymbolOf[g] \in Symbol
BY SyncAssumption DEF Config, Group, Account, Place, Symbol

\* What a list of settings names.
LEMMA ListNames ==
    ASSUME NEW s \in SettingsType
    PROVE  /\ Listed(s) \subseteq Config
           /\ GroupsOf(s) \subseteq Group
           /\ SyncedAccounts(s) \subseteq Account
           /\ \A a \in SyncedAccounts(s) : PlacesOf(s, a) \subseteq Place
           /\ \A c \in Listed(s) : GroupOf[c] # 0 => GroupOf[c] \in GroupsOf(s)
<1>1. Listed(s) \subseteq Config
  BY DEF Listed
<1>2. GroupsOf(s) \subseteq Group
  BY <1>1 DEF GroupsOf, Group
<1>3. SyncedAccounts(s) \subseteq Account
  BY DEF SyncedAccounts, AccountActive, SettingsType
<1>4. ASSUME NEW a \in SyncedAccounts(s) PROVE PlacesOf(s, a) \subseteq Place
  BY <1>1, <1>3, Names DEF PlacesOf, Place
<1>5. \A c \in Listed(s) : GroupOf[c] # 0 => GroupOf[c] \in GroupsOf(s)
  BY DEF GroupsOf
<1> QED BY <1>1, <1>2, <1>3, <1>4, <1>5

\* The idle states.
LEMMA IdleStates ==
    /\ NoSettings \in SettingsType
    /\ ExpoIdle \in ExpoType /\ ExpoIdle.pc = "idle" /\ ExpoIdle.at = 0
    /\ IsPos(PosIdle) /\ PosIdle.pc = "idle" /\ PosIdle.at = 0
    /\ RefIdle \in RefType /\ RefIdle.pc = "idle"
<1>1. NoSettings \in SettingsType
  BY DEF NoSettings, SettingsType
<1>2. ExpoIdle \in ExpoType /\ ExpoIdle.pc = "idle" /\ ExpoIdle.at = 0
  <2>1. NoNets \in [Symbol -> NetType]
    BY DEF NoNets, NetType
  <2>2. NoOutcome \in [Config -> Outcomes]
    BY DEF NoOutcome, Outcomes
  <2> QED BY <1>1, <2>1, <2>2 DEF ExpoIdle, ExpoType, ExposureSteps
<1>3. IsPos(PosIdle) /\ PosIdle.pc = "idle" /\ PosIdle.at = 0
  BY <1>1 DEF IsPos, PosIdle, PositionSteps
<1>4. RefIdle \in RefType /\ RefIdle.pc = "idle"
  BY <1>1 DEF RefIdle, RefType, RefreshSteps
<1> QED BY <1>1, <1>2, <1>3, <1>4

\* The rows there are before anything was synced.
LEMMA EmptyRows ==
    /\ NoCache \in CacheType /\ NoExposure \in ExposureType /\ NoPosition \in PositionType
    /\ RowTyped(NoRow) /\ SoundRow(NoRow) /\ NoRow.known = FALSE
    /\ NoRow.at = 0 /\ NoRow.seen = 0 /\ NoRow.held = 0
BY DEF NoCache, CacheType, NoExposure, ExposureType, NoPosition, PositionType, NoRow, RowTyped,
   SoundRow

\* The invariant holds at the start.
LEMMA InitIInv == Init => IInv
<1> SUFFICES ASSUME Init PROVE IInv
  OBVIOUS
<1>1. WorldPart
  <2>1. now = 1 /\ changes = 0 /\ batches = 0 /\ faults = 0 /\ failed = {}
    BY DEF Init
  <2>2. net \in [Symbol -> NetType] /\ \A s \in Symbol : net[s].version = 0
    BY SyncAssumption DEF Init, NetType
  <2>3. book \in [Place -> BookType] /\ \A p \in Place : book[p].version = 0
    BY DEF Init, BookType
  <2>4. price \in [Symbol -> Nat]
    BY DEF Init
  <2>5. settings \in SettingsType
    BY DEF Init, SettingsType
  <2> QED BY <2>1, <2>2, <2>3, <2>4, <2>5 DEF WorldPart
<1>2. ExposurePart
  <2>1. /\ cache \in [Group -> CacheType] /\ exposure \in [Group -> ExposureType]
        /\ queue \in SUBSET Config /\ ran \in [Config -> Nat]
    BY EmptyRows DEF Init
  <2>2. \A g \in Group : GroupOK(g, now, cache, exposure, net)
    BY <1>1, Names DEF Init, GroupOK, NoCache, NoExposure
  <2>3. \A x \in ExposureCaller : expo[x] = ExpoIdle
    BY DEF Init
  <2>4. \A x \in ExposureCaller : ExposureBatchOK(expo[x], now, cache, exposure, net)
    BY <2>3, IdleStates DEF Init, ExposureBatchOK
  <2> QED BY <2>1, <2>2, <2>3, <2>4, IdleStates DEF Init, ExposurePart
<1>3. PositionPart
  <2>1. position \in [Place -> PositionType] /\ \A p \in Place : position[p] = NoPosition
    BY EmptyRows DEF Init
  <2>2. \A p \in Place : PlaceOK(p, now, position, book)
    <3>1. now = 1 /\ MaxSkew \in Nat /\ \A p \in Place : book[p].version = 0
      BY SyncAssumption DEF Init
    <3> QED BY <2>1, <3>1 DEF PlaceOK, NoPosition
  <2>3. \A x \in PositionCaller : pos[x] = PosIdle
    BY DEF Init
  <2>4. \A x \in PositionCaller : PositionBatchOK(pos[x], now, position, book)
    BY <2>3, IdleStates DEF Init, PositionBatchOK
  <2> QED BY <2>1, <2>2, <2>3, <2>4, IdleStates DEF Init, PositionPart
<1>4. MonitorPart
  <2>1. \A c \in Config : monitor[c] = NoRow
    BY DEF Init
  <2>2. \A c \in Config : NotAhead(NoRow, c, now, exposure, position)
    BY EmptyRows, Names DEF Init, NotAhead, ExposureFor, PositionFor, NoExposure, NoPosition
  <2>3. \A x \in Caller : ref[x] = RefIdle
    BY DEF Init
  <2>4. \A x \in Caller : RefreshOK(ref[x], now, exposure, position, monitor)
    BY <2>3, IdleStates DEF RefreshOK
  <2> QED BY <2>1, <2>2, <2>3, <2>4, IdleStates, EmptyRows DEF Init, MonitorPart
<1> QED BY <1>1, <1>2, <1>3, <1>4 DEF IInv
------------------------------------------------------------------------------
(* Which part of the state a step is about *)

\* The clock, the exposures and the books only go forward.
WorldGrows ==
    /\ now' >= now
    /\ \A s \in Symbol : net'[s].version >= net[s].version
    /\ \A p \in Place : book'[p].version >= book[p].version

\* A step of the services leaves the world as it is.
LEMMA ServiceSteps ==
    ASSUME Next
    PROVE  World \/ UNCHANGED <<now, worldVars>>
<1>1. ASSUME NEW x \in ExposureCaller, ExposureBegin(x) \/ ExposureStep(x)
      PROVE  UNCHANGED <<now, worldVars>>
  BY <1>1 DEF ExposureBegin, ExposureStep, Aggregate, SaveNetExposure, ExpireFails, FetchMarkPrice,
     StalePrice, UpsertExposureSnapshot, GroupFails, Enqueue, EnqueueFails
<1>2. ASSUME NEW x \in PositionCaller, PositionBegin(x) \/ PositionStep(x)
      PROVE  UNCHANGED <<now, worldVars>>
  BY <1>2 DEF PositionBegin, PositionStep, FetchPositions, StampPositions, UpsertPosition,
     AccountFails
<1>3. ASSUME NEW x \in Caller, RefreshBegin(x) \/ RefreshStep(x) \/ Cancel(x)
      PROVE  UNCHANGED <<now, worldVars>>
  BY <1>3 DEF RefreshBegin, RefreshStep, RefreshRead, RefreshUpsert, RefreshUpsertFails,
     RefreshPrune, Cancel
<1> QED BY <1>1, <1>2, <1>3 DEF Next

\* A step of the world leaves the services as they are, except for the queue and
\* the runs.
LEMMA WorldSteps ==
    ASSUME World
    PROVE  UNCHANGED <<cache, exposure, position, monitor, expo, pos, ref>>
<1>1. CASE Tick
  BY <1>1 DEF Tick, storeVars, localVars
<1>2. ASSUME NEW s \in Symbol, FeedPrice(s) \/ ChangeNet(s)
      PROVE  UNCHANGED <<cache, exposure, position, monitor, expo, pos, ref>>
  BY <1>2 DEF FeedPrice, ChangeNet, storeVars, localVars
<1>3. ASSUME NEW p \in Place, ChangeBook(p)
      PROVE  UNCHANGED <<cache, exposure, position, monitor, expo, pos, ref>>
  BY <1>3 DEF ChangeBook, storeVars, localVars
<1>4. CASE EditSettings
  BY <1>4 DEF EditSettings, storeVars, localVars
<1>5. ASSUME NEW c \in Config, FinishExecution(c) \/ RunTask(c) \/ ScheduleRun(c)
      PROVE  UNCHANGED <<cache, exposure, position, monitor, expo, pos, ref>>
  BY <1>5 DEF FinishExecution, RunTask, ScheduleRun, storeVars, localVars
<1> QED BY <1>1, <1>2, <1>3, <1>4, <1>5 DEF World

\* An edit leaves settings of their type.
LEMMA EditType ==
    ASSUME settings \in SettingsType, EditSettings
    PROVE  settings' \in SettingsType
<1>1. ASSUME NEW c \in Listed(settings),
             NEW m \in Environment \cap {"closing", "disabled", "deleted"},
             settings' = [settings EXCEPT !.mode[c] = IF @ = m THEN "active" ELSE m]
      PROVE  settings' \in SettingsType
  <2>1. c \in Config
    BY DEF Listed
  <2> QED BY <1>1, <2>1 DEF SettingsType
<1>2. ASSUME settings' = [settings EXCEPT !.global = ~@]
      PROVE  settings' \in SettingsType
  BY <1>2 DEF SettingsType
<1>3. ASSUME NEW a \in Account,
             settings' = [settings EXCEPT !.active = IF a \in @ THEN @ \ {a} ELSE @ \cup {a}]
      PROVE  settings' \in SettingsType
  BY <1>3 DEF SettingsType
<1> QED BY <1>1, <1>2, <1>3 DEF EditSettings

\* Batches and faults stay counts.
LEMMA Counts ==
    ASSUME WorldPart, Next
    PROVE  batches' \in Nat /\ faults' \in Nat
<1>1. batches \in Nat /\ faults \in Nat
  BY DEF WorldPart
<1>2. Count => batches' \in Nat
  BY <1>1 DEF Count
<1>3. Fault => faults' \in Nat
  BY <1>1 DEF Fault
<1>4. CASE World
  BY <1>1, <1>4 DEF World, Tick, FeedPrice, ChangeNet, ChangeBook, EditSettings, FinishExecution,
     RunTask, ScheduleRun
<1>5. ASSUME NEW x \in ExposureCaller, ExposureBegin(x) \/ ExposureStep(x)
      PROVE  batches' \in Nat /\ faults' \in Nat
  BY <1>1, <1>2, <1>3, <1>5 DEF ExposureBegin, ExposureStep, Aggregate, SaveNetExposure,
     ExpireFails, FetchMarkPrice, StalePrice, UpsertExposureSnapshot, GroupFails, Enqueue,
     EnqueueFails
<1>6. ASSUME NEW x \in PositionCaller, PositionBegin(x) \/ PositionStep(x)
      PROVE  batches' \in Nat /\ faults' \in Nat
  BY <1>1, <1>2, <1>3, <1>6 DEF PositionBegin, PositionStep, FetchPositions, StampPositions,
     UpsertPosition, AccountFails
<1>7. ASSUME NEW x \in Caller, RefreshBegin(x) \/ RefreshStep(x) \/ Cancel(x)
      PROVE  batches' \in Nat /\ faults' \in Nat
  BY <1>1, <1>2, <1>3, <1>7 DEF RefreshBegin, RefreshStep, RefreshRead, RefreshUpsert,
     RefreshUpsertFails, RefreshPrune, Cancel
<1> QED BY <1>4, <1>5, <1>6, <1>7 DEF Next

\* Every step keeps the world's part, and the world only grows.
LEMMA NextWorld ==
    ASSUME WorldPart, Next
    PROVE  WorldPart' /\ WorldGrows
<1>1. batches' \in Nat /\ faults' \in Nat
  BY Counts
<1>2. CASE UNCHANGED <<now, worldVars>>
  BY <1>1, <1>2 DEF worldVars, WorldPart, WorldGrows, NetType, BookType
<1>3. CASE Tick
  BY <1>1, <1>3 DEF Tick, worldVars, WorldPart, WorldGrows, NetType, BookType
<1>4. ASSUME NEW s \in Symbol, FeedPrice(s) PROVE WorldPart' /\ WorldGrows
  <2>1. UNCHANGED <<now, net, book, settings, failed, changes>> /\ price' \in [Symbol -> Nat]
    BY <1>4 DEF FeedPrice, WorldPart
  <2> QED BY <1>1, <2>1 DEF WorldPart, WorldGrows, NetType, BookType
<1>5. ASSUME NEW s \in Symbol, ChangeNet(s) PROVE WorldPart' /\ WorldGrows
  <2>1. UNCHANGED <<now, price, book, settings, failed>> /\ changes' = changes + 1
    BY <1>5 DEF ChangeNet, Change
  <2>2. PICK q \in Nets : net' = [net EXCEPT ![s] = [qty |-> q, version |-> changes']]
    BY <1>5 DEF ChangeNet
  <2>3. [qty |-> q, version |-> changes'] \in NetType
    BY <2>1, SyncAssumption DEF NetType, WorldPart
  <2>4. net' \in [Symbol -> NetType]
    BY <2>2, <2>3 DEF WorldPart
  <2>5. \A t \in Symbol : net'[t].version >= net[t].version /\ net'[t].version <= changes'
    BY <2>1, <2>2 DEF WorldPart, NetType
  <2> QED BY <1>1, <2>1, <2>4, <2>5 DEF WorldPart, WorldGrows, BookType
<1>6. ASSUME NEW p \in Place, ChangeBook(p) PROVE WorldPart' /\ WorldGrows
  <2>1. UNCHANGED <<now, price, net, settings, failed>> /\ changes' = changes + 1
    BY <1>6 DEF ChangeBook, Change
  <2>2. PICK b \in Books : book' = [book EXCEPT ![p] = [legs |-> b, version |-> changes']]
    BY <1>6 DEF ChangeBook
  <2>3. [legs |-> b, version |-> changes'] \in BookType
    BY <2>1 DEF BookType, WorldPart
  <2>4. book' \in [Place -> BookType]
    BY <2>2, <2>3 DEF WorldPart
  <2>5. \A t \in Place : book'[t].version >= book[t].version /\ book'[t].version <= changes'
    BY <2>1, <2>2 DEF WorldPart, BookType
  <2> QED BY <1>1, <2>1, <2>4, <2>5 DEF WorldPart, WorldGrows, NetType
<1>7. CASE EditSettings
  <2>1. UNCHANGED <<now, net, price, book, failed>> /\ changes' = changes + 1
    BY <1>7 DEF EditSettings, Change
  <2>2. settings' \in SettingsType
    BY <1>7, EditType DEF WorldPart
  <2> QED BY <1>1, <2>1, <2>2 DEF WorldPart, WorldGrows, NetType, BookType
<1>8. ASSUME NEW c \in Config, FinishExecution(c) PROVE WorldPart' /\ WorldGrows
  <2>1. UNCHANGED <<now, net, price, book, settings>> /\ changes' = changes + 1
    BY <1>8 DEF FinishExecution, Change
  <2>2. failed' \in SUBSET Config
    BY <1>8 DEF FinishExecution, WorldPart
  <2> QED BY <1>1, <2>1, <2>2 DEF WorldPart, WorldGrows, NetType, BookType
<1>9. ASSUME NEW c \in Config, RunTask(c) \/ ScheduleRun(c) PROVE WorldPart' /\ WorldGrows
  BY <1>2, <1>9 DEF RunTask, ScheduleRun
<1> QED BY <1>2, <1>3, <1>4, <1>5, <1>6, <1>7, <1>8, <1>9, ServiceSteps DEF World
------------------------------------------------------------------------------
(* The exposure sync *)

\* A batch is done with group g and all groups before it.
GroupDone(l, g, n, ex, ne) ==
    /\ l \in ExpoType /\ l.at <= n
    /\ NetsBetween(l, ex, ne)
    /\ \A c \in Config :
          /\ l.out[c] = "none" <=> c \notin Listed(l.list) \/ (GroupOf[c] # 0 /\ GroupOf[c] > g)
          /\ l.out[c] \in Stored =>
                /\ GroupOf[c] # 0
                /\ ex[GroupOf[c]].version = l.nets[SymbolOf[GroupOf[c]]].version
          /\ l.out[c] \in Executable => CanExecute(l.list, c)

\* What NextGroup does to the local state.
LEMMA NextGroupFields ==
    ASSUME NEW l \in ExpoType, NEW g \in Nat
    PROVE  LET m == NextGroup(l, g)
           IN  /\ m \in ExpoType
               /\ m.list = l.list /\ m.nets = l.nets /\ m.at = l.at /\ m.out = l.out
               /\ \/ m.pc = "monitor" /\ \A h \in GroupsOf(l.list) : ~(h > g)
                  \/ /\ m.pc = "cache" /\ m.group \in GroupsOf(l.list) /\ m.group > g
                     /\ \A h \in GroupsOf(l.list) : h > g => h >= m.group
<1> DEFINE rest == {h \in GroupsOf(l.list) : h > g}
<1>1. l.list \in SettingsType
  BY DEF ExpoType
<1>2. GroupsOf(l.list) \subseteq Nat
  BY <1>1, ListNames, Names
<1>3. CASE rest = {}
  <2> DEFINE h == 0
  <2>1. NextGroup(l, g) = [l EXCEPT !.pc = "monitor", !.group = h, !.todo = {}] /\ h \in Nat
    BY <1>3 DEF NextGroup
  <2> HIDE DEF h
  <2>2. NextGroup(l, g) \in ExpoType
    BY <2>1 DEF ExpoType, ExposureSteps
  <2> QED BY <1>3, <2>1, <2>2 DEF ExpoType
<1>4. CASE rest # {}
  <2> DEFINE h == Least(rest)
  <2>1. h \in rest /\ \A k \in rest : h <= k
    BY <1>2, <1>4, LeastIn
  <2>2. NextGroup(l, g) = [l EXCEPT !.pc = "cache", !.group = h, !.todo = {}]
    BY <1>4 DEF NextGroup
  <2>3. h \in Nat /\ h \in GroupsOf(l.list) /\ h > g
    BY <1>2, <2>1
  <2>4. \A k \in GroupsOf(l.list) : k > g => k >= h
    BY <1>2, <2>1, <2>3
  <2> HIDE DEF h, rest
  <2>5. NextGroup(l, g) \in ExpoType
    BY <2>2, <2>3 DEF ExpoType, ExposureSteps
  <2> QED BY <2>2, <2>3, <2>4, <2>5 DEF ExpoType
<1> QED BY <1>3, <1>4

\* When a group is done the batch goes on as the invariant says.
LEMMA NextGroupOK ==
    ASSUME NEW l, NEW g \in Nat, NEW n, NEW ca, NEW ex, NEW ne, GroupDone(l, g, n, ex, ne)
    PROVE  ExposureBatchOK(NextGroup(l, g), n, ca, ex, ne)
<1> DEFINE m == NextGroup(l, g)
<1>1. /\ m \in ExpoType
      /\ m.list = l.list /\ m.nets = l.nets /\ m.at = l.at /\ m.out = l.out
      /\ \/ m.pc = "monitor" /\ \A h \in GroupsOf(l.list) : ~(h > g)
         \/ /\ m.pc = "cache" /\ m.group \in GroupsOf(l.list) /\ m.group > g
            /\ \A h \in GroupsOf(l.list) : h > g => h >= m.group
  BY NextGroupFields DEF GroupDone
<1> HIDE DEF m
<1>2. l.list \in SettingsType
  BY DEF GroupDone, ExpoType
<1>3. \A c \in Listed(l.list) : GroupOf[c] # 0 => GroupOf[c] \in GroupsOf(l.list) /\ GroupOf[c] \in Nat
  BY <1>2, ListNames, Names
<1>4. ASSUME NEW c \in Config
      PROVE  c \in Waiting(m) <=> c \in Listed(l.list) /\ GroupOf[c] # 0 /\ GroupOf[c] > g
  <2>1. CASE m.pc = "monitor"
    BY <1>1, <1>3, <2>1 DEF Waiting
  <2>2. CASE m.pc = "cache"
    <3>1. m.group \in Nat
      BY <1>1 DEF ExpoType
    <3> QED BY <1>1, <1>3, <2>2, <3>1 DEF Waiting
  <2> QED BY <1>1, <2>1, <2>2
<1>5. Accounted(m, ex)
  BY <1>1, <1>4 DEF Accounted, GroupDone
<1>6. NetsBetween(m, ex, ne)
  BY <1>1 DEF NetsBetween, GroupDone
<1>7. ExposureBatchOK(m, n, ca, ex, ne)
  BY <1>1, <1>5, <1>6 DEF ExposureBatchOK, GroupDone
<1> QED BY <1>7 DEF m

\* The group that is visited is a group, and its symbol a symbol.
LEMMA VisitedGroup ==
    ASSUME NEW l, NEW n, NEW ca, NEW ex, NEW ne, ExposureBatchOK(l, n, ca, ex, ne),
           l.pc \in {"cache", "price", "snapshot", "enqueue"}
    PROVE  l.group \in Group /\ l.group \in Nat /\ l.group # 0 /\ SymbolOf[l.group] \in Symbol
BY ListNames, Names DEF ExposureBatchOK, ExpoType

\* A group that failed is skipped, all its configurations with it.
LEMMA SkipGroupOK ==
    ASSUME NEW l, NEW n, NEW ca, NEW ex, NEW ne, NEW cb, ExposureBatchOK(l, n, ca, ex, ne),
           l.pc \in {"cache", "price", "snapshot"}, NEW stage \in {"cache", "price", "snapshot"}
    PROVE  ExposureBatchOK(SkipGroup(l, stage), n, cb, ex, ne)
<1> DEFINE out == [c \in Config |-> IF c \in Members(l.list, l.group) THEN stage ELSE l.out[c]]
           m == [l EXCEPT !.out = out]
<1>1. l \in ExpoType /\ l.group \in Nat
  BY DEF ExposureBatchOK, ExpoType
<1>2. out \in [Config -> Outcomes]
  BY <1>1 DEF ExpoType, Outcomes
<1> HIDE DEF out
<1>3. m \in ExpoType
  BY <1>1, <1>2 DEF ExpoType
<1>4. /\ m.out = out /\ m.list = l.list /\ m.nets = l.nets /\ m.at = l.at
  BY <1>1 DEF ExpoType
<1> HIDE DEF m
<1>5. Accounted(l, ex) /\ NetsBetween(l, ex, ne) /\ l.at <= n
  BY DEF ExposureBatchOK
<1>6. ASSUME NEW c \in Config
      PROVE  /\ m.out[c] = "none" <=>
                   c \notin Listed(m.list) \/ (GroupOf[c] # 0 /\ GroupOf[c] > l.group)
             /\ m.out[c] \in Stored =>
                   /\ GroupOf[c] # 0
                   /\ ex[GroupOf[c]].version = m.nets[SymbolOf[GroupOf[c]]].version
             /\ m.out[c] \in Executable => CanExecute(m.list, c)
  <2>1. /\ l.out[c] = "none" <=> c \notin Listed(l.list) \/ c \in Waiting(l)
        /\ l.out[c] \in Stored =>
              /\ GroupOf[c] # 0
              /\ ex[GroupOf[c]].version = l.nets[SymbolOf[GroupOf[c]]].version
        /\ l.out[c] \in Executable => CanExecute(l.list, c)
    BY <1>5 DEF Accounted
  <2>2. c \in Waiting(l) <=> c \in Listed(l.list) /\ GroupOf[c] # 0 /\ GroupOf[c] >= l.group
    BY DEF Waiting
  <2>3. CASE c \in Members(l.list, l.group)
    <3>1. m.out[c] = stage /\ c \in Listed(l.list) /\ GroupOf[c] = l.group
      BY <1>4, <2>3 DEF out, Members
    <3> QED BY <1>1, <1>4, <3>1 DEF Stored, Executable
  <2>4. CASE c \notin Members(l.list, l.group)
    <3>1. m.out[c] = l.out[c] /\ (c \in Listed(l.list) => GroupOf[c] # l.group)
      BY <1>4, <2>4 DEF out, Members
    <3>2. GroupOf[c] # 0 => GroupOf[c] \in Nat
      BY Names
    <3> QED BY <1>1, <1>4, <2>1, <2>2, <3>1, <3>2
  <2> QED BY <2>3, <2>4
<1>7. NetsBetween(m, ex, ne)
  BY <1>4, <1>5 DEF NetsBetween
<1>8. GroupDone(m, l.group, n, ex, ne)
  BY <1>3, <1>4, <1>5, <1>6, <1>7 DEF GroupDone
<1>9. SkipGroup(l, stage) = NextGroup(m, l.group)
  BY DEF SkipGroup, m, out
<1> QED BY <1>1, <1>8, <1>9, NextGroupOK

\* A configuration whose snapshot is stored has its outcome.
LEMMA AfterConfigOK ==
    ASSUME NEW l, NEW n, NEW ca, NEW ex, NEW ne, ExposureBatchOK(l, n, ca, ex, ne),
           l.pc = "enqueue", NEW c, c = Least(l.todo), NEW o \in Stored,
           o \in Executable => CanExecute(l.list, c)
    PROVE  c \in Config /\ ExposureBatchOK(AfterConfig(l, c, o), n, ca, ex, ne)
<1> DEFINE out == [l.out EXCEPT ![c] = o]
           todo == l.todo \ {c}
           m == [l EXCEPT !.out[c] = o, !.todo = @ \ {c}]
<1>1. /\ l \in ExpoType /\ l.group \in Nat /\ l.at <= n
      /\ l.group \in GroupsOf(l.list) /\ NetsBetween(l, ex, ne)
      /\ l.todo # {} /\ l.todo \subseteq Members(l.list, l.group)
      /\ ex[l.group].version = l.nets[SymbolOf[l.group]].version
      /\ Accounted(l, ex)
  BY DEF ExposureBatchOK, ExpoType
<1>2. c \in l.todo /\ c \in Config
  <2>1. l.todo \in SUBSET Config /\ l.todo \in SUBSET Nat
    BY <1>1, Names DEF ExpoType
  <2> QED BY <1>1, <2>1, LeastIn
<1>3. c \in Listed(l.list) /\ GroupOf[c] = l.group /\ l.group # 0
  <2>1. l.group \in Group
    BY VisitedGroup
  <2> QED BY <1>1, <1>2, <2>1, Names DEF Members
<1>4. out \in [Config -> Outcomes] /\ todo \in SUBSET Config
  <2>1. o \in Outcomes
    BY DEF Stored, Outcomes
  <2> QED BY <1>1, <2>1 DEF ExpoType
<1>5. m = [l EXCEPT !.out = out, !.todo = todo]
  BY <1>1 DEF ExpoType
<1>6. /\ \A d \in Config : out[d] = IF d = c THEN o ELSE l.out[d]
      /\ todo = l.todo \ {c}
  BY <1>1 DEF ExpoType
<1> HIDE DEF out, todo, m
<1>7. m \in ExpoType
  BY <1>1, <1>4, <1>5 DEF ExpoType
<1>8. /\ m.out = out /\ m.todo = todo /\ m.list = l.list /\ m.nets = l.nets /\ m.at = l.at
      /\ m.group = l.group /\ m.pc = l.pc
  BY <1>1, <1>5 DEF ExpoType
<1>9. ASSUME NEW d \in Config
      PROVE  /\ m.out[d] = "none" <=>
                   \/ d \notin Listed(m.list)
                   \/ GroupOf[d] # 0 /\ (GroupOf[d] > l.group \/ d \in todo)
             /\ m.out[d] \in Stored =>
                   /\ GroupOf[d] # 0
                   /\ ex[GroupOf[d]].version = m.nets[SymbolOf[GroupOf[d]]].version
             /\ m.out[d] \in Executable => CanExecute(m.list, d)
  <2>1. /\ l.out[d] = "none" <=> d \notin Listed(l.list) \/ d \in Waiting(l)
        /\ l.out[d] \in Stored =>
              /\ GroupOf[d] # 0
              /\ ex[GroupOf[d]].version = l.nets[SymbolOf[GroupOf[d]]].version
        /\ l.out[d] \in Executable => CanExecute(l.list, d)
    BY <1>1 DEF Accounted
  <2>2. d \in Waiting(l) <=> /\ d \in Listed(l.list) /\ GroupOf[d] # 0
                             /\ GroupOf[d] > l.group \/ d \in l.todo
    BY DEF Waiting
  <2>3. CASE d = c
    <3>1. m.out[d] = o /\ o # "none"
      BY <1>6, <1>8, <2>3 DEF Stored
    <3>2. ~(GroupOf[d] > l.group) /\ d \notin todo
      BY <1>1, <1>3, <1>6, <2>3
    <3> QED BY <1>1, <1>3, <1>8, <2>3, <3>1, <3>2
  <2>4. CASE d # c
    <3>1. m.out[d] = l.out[d] /\ (d \in todo <=> d \in l.todo)
      BY <1>6, <1>8, <2>4
    <3> QED BY <1>8, <2>1, <2>2, <3>1
  <2> QED BY <2>3, <2>4
<1>10. NetsBetween(m, ex, ne)
  BY <1>1, <1>8 DEF NetsBetween
<1>11. CASE todo = {}
  <2>1. GroupDone(m, l.group, n, ex, ne)
    BY <1>1, <1>7, <1>8, <1>9, <1>10, <1>11 DEF GroupDone
  <2>2. AfterConfig(l, c, o) = NextGroup(m, l.group)
    BY <1>8, <1>11 DEF AfterConfig, m
  <2> QED BY <1>1, <1>2, <2>1, <2>2, NextGroupOK
<1>12. CASE todo # {}
  <2>1. \A d \in Config : d \in Waiting(m) <=>
              /\ d \in Listed(m.list) /\ GroupOf[d] # 0
              /\ GroupOf[d] > l.group \/ d \in todo
    BY <1>8 DEF Waiting
  <2>2. Accounted(m, ex)
    BY <1>9, <2>1 DEF Accounted
  <2>3. ExposureBatchOK(m, n, ca, ex, ne)
    BY <1>1, <1>6, <1>7, <1>8, <1>10, <1>12, <2>2 DEF ExposureBatchOK
  <2>4. AfterConfig(l, c, o) = m
    BY <1>8, <1>12 DEF AfterConfig, m
  <2> QED BY <1>2, <2>3, <2>4
<1> QED BY <1>11, <1>12

\* What is true of a batch stays true while the world moves on.
LEMMA BatchLasts ==
    ASSUME NEW l, NEW n \in Nat, NEW ca, NEW ex \in [Group -> ExposureType],
           NEW ne \in [Symbol -> NetType],
           ExposureBatchOK(l, n, ca, ex, ne), NEW n2 \in Nat, n2 >= n,
           NEW ne2 \in [Symbol -> NetType],
           \A s \in Symbol : ne2[s].version >= ne[s].version
    PROVE  ExposureBatchOK(l, n2, ca, ex, ne2)
<1>1. l \in ExpoType /\ l.at \in Nat /\ l.at <= n2
  BY DEF ExposureBatchOK, ExpoType
<1>2. NetsBetween(l, ex, ne) => NetsBetween(l, ex, ne2)
  <2> SUFFICES ASSUME NetsBetween(l, ex, ne), NEW g \in Group
               PROVE  l.nets[SymbolOf[g]].version <= ne2[SymbolOf[g]].version
    BY DEF NetsBetween
  <2>1. SymbolOf[g] \in Symbol
    BY Names
  <2>2. /\ l.nets[SymbolOf[g]].version \in Nat
        /\ ne[SymbolOf[g]].version \in Nat /\ ne2[SymbolOf[g]].version \in Nat
    BY <1>1, <2>1 DEF ExpoType, NetType
  <2> QED BY <2>1, <2>2 DEF NetsBetween
<1> QED BY <1>1, <1>2 DEF ExposureBatchOK

\* An idle caller has nothing that could be wrong.
LEMMA IdleBatch ==
    ASSUME NEW l \in ExpoType, NEW n, l.at <= n, l.pc = "idle", NEW ca, NEW ex, NEW ne
    PROVE  ExposureBatchOK(l, n, ca, ex, ne)
BY DEF ExposureBatchOK

\* A step of caller x, who holds the mutex or takes it.
LEMMA ExposureMoves ==
    ASSUME WorldPart, ExposurePart, UNCHANGED <<now, worldVars>>,
           NEW x \in ExposureCaller, NEW l, ExposureGoto(x, l),
           expo[x].pc # "idle" \/ ExposureMutexFree,
           cache' \in [Group -> CacheType], exposure' \in [Group -> ExposureType],
           queue' \in SUBSET Config, ran' = ran,
           \A g \in Group : GroupOK(g, now, cache', exposure', net),
           ExposureBatchOK(l, now, cache', exposure', net)
    PROVE  ExposurePart'
<1>1. now' = now /\ net' = net
  BY DEF worldVars
<1>2. /\ expo' = [y \in ExposureCaller |-> expo'[y]]
      /\ expo'[x] = l /\ \A y \in ExposureCaller : y # x => expo'[y] = expo[y]
  BY DEF ExposurePart, ExposureGoto
<1>3. \A y \in ExposureCaller : y # x => expo[y].pc = "idle"
  BY DEF ExposurePart, ExposureMutexFree
<1>4. ASSUME NEW y \in ExposureCaller
      PROVE  ExposureBatchOK(expo'[y], now', cache', exposure', net')
  <2>1. CASE y = x
    BY <1>1, <1>2, <2>1
  <2>2. CASE y # x
    <3>1. expo[y] \in ExpoType /\ expo[y].at <= now /\ expo[y].pc = "idle"
      BY <1>3, <2>2 DEF ExposurePart, ExposureBatchOK
    <3> QED BY <1>1, <1>2, <2>2, <3>1, IdleBatch
  <2> QED BY <2>1, <2>2
<1>5. \A y, z \in ExposureCaller : expo'[y].pc # "idle" /\ expo'[z].pc # "idle" => y = z
  BY <1>2, <1>3
<1>6. ran' \in [Config -> Nat]
  BY DEF ExposurePart
<1> QED BY <1>1, <1>2, <1>4, <1>5, <1>6 DEF ExposurePart

\* The same for a step that only changes the caller's local state.
LEMMA ExposureLocal ==
    ASSUME WorldPart, ExposurePart, UNCHANGED <<now, worldVars, storeVars>>,
           NEW x \in ExposureCaller, NEW l, ExposureGoto(x, l),
           expo[x].pc # "idle" \/ ExposureMutexFree,
           ExposureBatchOK(l, now, cache, exposure, net)
    PROVE  ExposurePart'
<1>1. cache' = cache /\ exposure' = exposure /\ queue' = queue /\ ran' = ran
  BY DEF storeVars
<1>2. /\ cache \in [Group -> CacheType] /\ exposure \in [Group -> ExposureType]
      /\ queue \in SUBSET Config /\ \A g \in Group : GroupOK(g, now, cache, exposure, net)
  BY DEF ExposurePart
<1> QED BY <1>1, <1>2, ExposureMoves

\* SyncEnabledConfigs begins.
LEMMA ExposureBeginInv ==
    ASSUME WorldPart, ExposurePart, NEW x \in ExposureCaller, ExposureBegin(x)
    PROVE  ExposurePart'
<1> DEFINE pc == IF Listed(settings) = {} THEN "monitor" ELSE "aggregate"
           out == [c \in Config |-> IF c \in Invalid(settings) THEN "invalid" ELSE "none"]
           l == [ExpoIdle EXCEPT !.pc = pc, !.list = settings, !.out = out]
<1>1. ExposureGoto(x, l) /\ ExposureMutexFree /\ UNCHANGED <<now, worldVars, storeVars>>
  BY DEF ExposureBegin
<1>2. pc \in ExposureSteps /\ out \in [Config -> Outcomes] /\ settings \in SettingsType
  BY DEF ExposureSteps, Outcomes, WorldPart
<1>3. \A c \in Config : out[c] = IF c \in Invalid(settings) THEN "invalid" ELSE "none"
  OBVIOUS
<1>4. pc \in {"monitor", "aggregate"} /\ (pc = "monitor" => Listed(settings) = {})
  OBVIOUS
<1> HIDE DEF pc, out
<1>5. l \in ExpoType /\ l.pc = pc /\ l.list = settings /\ l.out = out /\ l.at = 0
  BY <1>2, IdleStates DEF ExpoType
<1> HIDE DEF l
<1>6. Accounted(l, exposure)
  <2> SUFFICES ASSUME NEW c \in Config
               PROVE  /\ l.out[c] = "none" <=> c \notin Listed(settings) \/ c \in Waiting(l)
                      /\ l.out[c] \notin Stored /\ l.out[c] \notin Executable
    BY <1>5 DEF Accounted
  <2>1. l.out[c] \in {"none", "invalid"} /\ (l.out[c] = "none" <=> c \notin Invalid(settings))
    BY <1>3, <1>5
  <2>2. c \in Waiting(l) <=> pc = "aggregate" /\ c \in Listed(settings) /\ GroupOf[c] # 0
    BY <1>4, <1>5 DEF Waiting
  <2> QED BY <1>4, <2>1, <2>2 DEF Invalid, Stored, Executable
<1>7. ExposureBatchOK(l, now, cache, exposure, net)
  BY <1>4, <1>5, <1>6 DEF ExposureBatchOK, WorldPart
<1> QED BY <1>1, <1>7, ExposureLocal

\* The query of all quantities.
LEMMA AggregateInv ==
    ASSUME WorldPart, ExposurePart, NEW x \in ExposureCaller, Aggregate(x)
    PROVE  ExposurePart'
<1> DEFINE l == expo[x]
           m == [l EXCEPT !.nets = net]
<1>1. /\ l.pc = "aggregate" /\ ExposureGoto(x, NextGroup(m, 0))
      /\ UNCHANGED <<now, worldVars, storeVars>>
  BY DEF Aggregate
<1>2. l \in ExpoType /\ l.at <= now /\ Accounted(l, exposure)
  BY <1>1 DEF ExposurePart, ExposureBatchOK
<1> HIDE DEF l
<1>3. /\ m \in ExpoType /\ m.nets = net /\ m.list = l.list /\ m.at = l.at /\ m.out = l.out
  BY <1>2 DEF ExpoType, WorldPart
<1> HIDE DEF m
<1>4. NetsBetween(m, exposure, net)
  <2>1. \A g \in Group : net[SymbolOf[g]].version \in Nat
    BY Names DEF WorldPart, NetType
  <2> QED BY <1>3, <2>1 DEF NetsBetween, ExposurePart, GroupOK
<1>5. ASSUME NEW c \in Config
      PROVE  /\ m.out[c] = "none" <=>
                   c \notin Listed(m.list) \/ (GroupOf[c] # 0 /\ GroupOf[c] > 0)
             /\ m.out[c] \notin Stored /\ m.out[c] \notin Executable
  <2>1. /\ l.out[c] = "none" <=> c \notin Listed(l.list) \/ c \in Waiting(l)
        /\ l.out[c] \in Stored => GroupOf[c] # 0
    BY <1>2 DEF Accounted
  <2>2. c \in Waiting(l) <=> c \in Listed(l.list) /\ GroupOf[c] # 0
    BY <1>1 DEF Waiting, l
  <2>3. GroupOf[c] # 0 => GroupOf[c] > 0
    <3>1. GroupOf[c] # 0 => GroupOf[c] \in Nat
      BY Names
    <3> QED BY <3>1
  <2>4. l.out[c] \notin Stored
    BY <2>1, <2>2 DEF Stored
  <2> QED BY <1>3, <2>1, <2>2, <2>3, <2>4 DEF Stored, Executable
<1>6. GroupDone(m, 0, now, exposure, net)
  BY <1>2, <1>3, <1>4, <1>5 DEF GroupDone
<1>7. ExposureBatchOK(NextGroup(m, 0), now, cache, exposure, net)
  BY <1>6, NextGroupOK
<1> QED BY <1>1, <1>7, ExposureLocal DEF l

\* What HSET stores is a row, and not older than the group's snapshot.
LEMMA CacheWritten ==
    ASSUME WorldPart, ExposurePart, NEW x \in ExposureCaller, expo[x].pc = "cache",
           NEW until \in Nat, HSet(expo[x], until),
           \/ until = 0 \/ until = cache[expo[x].group].until
           \/ until >= now + ExposureTTL
    PROVE  /\ cache' \in [Group -> CacheType]
           /\ \A g \in Group : GroupOK(g, now, cache', exposure, net)
           /\ cache'[expo[x].group].known /\ cache'[expo[x].group].at = now
           /\ cache'[expo[x].group].until = until
           /\ exposure[expo[x].group].at <= now
<1> DEFINE g == expo[x].group
           row == [known |-> TRUE, qty |-> expo[x].nets[SymbolOf[g]].qty, at |-> now,
                   until |-> until]
<1>1. ExposureBatchOK(expo[x], now, cache, exposure, net)
  BY DEF ExposurePart
<1>2. g \in Group /\ SymbolOf[g] \in Symbol
  BY <1>1, VisitedGroup
<1>3. expo[x].nets[SymbolOf[g]].qty \in Int
  BY <1>1, <1>2 DEF ExposureBatchOK, ExpoType, NetType
<1>4. row \in CacheType /\ row.known = TRUE /\ row.at = now /\ row.until = until
  BY <1>3 DEF CacheType, WorldPart
<1>5. cache' = [cache EXCEPT ![g] = row]
  BY DEF HSet
<1> HIDE DEF row, g
<1>6. cache' \in [Group -> CacheType] /\ cache'[g] = row
      /\ \A h \in Group : h # g => cache'[h] = cache[h]
  BY <1>2, <1>4, <1>5 DEF ExposurePart
<1>7. \A h \in Group : GroupOK(h, now, cache, exposure, net)
  BY DEF ExposurePart
<1>8. until = 0 \/ until = cache[g].until \/ until >= now + ExposureTTL
  BY DEF g
<1>9. exposure[g].at <= now /\ exposure[g].at \in Nat /\ now \in Nat /\ ExposureTTL \in Nat
  BY <1>2, <1>7, SyncAssumption DEF GroupOK, ExposurePart, ExposureType, WorldPart
<1>10. GroupOK(g, now, cache', exposure, net)
  <2>1. GroupOK(g, now, cache, exposure, net)
    BY <1>2, <1>7
  <2>2. exposure[g].known => Covers(row, exposure[g].at)
    BY <1>4, <1>8, <1>9, <2>1 DEF GroupOK, Covers
  <2> QED BY <1>4, <1>6, <1>9, <2>1, <2>2 DEF GroupOK
<1>11. \A h \in Group : GroupOK(h, now, cache', exposure, net)
  BY <1>6, <1>7, <1>10 DEF GroupOK
<1> QED BY <1>4, <1>6, <1>9, <1>11 DEF g

\* SaveNetExposure succeeds.
LEMMA SaveNetExposureInv ==
    ASSUME WorldPart, ExposurePart, NEW x \in ExposureCaller, SaveNetExposure(x)
    PROVE  ExposurePart'
<1> DEFINE l == expo[x]
           m == [l EXCEPT !.pc = "price", !.at = now]
           until == now + ExposureTTL
<1>1. /\ l.pc = "cache" /\ ExposureGoto(x, m) /\ UNCHANGED <<now, worldVars>>
      /\ HSet(l, until)
      /\ exposure' = exposure /\ queue' = queue /\ ran' = ran
  BY DEF SaveNetExposure
<1>2. /\ cache' \in [Group -> CacheType]
      /\ \A g \in Group : GroupOK(g, now, cache', exposure, net)
      /\ Covers(cache'[l.group], now) /\ exposure[l.group].at <= now
  <2>1. until \in Nat /\ until >= now + ExposureTTL /\ now <= now
    BY SyncAssumption DEF WorldPart
  <2> HIDE DEF until
  <2> QED BY <1>1, <2>1, CacheWritten DEF Covers
<1> HIDE DEF until
<1>3. ExposureBatchOK(l, now, cache, exposure, net) /\ l \in ExpoType
  BY DEF ExposurePart, ExposureBatchOK
<1> HIDE DEF l
<1>4. now \in Nat /\ now > 0 /\ now <= now
  BY DEF WorldPart
<1>5. /\ m \in ExpoType /\ m.pc = "price" /\ m.at = now /\ m.list = l.list /\ m.nets = l.nets
      /\ m.group = l.group /\ m.todo = l.todo /\ m.out = l.out
  BY <1>3, <1>4 DEF ExpoType, ExposureSteps
<1> HIDE DEF m
<1>6. Waiting(m) = Waiting(l)
  BY <1>1, <1>5 DEF Waiting
<1>7. Accounted(m, exposure)
  BY <1>1, <1>3, <1>5, <1>6 DEF Accounted, ExposureBatchOK
<1>8. l.group \in GroupsOf(l.list) /\ NetsBetween(l, exposure, net)
  BY <1>1, <1>3 DEF ExposureBatchOK
<1>9. m.group \in GroupsOf(m.list) /\ NetsBetween(m, exposure, net)
  BY <1>5, <1>8 DEF NetsBetween
<1>10. CachedFirst(m, cache', exposure)
  BY <1>2, <1>4, <1>5 DEF CachedFirst
<1>11. ExposureBatchOK(m, now, cache', exposure, net)
  BY <1>4, <1>5, <1>7, <1>9, <1>10 DEF ExposureBatchOK
<1>12. exposure \in [Group -> ExposureType] /\ queue \in SUBSET Config
  BY DEF ExposurePart
<1> QED BY <1>1, <1>2, <1>11, <1>12, ExposureMoves DEF l

\* Only EXPIRE fails.
LEMMA ExpireFailsInv ==
    ASSUME WorldPart, ExposurePart, NEW x \in ExposureCaller, ExpireFails(x)
    PROVE  ExposurePart'
<1> DEFINE l == expo[x]
           until == IF Cached(l.group) THEN cache[l.group].until ELSE 0
<1>1. /\ l.pc = "cache" /\ ExposureGoto(x, SkipGroup(l, "cache")) /\ UNCHANGED <<now, worldVars>>
      /\ HSet(l, until)
      /\ exposure' = exposure /\ queue' = queue /\ ran' = ran
  BY DEF ExpireFails
<1>2. /\ cache' \in [Group -> CacheType]
      /\ \A g \in Group : GroupOK(g, now, cache', exposure, net)
  <2>1. l.group \in Group
    <3>1. ExposureBatchOK(l, now, cache, exposure, net)
      BY DEF ExposurePart
    <3> QED BY <1>1, <3>1, VisitedGroup
  <2>2. until \in Nat /\ (until = 0 \/ until = cache[l.group].until)
    BY <2>1 DEF ExposurePart, CacheType
  <2> HIDE DEF until
  <2> QED BY <1>1, <2>2, CacheWritten
<1>3. ExposureBatchOK(l, now, cache, exposure, net)
  BY DEF ExposurePart
<1>4. ExposureBatchOK(SkipGroup(l, "cache"), now, cache', exposure, net)
  BY <1>1, <1>3, SkipGroupOK
<1>5. exposure \in [Group -> ExposureType] /\ queue \in SUBSET Config
  BY DEF ExposurePart
<1> QED BY <1>1, <1>2, <1>4, <1>5, ExposureMoves

\* The price is usable.
LEMMA FetchMarkPriceInv ==
    ASSUME WorldPart, ExposurePart, NEW x \in ExposureCaller, FetchMarkPrice(x)
    PROVE  ExposurePart'
<1> DEFINE l == expo[x]
           m == [l EXCEPT !.pc = "snapshot"]
<1>1. l.pc = "price" /\ ExposureGoto(x, m) /\ UNCHANGED <<now, worldVars, storeVars>>
  BY DEF FetchMarkPrice
<1>2. ExposureBatchOK(l, now, cache, exposure, net) /\ l \in ExpoType
  BY DEF ExposurePart, ExposureBatchOK
<1> HIDE DEF l
<1>3. /\ m \in ExpoType /\ m.pc = "snapshot" /\ m.at = l.at /\ m.list = l.list
      /\ m.nets = l.nets /\ m.group = l.group /\ m.todo = l.todo /\ m.out = l.out
  BY <1>2 DEF ExpoType, ExposureSteps
<1> HIDE DEF m
<1>4. Waiting(m) = Waiting(l)
  BY <1>1, <1>3 DEF Waiting
<1>5. /\ Accounted(l, exposure) /\ l.group \in GroupsOf(l.list) /\ NetsBetween(l, exposure, net)
      /\ CachedFirst(l, cache, exposure) /\ l.at <= now
  BY <1>1, <1>2 DEF ExposureBatchOK
<1>6. Accounted(m, exposure) /\ NetsBetween(m, exposure, net) /\ CachedFirst(m, cache, exposure)
  BY <1>3, <1>4, <1>5 DEF Accounted, NetsBetween, CachedFirst
<1>7. ExposureBatchOK(m, now, cache, exposure, net)
  BY <1>3, <1>5, <1>6 DEF ExposureBatchOK
<1> QED BY <1>1, <1>7, ExposureLocal DEF l

\* A group is skipped, for whatever reason.
LEMMA GroupSkippedInv ==
    ASSUME WorldPart, ExposurePart, NEW x \in ExposureCaller, StalePrice(x) \/ GroupFails(x)
    PROVE  ExposurePart'
<1> DEFINE l == expo[x]
<1>1. /\ l.pc \in {"cache", "price", "snapshot"} /\ ExposureGoto(x, SkipGroup(l, l.pc))
      /\ UNCHANGED <<now, worldVars, storeVars>>
  BY DEF StalePrice, GroupFails
<1>2. ExposureBatchOK(l, now, cache, exposure, net)
  BY DEF ExposurePart
<1>3. ExposureBatchOK(SkipGroup(l, l.pc), now, cache, exposure, net)
  BY <1>1, <1>2, SkipGroupOK
<1> QED BY <1>1, <1>3, ExposureLocal

\* upsertExposureSnapshot.
LEMMA UpsertExposureSnapshotInv ==
    ASSUME WorldPart, ExposurePart, NEW x \in ExposureCaller, UpsertExposureSnapshot(x)
    PROVE  /\ ExposurePart'
           /\ \A g \in Group : /\ exposure'[g].version >= exposure[g].version
                               /\ exposure'[g].at >= exposure[g].at
<1> DEFINE l == expo[x]
           g == l.group
           todo == Members(l.list, g)
           row == ExposureRow(exposure[g], l)
           m == [l EXCEPT !.pc = "enqueue", !.todo = todo]
<1>1. /\ l.pc = "snapshot" /\ ExposureGoto(x, m) /\ UNCHANGED <<now, worldVars>>
      /\ exposure' = [exposure EXCEPT ![g] = row]
      /\ cache' = cache /\ queue' = queue /\ ran' = ran
  BY DEF UpsertExposureSnapshot
<1>2. ExposureBatchOK(l, now, cache, exposure, net) /\ l \in ExpoType
  BY DEF ExposurePart, ExposureBatchOK
<1>3. g \in Group /\ g \in Nat /\ g # 0 /\ SymbolOf[g] \in Symbol
  BY <1>1, <1>2, VisitedGroup
<1>4. /\ l.nets[SymbolOf[g]].qty \in Int /\ l.nets[SymbolOf[g]].version \in Nat /\ l.at \in Nat
      /\ l.list \in SettingsType
  BY <1>2, <1>3 DEF ExpoType, NetType
<1>5. /\ row \in ExposureType /\ row.known = TRUE /\ row.at = l.at
      /\ row.version = l.nets[SymbolOf[g]].version
  BY <1>4 DEF ExposureRow, ExposureType
<1>6. todo \in SUBSET Config /\ todo # {}
  <2>1. g \in GroupsOf(l.list)
    BY <1>1, <1>2 DEF ExposureBatchOK
  <2> QED BY <1>4, <2>1, ListNames DEF Members, GroupsOf
<1> HIDE DEF row, todo
<1>7. /\ m \in ExpoType /\ m.pc = "enqueue" /\ m.at = l.at /\ m.list = l.list
      /\ m.nets = l.nets /\ m.group = g /\ m.todo = todo /\ m.out = l.out
  <2> HIDE DEF l, g
  <2>1. g = l.group
    BY DEF g
  <2> QED BY <1>2, <1>6, <2>1 DEF ExpoType, ExposureSteps
<1> HIDE DEF m, l, g
<1>8. /\ Accounted(l, exposure) /\ g \in GroupsOf(l.list) /\ NetsBetween(l, exposure, net)
      /\ Covers(cache[g], l.at) /\ l.at > 0 /\ l.at >= exposure[g].at
      /\ l.at <= now
  BY <1>1, <1>2 DEF ExposureBatchOK, CachedFirst, g
<1>9. /\ exposure \in [Group -> ExposureType] /\ exposure' \in [Group -> ExposureType]
      /\ exposure'[g] = row /\ \A h \in Group : h # g => exposure'[h] = exposure[h]
  BY <1>1, <1>3, <1>5 DEF ExposurePart
<1>10. /\ exposure[g].version <= l.nets[SymbolOf[g]].version
       /\ l.nets[SymbolOf[g]].version <= net[SymbolOf[g]].version
  BY <1>3, <1>8 DEF NetsBetween
<1>11. \A h \in Group : GroupOK(h, now, cache', exposure', net)
  <2>1. \A h \in Group : GroupOK(h, now, cache, exposure, net)
    BY DEF ExposurePart
  <2>2. GroupOK(g, now, cache, exposure', net)
    BY <1>3, <1>5, <1>8, <1>9, <1>10, <2>1 DEF GroupOK
  <2> QED BY <1>1, <1>9, <2>1, <2>2 DEF GroupOK
<1>12. NetsBetween(m, exposure', net)
  <2> SUFFICES ASSUME NEW h \in Group
               PROVE  /\ exposure'[h].version <= l.nets[SymbolOf[h]].version
                      /\ l.nets[SymbolOf[h]].version <= net[SymbolOf[h]].version
    BY <1>7 DEF NetsBetween
  <2>1. /\ exposure[h].version <= l.nets[SymbolOf[h]].version
        /\ l.nets[SymbolOf[h]].version <= net[SymbolOf[h]].version
    BY <1>8 DEF NetsBetween
  <2> QED BY <1>4, <1>5, <1>9, <2>1
<1>13. \A c \in Config : c \in Waiting(m) <=> c \in Waiting(l)
  <2> SUFFICES ASSUME NEW c \in Config PROVE c \in Waiting(m) <=> c \in Waiting(l)
    OBVIOUS
  <2>1. c \in Waiting(l) <=> c \in Listed(l.list) /\ GroupOf[c] # 0 /\ GroupOf[c] >= g
    BY <1>1 DEF Waiting, g, l
  <2>2. c \in Waiting(m) <=> /\ c \in Listed(l.list) /\ GroupOf[c] # 0
                             /\ GroupOf[c] > g \/ c \in todo
    BY <1>7 DEF Waiting
  <2>3. c \in todo <=> c \in Listed(l.list) /\ GroupOf[c] = g
    BY DEF todo, Members
  <2>4. GroupOf[c] # 0 => GroupOf[c] \in Nat
    BY Names
  <2> QED BY <1>3, <2>1, <2>2, <2>3, <2>4
<1>14. Accounted(m, exposure')
  <2> SUFFICES ASSUME NEW c \in Config
               PROVE  /\ l.out[c] = "none" <=> c \notin Listed(l.list) \/ c \in Waiting(l)
                      /\ l.out[c] \in Stored =>
                            /\ GroupOf[c] # 0
                            /\ exposure'[GroupOf[c]].version = l.nets[SymbolOf[GroupOf[c]]].version
                      /\ l.out[c] \in Executable => CanExecute(l.list, c)
    BY <1>7, <1>13 DEF Accounted
  <2>1. /\ l.out[c] = "none" <=> c \notin Listed(l.list) \/ c \in Waiting(l)
        /\ l.out[c] \in Stored =>
              /\ GroupOf[c] # 0
              /\ exposure[GroupOf[c]].version = l.nets[SymbolOf[GroupOf[c]]].version
        /\ l.out[c] \in Executable => CanExecute(l.list, c)
    BY <1>8 DEF Accounted
  <2>2. GroupOf[c] # 0 => GroupOf[c] \in Group
    BY Names
  <2> QED BY <1>5, <1>9, <2>1, <2>2
<1>15. ExposureBatchOK(m, now, cache', exposure', net)
  <2>1. m.todo \subseteq Members(m.list, m.group)
    BY <1>7 DEF todo
  <2> QED BY <1>5, <1>6, <1>7, <1>8, <1>9, <1>12, <1>14, <2>1 DEF ExposureBatchOK
<1>16. cache \in [Group -> CacheType] /\ queue \in SUBSET Config
  BY DEF ExposurePart
<1>17. expo[x].pc # "idle"
  BY <1>1 DEF l
<1>18. ExposurePart'
  BY <1>1, <1>9, <1>11, <1>15, <1>16, <1>17, ExposureMoves
<1>19. ASSUME NEW h \in Group
       PROVE  exposure'[h].version >= exposure[h].version /\ exposure'[h].at >= exposure[h].at
  <2>1. exposure[h].version \in Nat /\ exposure[h].at \in Nat
    BY <1>9 DEF ExposureType
  <2> QED BY <1>4, <1>5, <1>8, <1>9, <1>10, <2>1
<1> QED BY <1>18, <1>19

\* A run is asked for, or refused.
LEMMA EnqueueInv ==
    ASSUME WorldPart, ExposurePart, NEW x \in ExposureCaller, Enqueue(x) \/ EnqueueFails(x)
    PROVE  ExposurePart'
<1> DEFINE l == expo[x]
           c == Least(l.todo)
<1>1. ExposureBatchOK(l, now, cache, exposure, net) /\ l.pc = "enqueue"
  BY DEF ExposurePart, Enqueue, EnqueueFails
<1>2. UNCHANGED <<now, worldVars, cache, exposure, ran>>
  BY DEF Enqueue, EnqueueFails, storeVars
<1>3. PICK o \in Stored :
         /\ o \in Executable => CanExecute(l.list, c)
         /\ ExposureGoto(x, AfterConfig(l, c, o))
         /\ queue' = queue \/ queue' = queue \cup {c}
  <2>1. CASE Enqueue(x)
    <3> DEFINE o == IF ~CanExecute(l.list, c) THEN "blocked"
                    ELSE IF c \in queue THEN "duplicate" ELSE "enqueued"
    <3>1. o \in Stored /\ (o \in Executable => CanExecute(l.list, c))
      BY DEF Stored, Executable
    <3>2. ExposureGoto(x, AfterConfig(l, c, o))
      BY <2>1 DEF Enqueue
    <3>3. queue' = queue \/ queue' = queue \cup {c}
      BY <2>1 DEF Enqueue
    <3> HIDE DEF o
    <3> QED BY <3>1, <3>2, <3>3
  <2>2. CASE EnqueueFails(x)
    <3>1. "enqueue_failed" \in Stored
      BY DEF Stored
    <3> QED BY <2>2, <3>1 DEF EnqueueFails, storeVars
  <2> QED BY <2>1, <2>2
<1> HIDE DEF l, c
<1>4. c \in Config /\ ExposureBatchOK(AfterConfig(l, c, o), now, cache, exposure, net)
  BY <1>1, <1>3, AfterConfigOK DEF c
<1>5. /\ cache \in [Group -> CacheType] /\ exposure \in [Group -> ExposureType]
      /\ queue \in SUBSET Config /\ \A g \in Group : GroupOK(g, now, cache, exposure, net)
  BY DEF ExposurePart
<1>6. queue' \in SUBSET Config
  BY <1>3, <1>4, <1>5
<1>7. expo[x].pc # "idle"
  BY <1>1 DEF l
<1> QED BY <1>2, <1>3, <1>4, <1>5, <1>6, <1>7, ExposureMoves

\* A run of the queue or of the scheduler.
LEMMA RunsInv ==
    ASSUME ExposurePart, NEW c \in Config, RunTask(c) \/ ScheduleRun(c)
    PROVE  queue' \in SUBSET Config /\ ran' \in [Config -> Nat]
<1>1. queue' \in SUBSET Config
  BY DEF ExposurePart, RunTask, ScheduleRun
<1>2. GroupOf[c] # 0 => exposure[GroupOf[c]].version \in Nat
  BY Names DEF ExposurePart, ExposureType
<1>3. ran' \in [Config -> Nat]
  BY <1>2 DEF ExposurePart, RunTask, ScheduleRun
<1> QED BY <1>1, <1>3

\* Every other step leaves the two tables alone and at most ends a batch.
LEMMA ExposureElsewhere ==
    ASSUME WorldPart, ExposurePart, WorldPart', WorldGrows, UNCHANGED <<cache, exposure>>,
           queue' \in SUBSET Config, ran' \in [Config -> Nat],
           expo' = expo \/ \E x \in ExposureCaller : expo' = [expo EXCEPT ![x] = ExpoIdle]
    PROVE  ExposurePart'
<1>1. /\ now \in Nat /\ now' \in Nat /\ now' >= now
      /\ net \in [Symbol -> NetType] /\ net' \in [Symbol -> NetType]
      /\ \A s \in Symbol : net'[s].version >= net[s].version
  BY DEF WorldPart, WorldGrows
<1>2. cache \in [Group -> CacheType] /\ exposure \in [Group -> ExposureType]
  BY DEF ExposurePart
<1>3. \A x \in ExposureCaller : ExposureBatchOK(expo[x], now', cache, exposure, net')
  <2> SUFFICES ASSUME NEW x \in ExposureCaller
               PROVE  ExposureBatchOK(expo[x], now', cache, exposure, net')
    OBVIOUS
  <2>1. ExposureBatchOK(expo[x], now, cache, exposure, net)
    BY DEF ExposurePart
  <2> QED BY <1>1, <1>2, <2>1, BatchLasts
<1>4. /\ expo' = [x \in ExposureCaller |-> expo'[x]]
      /\ \A x \in ExposureCaller : expo'[x] = expo[x] \/ expo'[x] = ExpoIdle
  BY DEF ExposurePart
<1>5. ExposureBatchOK(ExpoIdle, now', cache, exposure, net')
  <2>1. ExpoIdle.at <= now' /\ ExpoIdle \in ExpoType /\ ExpoIdle.pc = "idle"
    BY <1>1, IdleStates
  <2> QED BY <2>1, IdleBatch
<1>6. \A x \in ExposureCaller : ExposureBatchOK(expo'[x], now', cache', exposure', net')
  BY <1>3, <1>4, <1>5
<1>7. \A x, y \in ExposureCaller : expo'[x].pc # "idle" /\ expo'[y].pc # "idle" => x = y
  BY <1>4, IdleStates DEF ExposurePart
<1>8. ASSUME NEW g \in Group PROVE GroupOK(g, now', cache', exposure', net')
  <2>1. GroupOK(g, now, cache, exposure, net)
    BY DEF ExposurePart
  <2>2. SymbolOf[g] \in Symbol
    BY Names
  <2>3. cache[g].at \in Nat /\ exposure[g].at \in Nat /\ exposure[g].version \in Nat
    BY <1>2 DEF CacheType, ExposureType
  <2>4. net[SymbolOf[g]].version \in Nat /\ net'[SymbolOf[g]].version \in Nat
    BY <1>1, <2>2 DEF NetType
  <2> QED BY <1>1, <2>1, <2>2, <2>3, <2>4 DEF GroupOK
<1> QED BY <1>2, <1>4, <1>6, <1>7, <1>8 DEF ExposurePart

\* Every step keeps the exposure sync's part, and its snapshots only grow.
LEMMA NextExposure ==
    ASSUME WorldPart, ExposurePart, WorldPart', WorldGrows, Next
    PROVE  /\ ExposurePart'
           /\ \A g \in Group : /\ exposure'[g].version >= exposure[g].version
                               /\ exposure'[g].at >= exposure[g].at
<1>1. exposure' = exposure =>
         \A g \in Group : /\ exposure'[g].version >= exposure[g].version
                          /\ exposure'[g].at >= exposure[g].at
  BY DEF ExposurePart, ExposureType
<1>2. queue \in SUBSET Config /\ ran \in [Config -> Nat]
  BY DEF ExposurePart
<1>3. ASSUME NEW x \in ExposureCaller, ExposureBegin(x)
      PROVE  ExposurePart' /\ exposure' = exposure
  BY <1>3, ExposureBeginInv DEF ExposureBegin, storeVars
<1>4. ASSUME NEW x \in ExposureCaller, Aggregate(x) PROVE ExposurePart' /\ exposure' = exposure
  BY <1>4, AggregateInv DEF Aggregate, storeVars
<1>5. ASSUME NEW x \in ExposureCaller, SaveNetExposure(x)
      PROVE  ExposurePart' /\ exposure' = exposure
  BY <1>5, SaveNetExposureInv DEF SaveNetExposure
<1>6. ASSUME NEW x \in ExposureCaller, ExpireFails(x) PROVE ExposurePart' /\ exposure' = exposure
  BY <1>6, ExpireFailsInv DEF ExpireFails
<1>7. ASSUME NEW x \in ExposureCaller, FetchMarkPrice(x)
      PROVE  ExposurePart' /\ exposure' = exposure
  BY <1>7, FetchMarkPriceInv DEF FetchMarkPrice, storeVars
<1>8. ASSUME NEW x \in ExposureCaller, StalePrice(x) \/ GroupFails(x)
      PROVE  ExposurePart' /\ exposure' = exposure
  BY <1>8, GroupSkippedInv DEF StalePrice, GroupFails, storeVars
<1>9. ASSUME NEW x \in ExposureCaller, Enqueue(x) \/ EnqueueFails(x)
      PROVE  ExposurePart' /\ exposure' = exposure
  BY <1>9, EnqueueInv DEF Enqueue, EnqueueFails, storeVars
<1>10. ASSUME NEW x \in PositionCaller, PositionBegin(x) \/ PositionStep(x)
       PROVE  ExposurePart' /\ exposure' = exposure
  <2>1. UNCHANGED <<cache, exposure, queue, ran, expo>>
    BY <1>10 DEF PositionBegin, PositionStep, FetchPositions, StampPositions, UpsertPosition,
       AccountFails, storeVars
  <2> QED BY <1>2, <2>1, ExposureElsewhere
<1>11. ASSUME NEW x \in Caller, RefreshBegin(x) \/ RefreshStep(x) \/ Cancel(x)
       PROVE  ExposurePart' /\ exposure' = exposure
  <2>1. UNCHANGED <<cache, exposure, queue, ran>>
    BY <1>11 DEF RefreshBegin, RefreshStep, RefreshRead, RefreshUpsert, RefreshUpsertFails,
       RefreshPrune, Cancel, storeVars
  <2>2. expo' = expo \/ BatchOver(x)
    BY <1>11 DEF RefreshBegin, RefreshStep, RefreshRead, RefreshUpsert, RefreshUpsertFails,
       RefreshPrune, Cancel
  <2>3. expo' = expo \/ \E y \in ExposureCaller : expo' = [expo EXCEPT ![y] = ExpoIdle]
    BY <2>2 DEF BatchOver
  <2> QED BY <1>2, <2>1, <2>3, ExposureElsewhere
<1>12. CASE World
  <2>1. UNCHANGED <<cache, exposure, expo>>
    BY <1>12, WorldSteps
  <2>2. queue' \in SUBSET Config /\ ran' \in [Config -> Nat]
    <3>1. ASSUME NEW c \in Config, RunTask(c) \/ ScheduleRun(c)
          PROVE  queue' \in SUBSET Config /\ ran' \in [Config -> Nat]
      BY <3>1, RunsInv
    <3> QED BY <1>2, <1>12, <3>1 DEF World, Tick, FeedPrice, ChangeNet, ChangeBook, EditSettings,
           FinishExecution, storeVars
  <2> QED BY <1>1, <2>1, <2>2, ExposureElsewhere
<1> QED BY <1>1, <1>3, <1>4, <1>5, <1>6, <1>7, <1>8, <1>9, <1>10, <1>11, <1>12,
           UpsertExposureSnapshotInv DEF Next, ExposureStep
------------------------------------------------------------------------------
(* The position sync *)

\* A local state with other fields.
LEMMA PosRecord ==
    ASSUME NEW pc \in PositionSteps, NEW list \in SettingsType, NEW account \in Nat, NEW read,
           DOMAIN read \subseteq Place, \A p \in DOMAIN read : read[p] \in BookType,
           NEW at \in Nat, NEW todo \in SUBSET Place
    PROVE  IsPos([pc |-> pc, list |-> list, account |-> account, read |-> read,
                  at |-> at, todo |-> todo])
BY DEF IsPos

\* An assignment to one field of a local state leaves the others.
LEMMA PosList ==
    ASSUME NEW l, IsPos(l), NEW list
    PROVE  [l EXCEPT !.list = list]
              = [pc |-> l.pc, list |-> list, account |-> l.account, read |-> l.read,
                 at |-> l.at, todo |-> l.todo]
<1> DEFINE a == l.pc
           b == l.list
           c == l.account
           d == l.read
           e == l.at
           f == l.todo
<1>1. l = [pc |-> a, list |-> b, account |-> c, read |-> d, at |-> e, todo |-> f]
  BY DEF IsPos
<1> HIDE DEF a, b, c, d, e, f
<1>2. [l EXCEPT !.list = list]
         = [pc |-> a, list |-> list, account |-> c, read |-> d, at |-> e, todo |-> f]
  BY <1>1
<1> QED BY <1>2 DEF a, b, c, d, e, f

\* The same for the fields a fetch sets.
LEMMA PosRead ==
    ASSUME NEW l, IsPos(l), NEW pc, NEW read
    PROVE  [l EXCEPT !.pc = pc, !.read = read]
              = [pc |-> pc, list |-> l.list, account |-> l.account, read |-> read,
                 at |-> l.at, todo |-> l.todo]
<1> DEFINE a == l.pc
           b == l.list
           c == l.account
           d == l.read
           e == l.at
           f == l.todo
<1>1. l = [pc |-> a, list |-> b, account |-> c, read |-> d, at |-> e, todo |-> f]
  BY DEF IsPos
<1> HIDE DEF a, b, c, d, e, f
<1> DEFINE m == [l EXCEPT !.pc = pc]
<1>2. m = [pc |-> pc, list |-> b, account |-> c, read |-> d, at |-> e, todo |-> f]
  BY <1>1
<1> HIDE DEF m
<1>3. [m EXCEPT !.read = read]
         = [pc |-> pc, list |-> b, account |-> c, read |-> read, at |-> e, todo |-> f]
  BY <1>2
<1> QED BY <1>3 DEF a, b, c, d, e, f, m

\* The same for the fields a stamp sets.
LEMMA PosStamp ==
    ASSUME NEW l, IsPos(l), NEW pc, NEW at, NEW todo
    PROVE  [l EXCEPT !.pc = pc, !.at = at, !.todo = todo]
              = [pc |-> pc, list |-> l.list, account |-> l.account, read |-> l.read,
                 at |-> at, todo |-> todo]
<1> DEFINE a == l.pc
           b == l.list
           c == l.account
           d == l.read
           e == l.at
           f == l.todo
<1>1. l = [pc |-> a, list |-> b, account |-> c, read |-> d, at |-> e, todo |-> f]
  BY DEF IsPos
<1> HIDE DEF a, b, c, d, e, f
<1> DEFINE m == [l EXCEPT !.pc = pc]
<1>2. m = [pc |-> pc, list |-> b, account |-> c, read |-> d, at |-> e, todo |-> f]
  BY <1>1
<1> HIDE DEF m
<1> DEFINE n == [m EXCEPT !.at = at]
<1>3. n = [pc |-> pc, list |-> b, account |-> c, read |-> d, at |-> at, todo |-> f]
  BY <1>2
<1> HIDE DEF n
<1>4. [n EXCEPT !.todo = todo]
         = [pc |-> pc, list |-> b, account |-> c, read |-> d, at |-> at, todo |-> todo]
  BY <1>3
<1> QED BY <1>4 DEF a, b, c, d, e, f, m, n

\* The same for the places that are left.
LEMMA PosTodo ==
    ASSUME NEW l, IsPos(l), NEW todo
    PROVE  [l EXCEPT !.todo = todo]
              = [pc |-> l.pc, list |-> l.list, account |-> l.account, read |-> l.read,
                 at |-> l.at, todo |-> todo]
<1> DEFINE a == l.pc
           b == l.list
           c == l.account
           d == l.read
           e == l.at
           f == l.todo
<1>1. l = [pc |-> a, list |-> b, account |-> c, read |-> d, at |-> e, todo |-> f]
  BY DEF IsPos
<1> HIDE DEF a, b, c, d, e, f
<1>2. [l EXCEPT !.todo = todo]
         = [pc |-> a, list |-> b, account |-> c, read |-> d, at |-> e, todo |-> todo]
  BY <1>1
<1> QED BY <1>2 DEF a, b, c, d, e, f

\* Nothing is read.
LEMMA NothingRead == DOMAIN <<>> = {}
OBVIOUS

\* The batch goes on with an account, or comes to its refresh.
LEMMA NextAccountOK ==
    ASSUME NEW l, IsPos(l), NEW a \in Nat, NEW n, l.at <= n, NEW po, NEW bo
    PROVE  PositionBatchOK(NextAccount(l, a), n, po, bo)
<1> DEFINE rest == {b \in SyncedAccounts(l.list) : b > a}
           h == IF rest = {} THEN 0 ELSE Least(rest)
           pc == IF rest = {} THEN "monitor" ELSE "fetch"
           none == <<>>
           m == NextAccount(l, a)
<1>1. /\ l.list \in SettingsType /\ l.at \in Nat
      /\ l = [pc |-> l.pc, list |-> l.list, account |-> l.account, read |-> l.read,
              at |-> l.at, todo |-> l.todo]
  BY DEF IsPos
<1>2. SyncedAccounts(l.list) \subseteq Nat
  BY <1>1, ListNames, Names
<1>3. h \in Nat /\ (pc = "fetch" => h \in SyncedAccounts(l.list))
  BY <1>2, LeastIn
<1>4. pc \in {"monitor", "fetch"} /\ DOMAIN none = {}
  BY NothingRead
<1>5. m = [pc |-> pc, list |-> l.list, account |-> h, read |-> none, at |-> l.at, todo |-> {}]
  BY <1>1 DEF NextAccount
<1> HIDE DEF h, pc, rest, none, m
<1>6. IsPos(m)
  BY <1>1, <1>3, <1>4, <1>5, PosRecord DEF PositionSteps
<1>7. m.pc = pc /\ m.at = l.at /\ m.list = l.list /\ m.account = h
  BY <1>5
<1>8. PositionBatchOK(m, n, po, bo)
  BY <1>3, <1>4, <1>6, <1>7 DEF PositionBatchOK
<1> QED BY <1>8 DEF m

\* An idle caller has nothing that could be wrong.
LEMMA IdlePosition ==
    ASSUME NEW l, IsPos(l), NEW n, l.at <= n, l.pc = "idle", NEW po, NEW bo
    PROVE  PositionBatchOK(l, n, po, bo)
BY DEF PositionBatchOK

\* What is true of a batch stays true while the world moves on.
LEMMA PositionLasts ==
    ASSUME NEW l, NEW n \in Nat, NEW po, NEW bo \in [Place -> BookType],
           PositionBatchOK(l, n, po, bo), NEW n2 \in Nat, n2 >= n,
           NEW bo2 \in [Place -> BookType], \A p \in Place : bo2[p].version >= bo[p].version
    PROVE  PositionBatchOK(l, n2, po, bo2)
<1>1. /\ IsPos(l) /\ l.at \in Nat /\ l.at <= n2
  BY DEF PositionBatchOK, IsPos
<1>2. ASSUME NEW p \in DOMAIN l.read, l.read[p].version <= bo[p].version
      PROVE  l.read[p].version <= bo2[p].version
  <2>1. p \in Place /\ l.read[p] \in BookType
    BY <1>1 DEF IsPos
  <2>2. l.read[p].version \in Nat /\ bo[p].version \in Nat /\ bo2[p].version \in Nat
    BY <2>1 DEF BookType
  <2> QED BY <1>2, <2>1, <2>2
<1> QED BY <1>1, <1>2 DEF PositionBatchOK

\* A step of caller x, who holds the mutex or takes it.
LEMMA PositionMoves ==
    ASSUME WorldPart, PositionPart, UNCHANGED <<now, worldVars>>,
           NEW x \in PositionCaller, NEW l, PositionGoto(x, l),
           pos[x].pc # "idle" \/ PositionMutexFree,
           position' \in [Place -> PositionType],
           \A p \in Place : PlaceOK(p, now, position', book),
           PositionBatchOK(l, now, position', book)
    PROVE  PositionPart'
<1>1. now' = now /\ book' = book
  BY DEF worldVars
<1>2. /\ pos' = [y \in PositionCaller |-> pos'[y]]
      /\ pos'[x] = l /\ \A y \in PositionCaller : y # x => pos'[y] = pos[y]
  BY DEF PositionPart, PositionGoto
<1>3. \A y \in PositionCaller : y # x => pos[y].pc = "idle"
  BY DEF PositionPart, PositionMutexFree
<1>4. ASSUME NEW y \in PositionCaller
      PROVE  PositionBatchOK(pos'[y], now', position', book')
  <2>1. CASE y = x
    BY <1>1, <1>2, <2>1
  <2>2. CASE y # x
    <3>1. IsPos(pos[y]) /\ pos[y].at <= now /\ pos[y].pc = "idle"
      BY <1>3, <2>2 DEF PositionPart, PositionBatchOK
    <3> QED BY <1>1, <1>2, <2>2, <3>1, IdlePosition
  <2> QED BY <2>1, <2>2
<1>5. \A y, z \in PositionCaller : pos'[y].pc # "idle" /\ pos'[z].pc # "idle" => y = z
  BY <1>2, <1>3
<1> QED BY <1>1, <1>2, <1>4, <1>5 DEF PositionPart

\* The same for a step that leaves the snapshots alone.
LEMMA PositionLocal ==
    ASSUME WorldPart, PositionPart, UNCHANGED <<now, worldVars, storeVars>>,
           NEW x \in PositionCaller, NEW l, PositionGoto(x, l),
           pos[x].pc # "idle" \/ PositionMutexFree, PositionBatchOK(l, now, position, book)
    PROVE  PositionPart' /\ position' = position
<1>1. position' = position /\ UNCHANGED <<now, worldVars>>
  BY DEF storeVars
<1>2. position \in [Place -> PositionType] /\ \A p \in Place : PlaceOK(p, now, position, book)
  BY DEF PositionPart
<1> QED BY <1>1, <1>2, PositionMoves

\* Sync begins.
LEMMA PositionBeginInv ==
    ASSUME WorldPart, PositionPart, NEW x \in PositionCaller, PositionBegin(x)
    PROVE  PositionPart' /\ position' = position
<1> DEFINE l == [PosIdle EXCEPT !.list = settings]
<1>1. /\ PositionGoto(x, NextAccount(l, 0)) /\ PositionMutexFree
      /\ UNCHANGED <<now, worldVars, storeVars>>
  BY DEF PositionBegin
<1>2. /\ PosIdle.pc \in PositionSteps /\ PosIdle.account \in Nat /\ PosIdle.at = 0
      /\ DOMAIN PosIdle.read \subseteq Place /\ \A p \in DOMAIN PosIdle.read : PosIdle.read[p] \in BookType
      /\ PosIdle.at \in Nat /\ PosIdle.todo \in SUBSET Place
  BY IdleStates DEF IsPos
<1>3. settings \in SettingsType /\ 0 <= now
  BY DEF WorldPart
<1>4. l = [pc |-> PosIdle.pc, list |-> settings, account |-> PosIdle.account,
           read |-> PosIdle.read, at |-> PosIdle.at, todo |-> PosIdle.todo]
  BY IdleStates, PosList
<1> HIDE DEF l
<1>5. IsPos(l) /\ l.at <= now
  BY <1>2, <1>3, <1>4, PosRecord
<1>6. PositionBatchOK(NextAccount(l, 0), now, position, book)
  BY <1>5, NextAccountOK
<1> QED BY <1>1, <1>6, PositionLocal

\* FetchPositions.
LEMMA FetchPositionsInv ==
    ASSUME WorldPart, PositionPart, NEW x \in PositionCaller, FetchPositions(x)
    PROVE  PositionPart' /\ position' = position
<1> DEFINE l == pos[x]
           read == [p \in PlacesOf(l.list, l.account) |-> book[p]]
           pc == "stamp"
           m == [l EXCEPT !.pc = pc, !.read = read]
<1>1. l.pc = "fetch" /\ PositionGoto(x, m) /\ UNCHANGED <<now, worldVars, storeVars>>
  BY DEF FetchPositions
<1>2. IsPos(l) /\ l.at <= now /\ l.account \in SyncedAccounts(l.list)
  BY <1>1 DEF PositionPart, PositionBatchOK
<1> HIDE DEF l
<1>3. /\ l.list \in SettingsType /\ l.at \in Nat /\ l.account \in Nat /\ l.todo \in SUBSET Place
      /\ l = [pc |-> l.pc, list |-> l.list, account |-> l.account, read |-> l.read,
              at |-> l.at, todo |-> l.todo]
  BY <1>2 DEF IsPos
<1>4. DOMAIN read = PlacesOf(l.list, l.account) /\ DOMAIN read \subseteq Place
  BY <1>2, <1>3, ListNames
<1>5. \A p \in DOMAIN read : read[p] = book[p] /\ read[p] \in BookType
  BY <1>4 DEF WorldPart
<1>6. pc = "stamp" /\ pc \in PositionSteps
  BY DEF PositionSteps
<1> HIDE DEF read, pc
<1>7. m = [pc |-> pc, list |-> l.list, account |-> l.account, read |-> read, at |-> l.at,
           todo |-> l.todo]
  BY <1>2, PosRead
<1> HIDE DEF m
<1>8. IsPos(m)
  BY <1>3, <1>4, <1>5, <1>6, <1>7, PosRecord
<1>9. /\ m.pc = "stamp" /\ m.at = l.at /\ m.list = l.list /\ m.account = l.account
      /\ m.read = read
  BY <1>6, <1>7
<1>10. \A p \in DOMAIN read : /\ position[p].version <= read[p].version
                              /\ read[p].version <= book[p].version
  <2> SUFFICES ASSUME NEW p \in DOMAIN read
               PROVE  position[p].version <= book[p].version /\ book[p].version <= book[p].version
    BY <1>5
  <2>1. PlaceOK(p, now, position, book) /\ book[p] \in BookType
    BY <1>4, <1>5 DEF PositionPart
  <2> QED BY <2>1 DEF PlaceOK, BookType
<1>11. PositionBatchOK(m, now, position, book)
  BY <1>2, <1>8, <1>9, <1>10 DEF PositionBatchOK
<1> QED BY <1>1, <1>11, PositionLocal DEF l

\* The answer is stamped.
LEMMA StampPositionsInv ==
    ASSUME WorldPart, PositionPart, NEW x \in PositionCaller, StampPositions(x)
    PROVE  PositionPart' /\ position' = position
<1> DEFINE l == pos[x]
           todo == DOMAIN l.read
           pc == "upsert"
           m == [l EXCEPT !.pc = pc, !.at = now, !.todo = todo]
<1>1. l.pc = "stamp" /\ PositionGoto(x, m) /\ UNCHANGED <<now, worldVars, storeVars>>
  BY DEF StampPositions
<1>2. /\ IsPos(l) /\ l.account \in SyncedAccounts(l.list)
      /\ \A p \in DOMAIN l.read : /\ position[p].version <= l.read[p].version
                                  /\ l.read[p].version <= book[p].version
  BY <1>1 DEF PositionPart, PositionBatchOK
<1> HIDE DEF l
<1>3. /\ l.list \in SettingsType /\ l.account \in Nat
      /\ DOMAIN l.read \subseteq Place /\ \A p \in DOMAIN l.read : l.read[p] \in BookType
      /\ l = [pc |-> l.pc, list |-> l.list, account |-> l.account, read |-> l.read,
              at |-> l.at, todo |-> l.todo]
  BY <1>2 DEF IsPos
<1>4. pc = "upsert" /\ pc \in PositionSteps
  BY DEF PositionSteps
<1> HIDE DEF todo, pc
<1>5. m = [pc |-> pc, list |-> l.list, account |-> l.account, read |-> l.read, at |-> now,
           todo |-> todo]
  BY <1>2, PosStamp
<1>6. todo = DOMAIN l.read /\ todo \in SUBSET Place /\ now \in Nat /\ now > 0 /\ now <= now
  BY <1>3 DEF WorldPart, todo
<1> HIDE DEF m
<1>7. IsPos(m)
  BY <1>3, <1>4, <1>5, <1>6, PosRecord
<1>8. /\ m.pc = "upsert" /\ m.at = now /\ m.list = l.list /\ m.account = l.account
      /\ m.read = l.read /\ m.todo = todo
  BY <1>4, <1>5
<1>9. \A p \in DOMAIN l.read : position[p].at <= now + MaxSkew
  BY <1>3 DEF PositionPart, PlaceOK
<1>10. PositionBatchOK(m, now, position, book)
  BY <1>2, <1>6, <1>7, <1>8, <1>9 DEF PositionBatchOK
<1> QED BY <1>1, <1>10, PositionLocal DEF l

\* f adds up the first n amounts.
AddsUp(f, amounts, n) ==
    /\ f \in [0 .. n -> Int]
    /\ f[0] = 0
    /\ \A i \in 1 .. n : f[i] = f[i - 1] + amounts[i]

\* There is a function of the partial sums: otherwise there would be a least
\* number of amounts without one.
LEMMA PartialSums ==
    ASSUME NEW k \in Nat, NEW amounts \in [1 .. k -> Int]
    PROVE  \E f : AddsUp(f, amounts, k)
<1> DEFINE T == {n \in 0 .. k : ~\E f : AddsUp(f, amounts, n)}
<1>1. T = {}
  <2> SUFFICES ASSUME T # {} PROVE FALSE
    OBVIOUS
  <2>1. T \in SUBSET Nat
    OBVIOUS
  <2>2. PICK n \in T : \A m \in T : n <= m
    BY <2>1, LeastIn
  <2>3. n \in 0 .. k /\ n \in Nat
    BY <2>1
  <2>4. n # 0
    <3>1. AddsUp([i \in 0 .. 0 |-> 0], amounts, 0)
      BY DEF AddsUp
    <3> QED BY <3>1, <2>2
  <2>5. n - 1 \in 0 .. k /\ n - 1 \notin T
    BY <2>2, <2>3, <2>4
  <2>6. PICK f : AddsUp(f, amounts, n - 1)
    BY <2>5
  <2> DEFINE g == [i \in 0 .. n |-> IF i = n THEN f[n - 1] + amounts[n] ELSE f[i]]
  <2>7. AddsUp(g, amounts, n)
    <3>1. f \in [0 .. n - 1 -> Int] /\ f[0] = 0 /\ \A i \in 1 .. n - 1 : f[i] = f[i - 1] + amounts[i]
      BY <2>6 DEF AddsUp
    <3>2. n \in 1 .. k /\ amounts[n] \in Int /\ f[n - 1] \in Int
      <4>1. n \in 1 .. k /\ n - 1 \in 0 .. n - 1
        BY <2>3, <2>4
      <4> QED BY <3>1, <4>1
    <3>3. g \in [0 .. n -> Int]
      BY <2>3, <3>1, <3>2
    <3>4. g[0] = 0
      BY <2>3, <2>4, <3>1
    <3>5. ASSUME NEW i \in 1 .. n PROVE g[i] = g[i - 1] + amounts[i]
      <4>1. i - 1 \in 0 .. n /\ i - 1 # n /\ i \in 0 .. n /\ g[i - 1] = f[i - 1]
        BY <2>3
      <4>2. CASE i = n
        BY <4>1, <4>2
      <4>3. CASE i # n
        BY <2>3, <3>1, <4>1, <4>3
      <4> QED BY <4>2, <4>3
    <3> QED BY <3>3, <3>4, <3>5 DEF AddsUp
  <2> QED BY <2>2, <2>7
<1>2. k \in 0 .. k
  OBVIOUS
<1> QED BY <1>1, <1>2

\* What is added up of whole numbers is a whole number.
LEMMA AddUpType ==
    ASSUME NEW k \in Nat, NEW amounts \in [1 .. k -> Int], Len(amounts) = k
    PROVE  AddUp(amounts) \in Int
<1>1. PICK f : AddsUp(f, amounts, k)
  BY PartialSums
<1> DEFINE R(h) == [n \in 0 .. k |-> IF n = 0 THEN 0 ELSE h[n - 1] + amounts[n]]
           g == CHOOSE h : h = R(h)
<1>2. f = R(f)
  <2>1. f = [n \in 0 .. k |-> f[n]]
    BY <1>1 DEF AddsUp
  <2>2. \A n \in 0 .. k : f[n] = IF n = 0 THEN 0 ELSE f[n - 1] + amounts[n]
    BY <1>1 DEF AddsUp
  <2> QED BY <2>1, <2>2
<1>3. g = R(g)
  <2> HIDE DEF R
  <2> QED BY <1>2
<1>4. AddUp(amounts) = g[k]
  BY DEF AddUp
<1> HIDE DEF g
<1>5. g[0] = 0 /\ \A i \in 1 .. k : g[i] = g[i - 1] + amounts[i]
  BY <1>3
<1> HIDE DEF R
<1> DEFINE T == {n \in 0 .. k : g[n] \notin Int}
<1>6. T = {}
  <2> SUFFICES ASSUME T # {} PROVE FALSE
    OBVIOUS
  <2>1. PICK n \in T : \A m \in T : n <= m
    <3>1. T \in SUBSET Nat
      OBVIOUS
    <3> QED BY <3>1, LeastIn
  <2>2. n \in 1 .. k
    BY <1>5, <2>1
  <2>3. n - 1 \in 0 .. k /\ n - 1 \notin T
    BY <2>1, <2>2
  <2>4. g[n - 1] \in Int /\ amounts[n] \in Int
    BY <2>2, <2>3
  <2> QED BY <1>5, <2>1, <2>2, <2>4
<1> QED BY <1>4, <1>6

\* The aggregate of the legs an exchange reports is a position.
LEMMA AggregateType ==
    ASSUME NEW legs \in Books
    PROVE  AggregateLegs(legs).qty \in Int /\ AggregateLegs(legs).notional \in Int
<1> DEFINE Leg == [side : STRING, qty : Int, notional : Int, mark : Int]
<1>1. Len(legs) \in Nat /\ \A n \in 1 .. Len(legs) : legs[n] \in Leg
  <2>1. legs \in Seq(Leg)
    BY BooksAssumption
  <2> HIDE DEF Leg
  <2> QED BY <2>1
<1>2. ASSUME NEW leg \in Leg PROVE SignedQuantity(leg) \in Int /\ SignedNotional(leg) \in Int
  <2>1. leg.qty \in Int /\ leg.notional \in Int /\ leg.mark \in Int
    BY <1>2
  <2>2. SignedQuantity(leg) \in Int
    BY <2>1, AbsType DEF SignedQuantity
  <2> DEFINE q == SignedQuantity(leg)
             n == IF leg.notional = 0 /\ leg.mark > 0 THEN Abs(q) * leg.mark ELSE leg.notional
  <2>3. n \in Int
    <3>1. Abs(q) \in Int
      BY <2>2, AbsType
    <3> QED BY <2>1, <3>1
  <2>4. Sign(q) \in Int /\ Abs(n) \in Int
    <3>1. Sign(q) \in Int
      BY <2>2 DEF Sign
    <3> QED BY <2>3, <3>1, AbsType
  <2>5. SignedNotional(leg) = Sign(q) * Abs(n)
    BY DEF SignedNotional
  <2> HIDE DEF q, n
  <2>6. Sign(q) * Abs(n) \in Int
    BY <2>4
  <2> QED BY <2>2, <2>5, <2>6
<1>3. /\ Quantities(legs) \in [1 .. Len(legs) -> Int] /\ Notionals(legs) \in [1 .. Len(legs) -> Int]
      /\ Len(Quantities(legs)) = Len(legs) /\ Len(Notionals(legs)) = Len(legs)
  BY <1>1, <1>2 DEF Quantities, Notionals
<1>4. AddUp(Quantities(legs)) \in Int /\ AddUp(Notionals(legs)) \in Int
  BY <1>1, <1>3, AddUpType
<1> QED BY <1>4 DEF AggregateLegs

\* UpsertHedgePositionSnapshot.
LEMMA UpsertPositionInv ==
    ASSUME WorldPart, PositionPart, NEW x \in PositionCaller, UpsertPosition(x)
    PROVE  /\ PositionPart'
           /\ \A p \in Place : /\ position'[p].version >= position[p].version
                               /\ position'[p].at + MaxSkew >= position[p].at
<1> DEFINE l == pos[x]
<1>1. l.pc = "upsert" /\ UNCHANGED <<now, worldVars>>
  BY DEF UpsertPosition
<1>2a. PICK p \in l.todo : \E n \in ObservedAt(l.read[p].legs, l.at) :
         LET a   == AggregateLegs(l.read[p].legs)
             row == [known |-> TRUE, qty |-> a.qty, notional |-> a.notional,
                     at |-> n, version |-> l.read[p].version]
         IN  /\ position' = [position EXCEPT ![p] = IF a.known THEN row ELSE @]
             /\ PositionGoto(x, IF l.todo = {p} THEN NextAccount(l, l.account)
                                ELSE [l EXCEPT !.todo = @ \ {p}])
  BY DEF UpsertPosition
<1>2. PICK n \in ObservedAt(l.read[p].legs, l.at) :
         LET a   == AggregateLegs(l.read[p].legs)
             row == [known |-> TRUE, qty |-> a.qty, notional |-> a.notional,
                     at |-> n, version |-> l.read[p].version]
         IN  /\ position' = [position EXCEPT ![p] = IF a.known THEN row ELSE @]
             /\ PositionGoto(x, IF l.todo = {p} THEN NextAccount(l, l.account)
                                ELSE [l EXCEPT !.todo = @ \ {p}])
  BY <1>2a
<1> DEFINE a    == AggregateLegs(l.read[p].legs)
           row  == [known |-> TRUE, qty |-> a.qty, notional |-> a.notional,
                    at |-> n, version |-> l.read[p].version]
           new  == IF a.known THEN row ELSE position[p]
           todo == l.todo \ {p}
           m    == IF l.todo = {p} THEN NextAccount(l, l.account) ELSE [l EXCEPT !.todo = todo]
<1>3. position' = [position EXCEPT ![p] = new] /\ PositionGoto(x, m)
  BY <1>2
<1>4. PositionBatchOK(l, now, position, book)
  BY DEF PositionPart
<1> HIDE DEF l
<1>5. /\ IsPos(l) /\ l.at <= now /\ l.account \in SyncedAccounts(l.list)
      /\ l.at > 0 /\ l.todo \subseteq DOMAIN l.read
      /\ \A q \in DOMAIN l.read : /\ position[q].version <= l.read[q].version
                                  /\ l.read[q].version <= book[q].version
                                  /\ position[q].at <= l.at + MaxSkew
  BY <1>1, <1>4 DEF PositionBatchOK, l
<1>6. /\ l.list \in SettingsType /\ l.account \in Nat /\ l.at \in Nat /\ l.todo \in SUBSET Place
      /\ DOMAIN l.read \subseteq Place /\ \A q \in DOMAIN l.read : l.read[q] \in BookType
      /\ l.pc \in PositionSteps
  BY <1>5 DEF IsPos
<1>7. p \in DOMAIN l.read /\ p \in Place /\ l.read[p] \in BookType
  BY <1>5, <1>6
<1>8. a.qty \in Int /\ a.notional \in Int /\ l.read[p].version \in Nat
  BY <1>7, AggregateType DEF BookType
<1>8a. /\ MaxSkew \in Nat /\ now \in Nat
       /\ n \in Nat /\ l.at <= n /\ n <= l.at + MaxSkew /\ n <= now + MaxSkew
  <2>1. MaxSkew \in Nat /\ now \in Nat
    BY SyncAssumption DEF WorldPart
  <2>2. n \in Nat /\ l.at <= n /\ n <= l.at + MaxSkew
    BY <1>6, <2>1 DEF ObservedAt
  <2> QED BY <1>5, <1>6, <2>1, <2>2
<1> HIDE DEF a
<1>9. /\ row \in PositionType /\ row.at = n /\ row.version = l.read[p].version
  BY <1>8, <1>8a DEF PositionType
<1> HIDE DEF row
<1>10. position[p] \in PositionType /\ PlaceOK(p, now, position, book)
  BY <1>7 DEF PositionPart
<1>11. /\ new \in PositionType
       /\ new.at + MaxSkew >= position[p].at
       /\ new.at <= l.at + MaxSkew /\ new.at <= now + MaxSkew
       /\ new.version >= position[p].version /\ new.version <= l.read[p].version
       /\ new.version <= book[p].version
       /\ new.known => new.at > 0
  <2>1. position[p].at \in Nat /\ position[p].version \in Nat
    BY <1>10 DEF PositionType
  <2>2. CASE a.known
    BY <1>5, <1>6, <1>7, <1>8, <1>8a, <1>9, <2>1, <2>2
  <2>3. CASE ~a.known
    BY <1>5, <1>7, <1>8a, <1>10, <2>1, <2>3 DEF PlaceOK
  <2> QED BY <2>2, <2>3
<1> HIDE DEF new
<1>12. /\ position' \in [Place -> PositionType] /\ position'[p] = new
       /\ \A q \in Place : q # p => position'[q] = position[q]
  BY <1>3, <1>7, <1>11 DEF PositionPart
<1>13. \A q \in Place : PlaceOK(q, now, position', book)
  <2>1. \A q \in Place : PlaceOK(q, now, position, book)
    BY DEF PositionPart
  <2> QED BY <1>11, <1>12, <2>1 DEF PlaceOK
<1>14. PositionBatchOK(m, now, position', book)
  <2>1. CASE l.todo = {p}
    BY <1>5, <1>6, <2>1, NextAccountOK
  <2>2. CASE l.todo # {p}
    <3>1. m = [pc |-> l.pc, list |-> l.list, account |-> l.account, read |-> l.read,
               at |-> l.at, todo |-> todo]
      BY <1>5, <2>2, PosTodo
    <3>2. todo \in SUBSET Place /\ todo \subseteq DOMAIN l.read
      BY <1>5, <1>6
    <3> HIDE DEF m, todo
    <3>3. IsPos(m)
      BY <1>6, <3>1, <3>2, PosRecord
    <3>4. /\ m.pc = "upsert" /\ m.at = l.at /\ m.list = l.list /\ m.account = l.account
          /\ m.read = l.read /\ m.todo = todo
      BY <1>1, <3>1 DEF l
    <3>5. \A q \in DOMAIN l.read : /\ position'[q].version <= l.read[q].version
                                   /\ l.read[q].version <= book[q].version
                                   /\ position'[q].at <= l.at + MaxSkew
      BY <1>5, <1>6, <1>11, <1>12
    <3> QED BY <1>5, <3>2, <3>3, <3>4, <3>5 DEF PositionBatchOK
  <2> QED BY <2>1, <2>2
<1> HIDE DEF m
<1>15. pos[x].pc # "idle"
  BY <1>1 DEF l
<1>16. PositionPart'
  BY <1>1, <1>3, <1>12, <1>13, <1>14, <1>15, PositionMoves
<1>17. ASSUME NEW q \in Place
       PROVE  position'[q].version >= position[q].version /\ position'[q].at + MaxSkew >= position[q].at
  <2>1. position[q].version \in Nat /\ position[q].at \in Nat
    BY DEF PositionPart, PositionType
  <2> QED BY <1>8a, <1>11, <1>12, <2>1
<1> QED BY <1>16, <1>17

\* What is left of an account is given up.
LEMMA AccountFailsInv ==
    ASSUME WorldPart, PositionPart, NEW x \in PositionCaller, AccountFails(x)
    PROVE  PositionPart' /\ position' = position
<1> DEFINE l == pos[x]
<1>1. /\ l.pc # "idle" /\ PositionGoto(x, NextAccount(l, l.account))
      /\ UNCHANGED <<now, worldVars, storeVars>>
  BY DEF AccountFails
<1>2. IsPos(l) /\ l.at <= now /\ l.account \in Nat
  BY DEF PositionPart, PositionBatchOK, IsPos
<1>3. PositionBatchOK(NextAccount(l, l.account), now, position, book)
  BY <1>2, NextAccountOK
<1> QED BY <1>1, <1>3, PositionLocal

\* Every other step leaves the snapshots alone and at most ends a batch.
LEMMA PositionElsewhere ==
    ASSUME WorldPart, PositionPart, WorldPart', WorldGrows, UNCHANGED position,
           pos' = pos \/ \E x \in PositionCaller : pos' = [pos EXCEPT ![x] = PosIdle]
    PROVE  PositionPart'
<1>1. /\ now \in Nat /\ now' \in Nat /\ now' >= now
      /\ book \in [Place -> BookType] /\ book' \in [Place -> BookType]
      /\ \A p \in Place : book'[p].version >= book[p].version
  BY DEF WorldPart, WorldGrows
<1>2. position \in [Place -> PositionType]
  BY DEF PositionPart
<1>3. ASSUME NEW x \in PositionCaller PROVE PositionBatchOK(pos[x], now', position, book')
  <2>1. PositionBatchOK(pos[x], now, position, book)
    BY DEF PositionPart
  <2> QED BY <1>1, <2>1, PositionLasts
<1>4. /\ pos' = [x \in PositionCaller |-> pos'[x]]
      /\ \A x \in PositionCaller : pos'[x] = pos[x] \/ pos'[x] = PosIdle
  BY DEF PositionPart
<1>5. PositionBatchOK(PosIdle, now', position, book')
  <2>1. PosIdle.at <= now' /\ IsPos(PosIdle) /\ PosIdle.pc = "idle"
    BY <1>1, IdleStates
  <2> QED BY <2>1, IdlePosition
<1>6. \A x \in PositionCaller : PositionBatchOK(pos'[x], now', position', book')
  BY <1>3, <1>4, <1>5
<1>7. \A x, y \in PositionCaller : pos'[x].pc # "idle" /\ pos'[y].pc # "idle" => x = y
  BY <1>4, IdleStates DEF PositionPart
<1>8. ASSUME NEW p \in Place PROVE PlaceOK(p, now', position', book')
  <2>1. PlaceOK(p, now, position, book)
    BY DEF PositionPart
  <2>2. /\ position[p].at \in Nat /\ position[p].version \in Nat /\ MaxSkew \in Nat
        /\ book[p].version \in Nat /\ book'[p].version \in Nat
    BY <1>1, <1>2, SyncAssumption DEF PositionType, BookType
  <2> QED BY <1>1, <2>1, <2>2 DEF PlaceOK
<1> QED BY <1>2, <1>4, <1>6, <1>7, <1>8 DEF PositionPart

\* Every step keeps the position sync's part, and its snapshots only grow.
LEMMA NextPosition ==
    ASSUME WorldPart, PositionPart, WorldPart', WorldGrows, Next
    PROVE  /\ PositionPart'
           /\ \A p \in Place : /\ position'[p].version >= position[p].version
                               /\ position'[p].at + MaxSkew >= position[p].at
<1>1. position' = position =>
         \A p \in Place : /\ position'[p].version >= position[p].version
                          /\ position'[p].at + MaxSkew >= position[p].at
  BY SyncAssumption DEF PositionPart, PositionType
<1>2. ASSUME NEW x \in PositionCaller, PositionBegin(x)
      PROVE  PositionPart' /\ position' = position
  BY <1>2, PositionBeginInv
<1>3. ASSUME NEW x \in PositionCaller, FetchPositions(x)
      PROVE  PositionPart' /\ position' = position
  BY <1>3, FetchPositionsInv
<1>4. ASSUME NEW x \in PositionCaller, StampPositions(x)
      PROVE  PositionPart' /\ position' = position
  BY <1>4, StampPositionsInv
<1>5. ASSUME NEW x \in PositionCaller, AccountFails(x)
      PROVE  PositionPart' /\ position' = position
  BY <1>5, AccountFailsInv
<1>6. ASSUME NEW x \in ExposureCaller, ExposureBegin(x) \/ ExposureStep(x)
      PROVE  PositionPart' /\ position' = position
  <2>1. position' = position /\ pos' = pos
    BY <1>6 DEF ExposureBegin, ExposureStep, Aggregate, SaveNetExposure, ExpireFails,
       FetchMarkPrice, StalePrice, UpsertExposureSnapshot, GroupFails, Enqueue, EnqueueFails,
       storeVars
  <2> QED BY <2>1, PositionElsewhere
<1>7. ASSUME NEW x \in Caller, RefreshBegin(x) \/ RefreshStep(x) \/ Cancel(x)
      PROVE  PositionPart' /\ position' = position
  <2>1. position' = position /\ (pos' = pos \/ BatchOver(x))
    BY <1>7 DEF RefreshBegin, RefreshStep, RefreshRead, RefreshUpsert, RefreshUpsertFails,
       RefreshPrune, Cancel, storeVars
  <2>2. pos' = pos \/ \E y \in PositionCaller : pos' = [pos EXCEPT ![y] = PosIdle]
    BY <2>1 DEF BatchOver
  <2> QED BY <2>1, <2>2, PositionElsewhere
<1>8. CASE World
  <2>1. position' = position /\ pos' = pos
    BY <1>8, WorldSteps
  <2> QED BY <1>1, <2>1, PositionElsewhere
<1> QED BY <1>1, <1>2, <1>3, <1>4, <1>5, <1>6, <1>7, <1>8, UpsertPositionInv
        DEF Next, PositionStep
------------------------------------------------------------------------------
(* The monitor *)

\* A row a refresh takes is typed, and was stamped if it is there.
LEMMA RowsTaken ==
    ASSUME NEW ex \in [Group -> ExposureType], NEW po \in [Place -> PositionType],
           \A g \in Group : ex[g].known => ex[g].at > 0,
           \A p \in Place : po[p].known => po[p].at > 0, NEW c \in Config
    PROVE  LET e == ExposureFor(c, ex)
               p == PositionFor(c, po)
           IN  /\ e \in ExposureType /\ (e.known => e.at > 0)
               /\ p \in PositionType /\ (p.known => p.at > 0)
<1>1. LET e == ExposureFor(c, ex) IN e \in ExposureType /\ (e.known => e.at > 0)
  <2>1. CASE GroupOf[c] = 0
    BY <2>1, EmptyRows DEF ExposureFor, NoExposure
  <2>2. CASE GroupOf[c] # 0
    BY <2>2, Names DEF ExposureFor
  <2> QED BY <2>1, <2>2
<1>2. LET p == PositionFor(c, po) IN p \in PositionType /\ (p.known => p.at > 0)
  <2>1. CASE AccountOf[c] = 0
    BY <2>1, EmptyRows DEF PositionFor, NoPosition
  <2>2. CASE AccountOf[c] # 0
    BY <2>2, Names DEF PositionFor
  <2> QED BY <2>1, <2>2
<1> QED BY <1>1, <1>2

\* A row that shows "balanced" has no trouble to show first.
LEMMA BalancedShown ==
    ASSUME NEW global, NEW enabled, NEW account, NEW execution, NEW e, NEW p, NEW n,
           NEW es, NEW ps, NEW action,
           MergeMonitorStatus(SwitchStatus(global, enabled),
                              HealthStatus(account, execution, e, p, n, es, ps), action)
             = "balanced"
    PROVE  action = "balanced" /\ ~Missing(e, n, es) /\ ~Missing(p, n, ps)
<1> DEFINE switch == SwitchStatus(global, enabled)
           health == HealthStatus(account, execution, e, p, n, es, ps)
<1>1. switch \in {"global_off", "symbol_off", "enabled"}
  BY DEF SwitchStatus
<1>2. /\ health \in {"account_unavailable", "execution_failed", "observing", "ok"}
      /\ health = "ok" => ~Missing(e, n, es) /\ ~Missing(p, n, ps)
  BY DEF HealthStatus
<1> HIDE DEF switch, health
<1>3. MergeMonitorStatus(switch, health, action) = "balanced"
  BY DEF switch, health
<1>4. switch = "enabled" /\ health \notin {"account_unavailable", "execution_failed"}
  BY <1>1, <1>3 DEF MergeMonitorStatus
<1>5. action = "balanced" /\ health # "observing"
  BY <1>3, <1>4 DEF MergeMonitorStatus
<1> QED BY <1>2, <1>4, <1>5

\* What the refresh calculates for a configuration.
LEMMA RowForFields ==
    ASSUME NEW l, NEW c \in Config
    PROVE  LET e      == ExposureFor(c, l.exposure)
               p      == PositionFor(c, l.position)
               net1   == IF e.known THEN e.notional ELSE 0
               actual == IF p.known THEN SignedPositionNotional(p) ELSE 0
               row    == RowFor(l, c)
           IN  /\ DOMAIN row = DOMAIN NoRow
               /\ row.at = l.at /\ row.exposureAt = e.at /\ row.positionAt = p.at
               /\ row.seen = e.version /\ row.held = p.version
               /\ row.net = net1 /\ row.actual = actual
               /\ row.status = MergeMonitorStatus(
                     SwitchStatus(l.list.global, Enabled(l.list, c)),
                     HealthStatus(AccountActive(l.list, c),
                                  IF c \in l.failed THEN "failed" ELSE "none",
                                  e, p, l.at, ExposureStale, PositionStale),
                     MonitorAction(Terms, net1, actual))
<1> DEFINE e      == ExposureFor(c, l.exposure)
           p      == PositionFor(c, l.position)
           net1   == IF e.known THEN e.notional ELSE 0
           actual == IF p.known THEN SignedPositionNotional(p) ELSE 0
           x      == IF c \in l.failed THEN "failed" ELSE "none"
           status == MergeMonitorStatus(
                        SwitchStatus(l.list.global, Enabled(l.list, c)),
                        HealthStatus(AccountActive(l.list, c), x, e, p, l.at,
                                     ExposureStale, PositionStale),
                        MonitorAction(Terms, net1, actual))
           r      == MonitorSnapshot(Terms, l.list.global, Enabled(l.list, c),
                                     AccountActive(l.list, c), x, e, p, l.at,
                                     ExposureStale, PositionStale)
<1>1. r.net = net1 /\ r.actual = actual /\ r.status = status /\ r.at = l.at
  BY DEF MonitorSnapshot
<1>2. RowFor(l, c) = [f \in DOMAIN NoRow |-> CASE f = "exposureAt" -> e.at
                                               [] f = "positionAt" -> p.at
                                               [] f = "seen" -> e.version
                                               [] f = "held" -> p.version
                                               [] OTHER      -> r[f]]
  BY DEF RowFor, ExposureFor, PositionFor
<1>3. /\ "at" \in DOMAIN NoRow /\ "exposureAt" \in DOMAIN NoRow /\ "positionAt" \in DOMAIN NoRow
      /\ "seen" \in DOMAIN NoRow /\ "held" \in DOMAIN NoRow /\ "net" \in DOMAIN NoRow
      /\ "actual" \in DOMAIN NoRow /\ "status" \in DOMAIN NoRow
  BY DEF NoRow
<1> HIDE DEF e, p, net1, actual, x, status, r
<1>4. /\ DOMAIN RowFor(l, c) = DOMAIN NoRow
      /\ RowFor(l, c).at = r.at /\ RowFor(l, c).net = r.net
      /\ RowFor(l, c).actual = r.actual /\ RowFor(l, c).status = r.status
  BY <1>2, <1>3
<1>5. /\ RowFor(l, c).exposureAt = e.at /\ RowFor(l, c).positionAt = p.at
      /\ RowFor(l, c).seen = e.version /\ RowFor(l, c).held = p.version
  BY <1>2, <1>3
<1> QED BY <1>1, <1>4, <1>5 DEF e, p, net1, actual, x, status

\* The row is typed, sound, and neither older nor newer than what was read.
LEMMA RowForSound ==
    ASSUME NEW l, NEW n, NEW ex, NEW po, NEW mo, RefreshOK(l, n, ex, po, mo), l.pc = "upsert",
           NEW c \in Config
    PROVE  LET row == RowFor(l, c)
           IN  /\ RowTyped(row) /\ SoundRow(row)
               /\ row.at = l.at
               /\ row.seen = ExposureFor(c, l.exposure).version
               /\ row.held = PositionFor(c, l.position).version
<1> DEFINE row    == RowFor(l, c)
           e      == ExposureFor(c, l.exposure)
           p      == PositionFor(c, l.position)
           net1   == IF e.known THEN e.notional ELSE 0
           actual == IF p.known THEN SignedPositionNotional(p) ELSE 0
           x      == IF c \in l.failed THEN "failed" ELSE "none"
<1>1. /\ DOMAIN row = DOMAIN NoRow
      /\ row.at = l.at /\ row.exposureAt = e.at /\ row.positionAt = p.at
      /\ row.seen = e.version /\ row.held = p.version
      /\ row.net = net1 /\ row.actual = actual
      /\ row.status = MergeMonitorStatus(
            SwitchStatus(l.list.global, Enabled(l.list, c)),
            HealthStatus(AccountActive(l.list, c), x, e, p, l.at, ExposureStale, PositionStale),
            MonitorAction(Terms, net1, actual))
  BY RowForFields
<1>2. /\ e \in ExposureType /\ (e.known => e.at > 0)
      /\ p \in PositionType /\ (p.known => p.at > 0)
  BY RowsTaken DEF RefreshOK
<1>3. l.at \in Nat
  BY DEF RefreshOK, RefType
<1> HIDE DEF row, e, p, x
<1>4. /\ e.at \in Nat /\ e.version \in Nat /\ e.notional \in Int
      /\ p.at \in Nat /\ p.version \in Nat /\ p.notional \in Int /\ p.qty \in Int
  BY <1>2 DEF ExposureType, PositionType
<1>5. RowTyped(row)
  BY <1>1, <1>3, <1>4 DEF RowTyped
<1>6. net1 \in Int /\ actual \in Int
  <2>1. Sign(p.qty) * Abs(p.notional) \in Int
    <3>1. Sign(p.qty) \in Int /\ Abs(p.notional) \in Int
      BY <1>4 DEF Sign, Abs
    <3> QED BY <3>1
  <2> QED BY <1>4, <2>1 DEF SignedPositionNotional
<1> HIDE DEF net1, actual
<1>7. ASSUME row.status = "balanced"
      PROVE  /\ row.exposureAt > 0 /\ row.at - row.exposureAt <= ExposureStale
             /\ row.positionAt > 0 /\ row.at - row.positionAt <= PositionStale
             /\ Calculate(Terms, row.net, 1,
                          [quantity |-> row.actual, notional |-> row.actual]).action = "hold"
  <2>1. /\ MonitorAction(Terms, net1, actual) = "balanced"
        /\ ~Missing(e, l.at, ExposureStale) /\ ~Missing(p, l.at, PositionStale)
    <3> DEFINE g  == l.list.global
               on == Enabled(l.list, c)
               ac == AccountActive(l.list, c)
               es == ExposureStale
               ps == PositionStale
               do == MonitorAction(Terms, net1, actual)
    <3>1. MergeMonitorStatus(SwitchStatus(g, on), HealthStatus(ac, x, e, p, l.at, es, ps), do)
            = "balanced"
      BY <1>1, <1>7
    <3> HIDE DEF g, on, ac, es, ps, do
    <3>2. do = "balanced" /\ ~Missing(e, l.at, es) /\ ~Missing(p, l.at, ps)
      BY <3>1, BalancedShown
    <3> QED BY <3>2 DEF do, es, ps
  <2>2. ExposureStale \in Nat /\ PositionStale \in Nat
    BY SyncAssumption
  <2>3. /\ row.exposureAt > 0 /\ row.at - row.exposureAt <= ExposureStale
        /\ row.positionAt > 0 /\ row.at - row.positionAt <= PositionStale
    BY <1>1, <1>2, <1>3, <1>4, <2>1, <2>2 DEF Missing
  <2> DEFINE held == [quantity |-> actual, notional |-> actual]
  <2>4. held.notional = actual
    OBVIOUS
  <2> HIDE DEF held
  <2>5. Calculate(Terms, net1, 1, held).action = "hold"
    <3>1. /\ Terms \in ConfigType /\ Terms.enabled /\ Terms.min > 0 /\ Terms.ratio >= 0
          /\ 1 \in Nat \ {0}
      BY SyncAssumption
    <3> QED BY <1>6, <2>1, <2>4, <3>1, MonitorAgreement
  <2> QED BY <1>1, <2>3, <2>5 DEF held
<1>8. SoundRow(row)
  BY <1>7 DEF SoundRow
<1> QED BY <1>1, <1>5, <1>8 DEF row, e, p

\* Tables that grow leave a row behind them behind them.
LEMMA StaysBehind ==
    ASSUME NEW row, RowTyped(row), NEW c \in Config, NEW n \in Nat, NEW n2 \in Nat, n2 >= n,
           NEW ex \in [Group -> ExposureType], NEW ex2 \in [Group -> ExposureType],
           NEW po \in [Place -> PositionType], NEW po2 \in [Place -> PositionType],
           \A g \in Group : ex2[g].version >= ex[g].version,
           \A p \in Place : po2[p].version >= po[p].version,
           NotAhead(row, c, n, ex, po)
    PROVE  NotAhead(row, c, n2, ex2, po2)
<1>1. row.at \in Nat /\ row.seen \in Nat /\ row.held \in Nat
  BY DEF RowTyped
<1>2. row.seen <= ExposureFor(c, ex2).version
  <2>1. CASE GroupOf[c] = 0
    BY <2>1 DEF NotAhead, ExposureFor
  <2>2. CASE GroupOf[c] # 0
    <3>1. GroupOf[c] \in Group
      BY <2>2, Names
    <3>2. ex[GroupOf[c]].version \in Nat /\ ex2[GroupOf[c]].version \in Nat
      BY <3>1 DEF ExposureType
    <3> QED BY <1>1, <2>2, <3>1, <3>2 DEF NotAhead, ExposureFor
  <2> QED BY <2>1, <2>2
<1>3. row.held <= PositionFor(c, po2).version
  <2>1. CASE AccountOf[c] = 0
    BY <2>1 DEF NotAhead, PositionFor
  <2>2. CASE AccountOf[c] # 0
    <3> DEFINE q == <<AccountOf[c], TargetOf[c]>>
    <3>1. q \in Place
      BY <2>2, Names
    <3> HIDE DEF q
    <3>2. po[q].version \in Nat /\ po2[q].version \in Nat
      BY <3>1 DEF PositionType
    <3> QED BY <1>1, <2>2, <3>1, <3>2 DEF NotAhead, PositionFor, q
  <2> QED BY <2>1, <2>2
<1> QED BY <1>1, <1>2, <1>3 DEF NotAhead

\* The empty row is behind every table.
LEMMA EmptyBehind ==
    ASSUME NEW c \in Config, NEW n \in Nat, NEW ex \in [Group -> ExposureType],
           NEW po \in [Place -> PositionType]
    PROVE  NotAhead(NoRow, c, n, ex, po)
<1>1. ExposureFor(c, ex) \in ExposureType
  BY Names, EmptyRows DEF ExposureFor
<1>2. PositionFor(c, po) \in PositionType
  BY Names, EmptyRows DEF PositionFor
<1>3. ExposureFor(c, ex).version \in Nat /\ PositionFor(c, po).version \in Nat
  BY <1>1, <1>2 DEF ExposureType, PositionType
<1> QED BY <1>3, EmptyRows DEF NotAhead

\* What the tables' types and growth are in a step.
TablesGrow ==
    /\ now \in Nat /\ now' \in Nat /\ now' >= now
    /\ exposure \in [Group -> ExposureType] /\ exposure' \in [Group -> ExposureType]
    /\ \A g \in Group : exposure'[g].version >= exposure[g].version
    /\ position \in [Place -> PositionType] /\ position' \in [Place -> PositionType]
    /\ \A p \in Place : position'[p].version >= position[p].version

\* A refresh that has read stays as it should be while the tables grow.
LEMMA RefreshLasts ==
    ASSUME TablesGrow, NEW l, NEW mo, RefreshOK(l, now, exposure, position, mo)
    PROVE  RefreshOK(l, now', exposure', position', mo)
<1>1. l \in RefType
  BY DEF RefreshOK
<1>2. ASSUME l.pc = "upsert" PROVE RefreshOK(l, now', exposure', position', mo)
  <2>1. /\ l.at \in Nat /\ l.at <= now /\ l.todo # {}
        /\ l.exposure \in [Group -> ExposureType] /\ l.position \in [Place -> PositionType]
        /\ \A g \in Group : /\ l.exposure[g].version <= exposure[g].version
                            /\ l.exposure[g].known => l.exposure[g].at > 0
        /\ \A p \in Place : /\ l.position[p].version <= position[p].version
                            /\ l.position[p].known => l.position[p].at > 0
        /\ \A c \in Config : NotAhead(mo[c], c, l.at, l.exposure, l.position)
    BY <1>1, <1>2 DEF RefreshOK, RefType
  <2>2. l.at <= now'
    BY <2>1 DEF TablesGrow
  <2>3. \A g \in Group : l.exposure[g].version <= exposure'[g].version
    BY <2>1 DEF TablesGrow, ExposureType
  <2>4. \A p \in Place : l.position[p].version <= position'[p].version
    BY <2>1 DEF TablesGrow, PositionType
  <2> QED BY <1>1, <2>1, <2>2, <2>3, <2>4 DEF RefreshOK
<1> QED BY <1>1, <1>2 DEF RefreshOK

\* A refresh that is idle, reads or prunes has nothing that could be wrong.
LEMMA RefreshQuiet ==
    ASSUME NEW l \in RefType, l.pc # "upsert", NEW n, NEW ex, NEW po, NEW mo
    PROVE  RefreshOK(l, n, ex, po, mo)
BY DEF RefreshOK

\* A step of the refresh of caller x, who holds the mutex or takes it.
LEMMA RefreshMoves ==
    ASSUME MonitorPart, TablesGrow, NEW x \in Caller, NEW l, RefreshGoto(x, l),
           ref[x].pc # "idle" \/ MonitorMutexFree,
           monitor' = [c \in Config |-> monitor'[c]],
           \A c \in Config : /\ RowTyped(monitor'[c]) /\ SoundRow(monitor'[c])
                             /\ NotAhead(monitor'[c], c, now', exposure', position'),
           RefreshOK(l, now', exposure', position', monitor')
    PROVE  MonitorPart'
<1>1. /\ ref' = [y \in Caller |-> ref'[y]]
      /\ ref'[x] = l /\ \A y \in Caller : y # x => ref'[y] = ref[y]
  BY DEF MonitorPart, RefreshGoto
<1>2. \A y \in Caller : y # x => ref[y].pc = "idle"
  BY DEF MonitorPart, MonitorMutexFree
<1>3. ASSUME NEW y \in Caller
      PROVE  RefreshOK(ref'[y], now', exposure', position', monitor')
  <2>1. CASE y = x
    BY <1>1, <2>1
  <2>2. CASE y # x
    <3>1. ref[y] \in RefType /\ ref[y].pc = "idle"
      BY <1>2, <2>2 DEF MonitorPart, RefreshOK
    <3> QED BY <1>1, <2>2, <3>1, RefreshQuiet
  <2> QED BY <2>1, <2>2
<1>4. \A y, z \in Caller : ref'[y].pc # "idle" /\ ref'[z].pc # "idle" => y = z
  BY <1>1, <1>2
<1> QED BY <1>1, <1>3, <1>4 DEF MonitorPart

\* Rows that are not written stay as they should be.
LEMMA RowsStay ==
    ASSUME MonitorPart, TablesGrow, NEW c \in Config
    PROVE  /\ RowTyped(monitor[c]) /\ SoundRow(monitor[c])
           /\ NotAhead(monitor[c], c, now', exposure', position')
<1>1. RowTyped(monitor[c]) /\ SoundRow(monitor[c]) /\ NotAhead(monitor[c], c, now, exposure, position)
  BY DEF MonitorPart
<1> QED BY <1>1, StaysBehind DEF TablesGrow

\* The monitor rows only grow.
RowsGrow ==
    \A c \in Config : monitor'[c].known =>
       /\ monitor'[c].at >= monitor[c].at
       /\ monitor'[c].seen >= monitor[c].seen
       /\ monitor'[c].held >= monitor[c].held

\* A row that is not written is not a step back.
LEMMA RowsSame == ASSUME MonitorPart, monitor' = monitor PROVE RowsGrow
BY DEF MonitorPart, RowsGrow, RowTyped

\* Refresh begins.
LEMMA RefreshBeginInv ==
    ASSUME WorldPart, MonitorPart, TablesGrow, NEW x \in Caller, RefreshBegin(x)
    PROVE  MonitorPart' /\ RowsGrow
<1> DEFINE l == [RefIdle EXCEPT !.pc = "read", !.list = settings]
<1>1. RefreshGoto(x, l) /\ MonitorMutexFree /\ monitor' = monitor
  BY DEF RefreshBegin, storeVars
<1>2. settings \in SettingsType
  BY DEF WorldPart
<1>3. l \in RefType /\ l.pc = "read"
  BY <1>2, IdleStates DEF RefType, RefreshSteps
<1> HIDE DEF l
<1>4. RefreshOK(l, now', exposure', position', monitor')
  BY <1>3, RefreshQuiet
<1>5. monitor' = [c \in Config |-> monitor'[c]]
  BY <1>1 DEF MonitorPart
<1> QED BY <1>1, <1>4, <1>5, RefreshMoves, RowsStay, RowsSame

\* The refresh reads the tables.
LEMMA RefreshReadInv ==
    ASSUME WorldPart, ExposurePart, PositionPart, MonitorPart, TablesGrow,
           NEW x \in Caller, RefreshRead(x)
    PROVE  MonitorPart' /\ RowsGrow
<1> DEFINE k == ref[x]
           pc == IF Listed(k.list) = {} THEN "prune" ELSE "upsert"
           todo == Listed(k.list)
           l == [k EXCEPT !.pc = pc, !.exposure = exposure, !.position = position,
                          !.failed = failed, !.at = now, !.todo = todo]
<1>1. /\ k.pc = "read" /\ RefreshGoto(x, l)
      /\ now' = now /\ exposure' = exposure /\ position' = position /\ monitor' = monitor
  BY DEF RefreshRead, storeVars
<1>2. k \in RefType
  BY DEF MonitorPart, RefreshOK
<1>3. /\ pc \in RefreshSteps /\ (pc = "upsert" => todo # {}) /\ todo \in SUBSET Config
  <2>1. k.list \in SettingsType
    BY <1>2 DEF RefType
  <2> QED BY <2>1, ListNames DEF RefreshSteps
<1>4. /\ now \in Nat /\ now <= now /\ failed \in SUBSET Config
      /\ exposure \in [Group -> ExposureType] /\ position \in [Place -> PositionType]
  BY DEF WorldPart, ExposurePart, PositionPart
<1> HIDE DEF k, pc, todo
<1>5. l \in RefType
  BY <1>2, <1>3, <1>4 DEF RefType
<1>6. l.pc = pc /\ l.exposure = exposure /\ l.position = position /\ l.at = now /\ l.todo = todo
  BY <1>2 DEF RefType
<1> HIDE DEF l
<1>7. \A g \in Group : /\ exposure[g].version <= exposure[g].version
                       /\ exposure[g].known => exposure[g].at > 0
  BY <1>4 DEF ExposurePart, GroupOK, ExposureType
<1>8. \A p \in Place : /\ position[p].version <= position[p].version
                       /\ position[p].known => position[p].at > 0
  BY <1>4 DEF PositionPart, PlaceOK, PositionType
<1>9. \A c \in Config : NotAhead(monitor[c], c, now, exposure, position)
  BY DEF MonitorPart
<1>10. RefreshOK(l, now, exposure, position, monitor)
  BY <1>3, <1>4, <1>5, <1>6, <1>7, <1>8, <1>9 DEF RefreshOK
<1>11. monitor' = [c \in Config |-> monitor'[c]] /\ ref[x].pc # "idle"
  BY <1>1 DEF MonitorPart, k
<1> QED BY <1>1, <1>10, <1>11, RefreshMoves, RowsStay, RowsSame

\* The refresh after a row was written, or could not be.
LEMMA AfterUpsertOK ==
    ASSUME NEW l, NEW n, NEW ex, NEW po, NEW mo, RefreshOK(l, n, ex, po, mo), l.pc = "upsert",
           NEW c \in l.todo, NEW mo2,
           \A d \in Config : NotAhead(mo2[d], d, l.at, l.exposure, l.position)
    PROVE  RefreshOK(AfterUpsert(l, c), n, ex, po, mo2)
<1>1. CASE l.todo = {c}
  <2> DEFINE m == [RefIdle EXCEPT !.pc = "prune"]
  <2>1. m \in RefType /\ m.pc = "prune"
    BY IdleStates DEF RefType, RefreshSteps
  <2> HIDE DEF m
  <2>2. AfterUpsert(l, c) = m
    BY <1>1 DEF AfterUpsert, m
  <2> QED BY <2>1, <2>2, RefreshQuiet
<1>2. CASE l.todo # {c}
  <2> DEFINE todo == l.todo \ {c}
             m == [l EXCEPT !.todo = todo]
  <2>1. AfterUpsert(l, c) = m
    BY <1>2 DEF AfterUpsert
  <2>2. l \in RefType /\ todo \in SUBSET Config /\ todo # {}
    BY <1>2 DEF RefreshOK, RefType
  <2> HIDE DEF todo
  <2>3. /\ m \in RefType /\ m.pc = l.pc /\ m.at = l.at /\ m.exposure = l.exposure
        /\ m.position = l.position /\ m.todo = todo
    BY <2>2 DEF RefType
  <2> HIDE DEF m
  <2>4. RefreshOK(m, n, ex, po, mo2)
    BY <2>2, <2>3 DEF RefreshOK
  <2> QED BY <2>1, <2>4
<1> QED BY <1>1, <1>2

\* The configuration whose row is next.
LEMMA NextRow ==
    ASSUME NEW l, NEW n, NEW ex, NEW po, NEW mo, RefreshOK(l, n, ex, po, mo), l.pc = "upsert"
    PROVE  Least(l.todo) \in l.todo /\ Least(l.todo) \in Config
<1>1. l.todo # {} /\ l.todo \in SUBSET Config
  BY DEF RefreshOK, RefType
<1>2. l.todo \in SUBSET Nat
  BY <1>1, Names
<1> QED BY <1>1, <1>2, LeastIn

\* UpsertHedgeMonitorSnapshot.
LEMMA RefreshUpsertInv ==
    ASSUME MonitorPart, TablesGrow, NEW x \in Caller, RefreshUpsert(x)
    PROVE  MonitorPart' /\ RowsGrow
<1> DEFINE l == ref[x]
           c == Least(l.todo)
           row == RowFor(l, c)
<1>1. /\ l.pc = "upsert" /\ RefreshGoto(x, AfterUpsert(l, c))
      /\ monitor' = [monitor EXCEPT ![c] = row]
      /\ now' = now /\ exposure' = exposure /\ position' = position
  BY DEF RefreshUpsert, storeVars
<1>2. RefreshOK(l, now, exposure, position, monitor)
  BY DEF MonitorPart
<1>3. c \in l.todo /\ c \in Config
  BY <1>1, <1>2, NextRow
<1>4. /\ RowTyped(row) /\ SoundRow(row) /\ row.at = l.at
      /\ row.seen = ExposureFor(c, l.exposure).version
      /\ row.held = PositionFor(c, l.position).version
  BY <1>1, <1>2, <1>3, RowForSound
<1>5. /\ l.at \in Nat /\ l.at <= now /\ now \in Nat
      /\ l.exposure \in [Group -> ExposureType] /\ l.position \in [Place -> PositionType]
      /\ exposure \in [Group -> ExposureType] /\ position \in [Place -> PositionType]
      /\ \A g \in Group : exposure[g].version >= l.exposure[g].version
      /\ \A p \in Place : position[p].version >= l.position[p].version
      /\ \A d \in Config : NotAhead(monitor[d], d, l.at, l.exposure, l.position)
  BY <1>1, <1>2 DEF RefreshOK, RefType, TablesGrow, ExposureType, PositionType
<1> HIDE DEF row, c, l
<1>6. NotAhead(row, c, l.at, l.exposure, l.position)
  <2>1. row.at \in Nat /\ row.seen \in Nat /\ row.held \in Nat
    BY <1>4 DEF RowTyped
  <2> QED BY <1>4, <2>1 DEF NotAhead
<1>7. NotAhead(row, c, now, exposure, position)
  BY <1>3, <1>4, <1>5, <1>6, StaysBehind
<1>8. /\ monitor' = [d \in Config |-> monitor'[d]]
      /\ monitor'[c] = row /\ \A d \in Config : d # c => monitor'[d] = monitor[d]
  BY <1>1, <1>3 DEF MonitorPart
<1>9. \A d \in Config : /\ RowTyped(monitor'[d]) /\ SoundRow(monitor'[d])
                        /\ NotAhead(monitor'[d], d, now', exposure', position')
  BY <1>1, <1>4, <1>7, <1>8 DEF MonitorPart
<1>10. \A d \in Config : NotAhead(monitor'[d], d, l.at, l.exposure, l.position)
  BY <1>5, <1>6, <1>8
<1>11. l.pc = "upsert" /\ ref[x].pc # "idle"
  BY <1>1 DEF l
<1>12. RefreshOK(AfterUpsert(l, c), now, exposure, position, monitor')
  BY <1>2, <1>3, <1>10, <1>11, AfterUpsertOK DEF l
<1>13. MonitorPart'
  BY <1>1, <1>8, <1>9, <1>11, <1>12, RefreshMoves
<1>14. ASSUME NEW d \in Config
       PROVE  /\ monitor'[d].at >= monitor[d].at
              /\ monitor'[d].seen >= monitor[d].seen
              /\ monitor'[d].held >= monitor[d].held
  <2>1. RowTyped(monitor[d]) /\ RowTyped(monitor'[d])
    BY <1>9 DEF MonitorPart
  <2>2. NotAhead(monitor[d], d, l.at, l.exposure, l.position)
    BY <1>5
  <2> QED BY <1>4, <1>8, <2>1, <2>2 DEF NotAhead, RowTyped
<1> QED BY <1>13, <1>14 DEF RowsGrow

\* A row that cannot be written.
LEMMA RefreshUpsertFailsInv ==
    ASSUME MonitorPart, TablesGrow, NEW x \in Caller, RefreshUpsertFails(x)
    PROVE  MonitorPart' /\ RowsGrow
<1> DEFINE l == ref[x]
           c == Least(l.todo)
<1>1. /\ l.pc = "upsert" /\ RefreshGoto(x, AfterUpsert(l, c))
      /\ now' = now /\ exposure' = exposure /\ position' = position /\ monitor' = monitor
  BY DEF RefreshUpsertFails, storeVars
<1>2. RefreshOK(l, now, exposure, position, monitor)
  BY DEF MonitorPart
<1>3. c \in l.todo /\ c \in Config
  BY <1>1, <1>2, NextRow
<1>4. \A d \in Config : NotAhead(monitor[d], d, l.at, l.exposure, l.position)
  BY <1>1, <1>2 DEF RefreshOK
<1> HIDE DEF c
<1>5. RefreshOK(AfterUpsert(l, c), now, exposure, position, monitor)
  BY <1>1, <1>2, <1>3, <1>4, AfterUpsertOK
<1>6. monitor' = [d \in Config |-> monitor'[d]] /\ ref[x].pc # "idle"
  BY <1>1 DEF MonitorPart
<1> QED BY <1>1, <1>5, <1>6, RefreshMoves, RowsStay, RowsSame

\* PruneHedgeMonitorSnapshots, and the refresh is over.
LEMMA RefreshPruneInv ==
    ASSUME MonitorPart, TablesGrow, NEW x \in Caller, RefreshPrune(x)
    PROVE  MonitorPart' /\ RowsGrow
<1>1. /\ ref[x].pc = "prune" /\ RefreshGoto(x, RefIdle)
      /\ monitor' = [c \in Config |-> IF c \in PrunedRows THEN NoRow ELSE monitor[c]]
  BY DEF RefreshPrune
<1>2. /\ now' \in Nat /\ exposure' \in [Group -> ExposureType]
      /\ position' \in [Place -> PositionType]
  BY DEF TablesGrow
<1>3. /\ monitor' = [c \in Config |-> monitor'[c]]
      /\ \A c \in Config : monitor'[c] = NoRow \/ monitor'[c] = monitor[c]
  BY <1>1
<1>4. ASSUME NEW c \in Config
      PROVE  /\ RowTyped(monitor'[c]) /\ SoundRow(monitor'[c])
             /\ NotAhead(monitor'[c], c, now', exposure', position')
  <2>1. CASE monitor'[c] = NoRow
    BY <1>2, <2>1, EmptyRows, EmptyBehind
  <2>2. CASE monitor'[c] = monitor[c]
    BY <2>2, RowsStay
  <2> QED BY <1>3, <2>1, <2>2
<1>5. RefreshOK(RefIdle, now', exposure', position', monitor')
  <2>1. RefIdle \in RefType /\ RefIdle.pc # "upsert"
    BY IdleStates
  <2> QED BY <2>1, RefreshQuiet
<1>6. ref[x].pc # "idle"
  BY <1>1
<1>7. MonitorPart'
  BY <1>1, <1>3, <1>4, <1>5, <1>6, RefreshMoves
<1>8. RowsGrow
  BY <1>3, EmptyRows DEF RowsGrow, MonitorPart, RowTyped
<1> QED BY <1>7, <1>8

\* Every other step leaves the rows alone and at most ends a refresh.
LEMMA MonitorElsewhere ==
    ASSUME MonitorPart, TablesGrow, monitor' = monitor,
           ref' = ref \/ \E x \in Caller : ref' = [ref EXCEPT ![x] = RefIdle]
    PROVE  MonitorPart' /\ RowsGrow
<1>1. /\ ref' = [x \in Caller |-> ref'[x]]
      /\ \A x \in Caller : ref'[x] = ref[x] \/ ref'[x] = RefIdle
  BY DEF MonitorPart
<1>2. ASSUME NEW x \in Caller PROVE RefreshOK(ref'[x], now', exposure', position', monitor')
  <2>1. CASE ref'[x] = ref[x]
    <3>1. RefreshOK(ref[x], now, exposure, position, monitor)
      BY DEF MonitorPart
    <3> QED BY <2>1, <3>1, RefreshLasts
  <2>2. CASE ref'[x] = RefIdle
    <3>1. RefIdle \in RefType /\ RefIdle.pc # "upsert"
      BY IdleStates
    <3> QED BY <2>2, <3>1, RefreshQuiet
  <2> QED BY <1>1, <2>1, <2>2
<1>3. \A x, y \in Caller : ref'[x].pc # "idle" /\ ref'[y].pc # "idle" => x = y
  BY <1>1, IdleStates DEF MonitorPart
<1>4. \A c \in Config : /\ RowTyped(monitor[c]) /\ SoundRow(monitor[c])
                        /\ NotAhead(monitor[c], c, now', exposure', position')
  BY RowsStay
<1>5. monitor' = [c \in Config |-> monitor'[c]]
  BY DEF MonitorPart
<1>6. MonitorPart'
  BY <1>1, <1>2, <1>3, <1>4, <1>5 DEF MonitorPart
<1> QED BY <1>6, RowsSame

\* Every step keeps the monitor's part, and its rows only grow.
LEMMA NextMonitor ==
    ASSUME WorldPart, ExposurePart, PositionPart, MonitorPart, TablesGrow, Next
    PROVE  MonitorPart' /\ RowsGrow
<1>1. ASSUME NEW x \in Caller, RefreshBegin(x) PROVE MonitorPart' /\ RowsGrow
  BY <1>1, RefreshBeginInv
<1>2. ASSUME NEW x \in Caller, RefreshStep(x) PROVE MonitorPart' /\ RowsGrow
  BY <1>2, RefreshReadInv, RefreshUpsertInv, RefreshUpsertFailsInv, RefreshPruneInv
     DEF RefreshStep
<1>3. ASSUME NEW x \in Caller, Cancel(x) PROVE MonitorPart' /\ RowsGrow
  <2>1. monitor' = monitor /\ ref' = [ref EXCEPT ![x] = RefIdle]
    BY <1>3 DEF Cancel, RefreshGoto, storeVars
  <2> QED BY <2>1, MonitorElsewhere
<1>4. ASSUME NEW x \in ExposureCaller, ExposureBegin(x) \/ ExposureStep(x)
      PROVE  MonitorPart' /\ RowsGrow
  <2>1. monitor' = monitor /\ ref' = ref
    BY <1>4 DEF ExposureBegin, ExposureStep, Aggregate, SaveNetExposure, ExpireFails,
       FetchMarkPrice, StalePrice, UpsertExposureSnapshot, GroupFails, Enqueue, EnqueueFails,
       storeVars
  <2> QED BY <2>1, MonitorElsewhere
<1>5. ASSUME NEW x \in PositionCaller, PositionBegin(x) \/ PositionStep(x)
      PROVE  MonitorPart' /\ RowsGrow
  <2>1. monitor' = monitor /\ ref' = ref
    BY <1>5 DEF PositionBegin, PositionStep, FetchPositions, StampPositions, UpsertPosition,
       AccountFails, storeVars
  <2> QED BY <2>1, MonitorElsewhere
<1>6. CASE World
  <2>1. monitor' = monitor /\ ref' = ref
    BY <1>6, WorldSteps
  <2> QED BY <2>1, MonitorElsewhere
<1> QED BY <1>1, <1>2, <1>3, <1>4, <1>5, <1>6 DEF Next

\* What every table does in a step.
Growth ==
    /\ \A g \in Group : /\ exposure'[g].version >= exposure[g].version
                        /\ exposure'[g].at >= exposure[g].at
    /\ \A p \in Place : /\ position'[p].version >= position[p].version
                        /\ position'[p].at + MaxSkew >= position[p].at
    /\ RowsGrow
------------------------------------------------------------------------------
(* Theorems *)

\* Every step keeps the invariant, and no table goes back.
LEMMA NextIInv == ASSUME IInv, Next PROVE IInv' /\ Growth
<1>1. WorldPart /\ ExposurePart /\ PositionPart /\ MonitorPart
  BY DEF IInv
<1>2. WorldPart' /\ WorldGrows
  BY <1>1, NextWorld
<1>3. /\ ExposurePart'
      /\ \A g \in Group : /\ exposure'[g].version >= exposure[g].version
                          /\ exposure'[g].at >= exposure[g].at
  BY <1>1, <1>2, NextExposure
<1>4. /\ PositionPart'
      /\ \A p \in Place : /\ position'[p].version >= position[p].version
                          /\ position'[p].at + MaxSkew >= position[p].at
  BY <1>1, <1>2, NextPosition
<1>5. TablesGrow
  BY <1>1, <1>2, <1>3, <1>4 DEF TablesGrow, WorldPart, WorldGrows, ExposurePart, PositionPart
<1>6. MonitorPart' /\ RowsGrow
  BY <1>1, <1>5, NextMonitor
<1> QED BY <1>2, <1>3, <1>4, <1>6 DEF IInv, Growth

\* A step that changes nothing keeps the invariant.
LEMMA StutterIInv == ASSUME IInv, UNCHANGED vars PROVE IInv'
<1>1. WorldPart'
  BY DEF IInv, WorldPart, vars, worldVars
<1>2. ExposurePart'
  BY DEF IInv, ExposurePart, vars, worldVars, storeVars, localVars
<1>3. PositionPart'
  BY DEF IInv, PositionPart, vars, worldVars, storeVars, localVars
<1>4. MonitorPart'
  BY DEF IInv, MonitorPart, vars, worldVars, storeVars, localVars
<1> QED BY <1>1, <1>2, <1>3, <1>4 DEF IInv

\* The inductive invariant of the three syncs: what each batch has read and done
\* so far is between what is stored and what the world holds, and one batch of
\* each service runs at a time.
THEOREM SyncInvariant == Spec => []IInv
<1>1. IInv /\ [Next]_vars => IInv'
  BY NextIInv, StutterIInv
<1> QED BY <1>1, InitIInv, PTL DEF Spec

\* Tables, caches, queues and local states keep their types in every environment.
THEOREM SyncTypeCorrect == Spec => []TypeOK
<1>1. IInv => TypeOK
  BY DEF IInv, WorldPart, ExposurePart, PositionPart, MonitorPart, ExposureBatchOK,
     PositionBatchOK, RefreshOK, TypeOK
<1> QED BY <1>1, SyncInvariant, PTL

\* Snapshots, positions and monitor rows never go back to something older,
\* however batches of ticks and requests interleave, fail and are cancelled; only
\* observed_at of a position goes back, by no more than an exchange's clock is ahead.
THEOREM SyncNeverRegresses == Spec => NeverRegress
<1>1. IInv /\ [Next]_vars =>
         [/\ \A g \in Group : /\ exposure'[g].version >= exposure[g].version
                             /\ exposure'[g].at >= exposure[g].at
          /\ \A p \in Place : /\ position'[p].version >= position[p].version
                             /\ position'[p].at + MaxSkew >= position[p].at
          /\ \A c \in Config : monitor'[c].known =>
                /\ monitor'[c].at >= monitor[c].at
                /\ monitor'[c].seen >= monitor[c].seen
                /\ monitor'[c].held >= monitor[c].held]_vars
  BY NextIInv DEF Growth, RowsGrow
<1> QED BY <1>1, SyncInvariant, PTL DEF Spec, NeverRegress

\* A batch that comes to its refresh has dealt with every configuration it
\* listed, and asked for a run only after storing this batch's exposure.
THEOREM SyncAccountsForAll == Spec => []BatchAccounted
<1>1. ASSUME IInv, NEW x \in ExposureCaller, BatchDone(x), NEW c \in Config
      PROVE  LET o == expo[x].out[c]
             IN  /\ o = "none" <=> c \notin Listed(expo[x].list)
                 /\ o \in {"blocked", "duplicate", "enqueued", "enqueue_failed"} =>
                       exposure[GroupOf[c]].version = expo[x].nets[SymbolOf[GroupOf[c]]].version
                 /\ o \in {"duplicate", "enqueued", "enqueue_failed"} => CanExecute(expo[x].list, c)
  <2>1. expo[x].pc = "monitor"
    BY <1>1 DEF BatchDone
  <2>2. Accounted(expo[x], exposure)
    BY <1>1, <2>1 DEF IInv, ExposurePart, ExposureBatchOK
  <2>3. c \notin Waiting(expo[x])
    BY <2>1 DEF Waiting
  <2> QED BY <2>2, <2>3 DEF Accounted, Stored, Executable
<1>2. IInv => BatchAccounted
  BY <1>1 DEF BatchAccounted
<1> QED BY <1>2, SyncInvariant, PTL

\* A stored snapshot is never newer than the quantity in Redis, and while it is
\* younger than the key's time to live that quantity is there.
THEOREM SyncCacheNotBehind == Spec => []CacheNotBehind
<1>1. ASSUME IInv, NEW g \in Group, exposure[g].known
      PROVE  IF Cached(g) THEN cache[g].at >= exposure[g].at
             ELSE now - exposure[g].at >= ExposureTTL
  <2>1. GroupOK(g, now, cache, exposure, net)
    BY <1>1 DEF IInv, ExposurePart
  <2>2. /\ now \in Nat /\ ExposureTTL \in Nat
        /\ cache[g].until \in Nat /\ exposure[g].at \in Nat
    BY <1>1, SyncAssumption DEF IInv, WorldPart, ExposurePart, CacheType, ExposureType
  <2> QED BY <1>1, <2>1, <2>2 DEF GroupOK, Covers, Cached
<1>2. IInv => CacheNotBehind
  BY <1>1 DEF CacheNotBehind
<1> QED BY <1>2, SyncInvariant, PTL

\* A row shows "balanced" only for data that was there and within its limits, and
\* only when the calculator would hold.
THEOREM SyncBalancedIsSound == Spec => []BalancedIsSound
<1>1. IInv => BalancedIsSound
  BY DEF IInv, MonitorPart, SoundRow, BalancedIsSound
<1> QED BY <1>1, SyncInvariant, PTL
==============================================================================
