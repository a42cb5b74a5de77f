----------------------------- MODULE SyncMonitor ------------------------------
(***************************************************************************)
(* The three services that keep a picture of the world in PostgreSQL:      *)
(* the exposure sync (internal/service/exposure_sync_service.go with the   *)
(* Redis and ClickHouse readers it calls), the position sync               *)
(* (position_sync_service.go) and the refresh of the hedge monitor         *)
(* (hedge_monitor_service.go) that both end with.                          *)
(*                                                                         *)
(* A caller is a goroutine of one service process: a scheduler's tick or   *)
(* an HTTP request.  Each service serialises its callers with a mutex.  A  *)
(* step is one call to a store together with the computation after it.     *)
(* Between two steps anything may happen, and a caller may be cancelled.   *)
(*                                                                         *)
(* Configurations, groups and accounts are numbered, as the code visits    *)
(* them in the order of their keys.                                        *)
(***************************************************************************)
EXTENDS HedgeMonitor, Sequences

CONSTANTS ExposureCaller,  \* callers of SyncEnabledConfigs
          PositionCaller,  \* callers of PositionSyncService.Sync
          RefreshCaller,   \* callers of HedgeMonitorService.Refresh
          Configs,         \* number of rows of hedge_configs
          GroupOf,         \* configuration -> exposure group (0: not valid)
          SymbolOf,        \* exposure group -> platform symbol
          AccountOf,       \* configuration -> account (0: none of its agent)
          TargetOf,        \* configuration -> normalised target symbol
          Terms,           \* the thresholds, the same for every configuration
          Nets,            \* net exposures of a symbol (ClickHouse)
          Books,           \* the legs an exchange may report for a symbol
          Environment,     \* which of the behaviours below can happen
          PriceMaxAge, ExposureStale, PositionStale,
          ExposureTTL,     \* how long a quantity stays in Redis
          MaxSkew,         \* bound: how far an exchange's clock is ahead
          MaxTime,         \* bound: the clock
          MaxChanges,      \* bound: changes of exposures, books and settings
          MaxFaults,       \* bound: calls that fail and batches that are cancelled
          MaxBatches       \* bound: batches and refreshes begun (0: no bound)

Config == 1 .. Configs
Group == {GroupOf[c] : c \in Config} \ {0}
Symbol == {SymbolOf[g] : g \in Group}
Account == {AccountOf[c] : c \in Config} \ {0}
\* closing, disabled, deleted, global, account: what the management application
\* edits.  book: positions change.  execution: hedge runs end.  runs: the queue
\* and the hedge scheduler work.
Behaviours == {"closing", "disabled", "deleted", "global", "account", "book", "execution",
               "runs"}
Can(b) == b \in Environment

\* The positions that are followed: monitorPositionKey.
Place == {<<AccountOf[c], TargetOf[c]>> : c \in {d \in Config : AccountOf[d] # 0}}

ASSUME SyncAssumption ==
    /\ Configs \in Nat /\ MaxTime \in Nat /\ MaxChanges \in Nat /\ MaxBatches \in Nat /\ MaxFaults \in Nat
    /\ Group \subseteq Nat /\ Account \subseteq Nat
    \* applyHedgeConfigDefaults replaces 0; hedge_configs_ratio_check
    /\ Terms \in ConfigType /\ Terms.enabled /\ Terms.min > 0 /\ Terms.ratio >= 0
    /\ Nets \subseteq Int
    /\ PriceMaxAge \in Nat /\ ExposureStale \in Nat /\ PositionStale \in Nat
    /\ ExposureTTL \in Nat \ {0} /\ MaxSkew \in Nat
    /\ Environment \subseteq Behaviours

VARIABLES now,
          net,       \* ClickHouse: net quantity by symbol, with a version
          price,     \* Redis: when the mark price of a symbol was written
          book,      \* the exchange: legs by place, with a version
          settings,  \* hedge_configs, hedging_settings, exchange_accounts
          failed,    \* configurations whose latest execution failed
          changes,
          faults,
          batches,
          cache,     \* Redis: net exposure by group
          exposure,  \* exposure_snapshots
          position,  \* hedge_position_snapshots
          monitor,   \* hedge_monitor_snapshots
          queue,     \* hedge tasks that wait: at most one per configuration
          ran,       \* exposure version the last run of a configuration read
          expo,      \* local state of the exposure sync's callers
          pos,       \* local state of the position sync's callers
          ref        \* local state of a refresh, by the caller it runs in

worldVars == <<net, price, book, settings, failed, changes>>
storeVars == <<cache, exposure, position, monitor, queue, ran>>
localVars == <<expo, pos, ref>>

vars == <<now, batches, faults, worldVars, storeVars, localVars>>

Caller == ExposureCaller \cup PositionCaller \cup RefreshCaller

\* The rows a configuration's switches are in.
SettingsType == [mode : [Config -> {"active", "closing", "disabled", "deleted"}],
                 global : BOOLEAN, active : SUBSET Account]

Enabled(s, c) == s.mode[c] \in {"active", "closing"}
AccountActive(s, c) == AccountOf[c] \in s.active

\* HedgeMonitorConfig.CanExecute.
CanExecute(s, c) == s.global /\ s.mode[c] = "active" /\ AccountActive(s, c)

\* ListHedgeMonitorConfigs: the rows that are not deleted.
Listed(s) == {c \in Config : s.mode[c] # "deleted"}
------------------------------------------------------------------------------
(* Values *)

Outcomes == {"none", "invalid", "cache", "price", "snapshot", "blocked", "duplicate",
             "enqueued", "enqueue_failed"}

NoExposure == [known |-> FALSE, notional |-> 0, at |-> 0, version |-> 0]
NoPosition == [known |-> FALSE, qty |-> 0, notional |-> 0, at |-> 0, version |-> 0]
NoCache == [known |-> FALSE, qty |-> 0, at |-> 0, until |-> 0]
NoRow == [known |-> FALSE, net |-> 0, target |-> 0, actual |-> 0, health |-> "ok",
          status |-> "observing", at |-> 0,
          exposureAt |-> 0, positionAt |-> 0, seen |-> 0, held |-> 0]
NoNets == [s \in Symbol |-> [qty |-> 0, version |-> 0]]
NoOutcome == [c \in Config |-> "none"]
NoSettings == [mode |-> [c \in Config |-> "deleted"], global |-> FALSE, active |-> {}]

ExpoIdle == [pc |-> "idle", list |-> NoSettings, nets |-> NoNets, group |-> 0, at |-> 0,
             todo |-> {}, out |-> NoOutcome]
PosIdle == [pc |-> "idle", list |-> NoSettings, account |-> 0, read |-> <<>>, at |-> 0, todo |-> {}]
RefIdle == [pc |-> "idle", list |-> NoSettings, exposure |-> <<>>, position |-> <<>>,
            failed |-> {}, at |-> 0, todo |-> {}]

ExposureSteps == {"idle", "aggregate", "cache", "price", "snapshot", "enqueue", "monitor"}
PositionSteps == {"idle", "fetch", "stamp", "upsert", "monitor"}
RefreshSteps == {"idle", "read", "upsert", "prune"}

NetType == [qty : Int, version : Nat]
BookType == [legs : Books, version : Nat]
ExposureType == [known : BOOLEAN, notional : Int, at : Nat, version : Nat]
PositionType == [known : BOOLEAN, qty : Int, notional : Int, at : Nat, version : Nat]
CacheType == [known : BOOLEAN, qty : Int, at : Nat, until : Nat]

\* The local state of a batch of the exposure sync.
ExpoType == [pc : ExposureSteps, list : SettingsType, nets : [Symbol -> NetType],
             group : Nat, at : Nat, todo : SUBSET Config, out : [Config -> Outcomes]]

\* The local state of a batch of the position sync; read are the books of some
\* places.
IsPos(l) ==
    /\ l = [pc |-> l.pc, list |-> l.list, account |-> l.account, read |-> l.read,
            at |-> l.at, todo |-> l.todo]
    /\ l.pc \in PositionSteps /\ l.list \in SettingsType /\ l.account \in Nat
    /\ DOMAIN l.read \subseteq Place /\ \A p \in DOMAIN l.read : l.read[p] \in BookType
    /\ l.at \in Nat /\ l.todo \subseteq Place

\* The local state of a refresh; nothing is read at first.
RefType == [pc : RefreshSteps, list : SettingsType,
            exposure : {<<>>} \cup [Group -> ExposureType],
            position : {<<>>} \cup [Place -> PositionType],
            failed : SUBSET Config, at : Nat, todo : SUBSET Config]

RowTyped(row) ==
    /\ DOMAIN row = DOMAIN NoRow
    /\ row.at \in Nat /\ row.exposureAt \in Nat /\ row.positionAt \in Nat
    /\ row.seen \in Nat /\ row.held \in Nat

TypeOK ==
    /\ now \in Nat \ {0} /\ changes \in Nat /\ batches \in Nat /\ faults \in Nat
    /\ net \in [Symbol -> NetType]
    /\ price \in [Symbol -> Nat]
    /\ book \in [Place -> BookType]
    /\ settings \in SettingsType
    /\ failed \in SUBSET Config /\ queue \in SUBSET Config
    /\ ran \in [Config -> Nat]
    /\ cache \in [Group -> CacheType]
    /\ exposure \in [Group -> ExposureType]
    /\ position \in [Place -> PositionType]
    /\ \A c \in Config : RowTyped(monitor[c])
    /\ \A x \in ExposureCaller : expo[x] \in ExpoType
    /\ \A x \in PositionCaller : IsPos(pos[x])
    /\ \A x \in Caller : ref[x] \in RefType
------------------------------------------------------------------------------
(* The exposure sync *)

\* Mutated: no mutex.
ExposureMutexFreeAlways == TRUE

\* s.mu of ExposureSyncService.
ExposureMutexFree == \A x \in ExposureCaller : expo[x].pc = "idle"

\* Keeps the number of batches bounded.
Count ==
    IF MaxBatches = 0 THEN UNCHANGED batches
    ELSE batches < MaxBatches /\ batches' = batches + 1

Fault == faults < MaxFaults /\ faults' = faults + 1

\* groupExposureConfigs: the groups of the valid configurations.
GroupsOf(list) == {GroupOf[c] : c \in Listed(list)} \ {0}
Members(list, g) == {c \in Listed(list) : GroupOf[c] = g}
Invalid(list) == {c \in Listed(list) : GroupOf[c] = 0}

Least(S) == CHOOSE n \in S : \A m \in S : n <= m

\* Where the batch goes when group g is done: the next key, or the monitor.
NextGroup(l, g) ==
    LET rest == {h \in GroupsOf(l.list) : h > g}
    IN  IF rest = {} THEN [l EXCEPT !.pc = "monitor", !.group = 0, !.todo = {}]
        ELSE [l EXCEPT !.pc = "cache", !.group = Least(rest), !.todo = {}]

\* Mutated: a group that fails ends the batch.
SkipRest(l, stage) == [l EXCEPT !.pc = "monitor", !.group = 0]

\* continue: the configurations of a group that failed are skipped.
SkipGroup(l, stage) ==
    NextGroup([l EXCEPT !.out = [c \in Config |->
                 IF c \in Members(l.list, l.group) THEN stage ELSE l.out[c]]], l.group)

ExposureGoto(x, l) == expo' = [expo EXCEPT ![x] = l]

\* SyncEnabledConfigs: lock and ListHedgeMonitorConfigs.  Without any
\* configuration only the monitor is refreshed.
ExposureBegin(x) ==
    /\ expo[x].pc = "idle"
    /\ ref[x].pc = "idle"
    /\ ExposureMutexFree
    /\ Count
    /\ ExposureGoto(x, [ExpoIdle EXCEPT
            !.pc = IF Listed(settings) = {} THEN "monitor" ELSE "aggregate",
            !.list = settings,
            !.out = [c \in Config |-> IF c \in Invalid(settings) THEN "invalid" ELSE "none"]])
    /\ UNCHANGED <<now, faults, worldVars, storeVars, pos, ref>>

\* ListNetExposures: one query for all symbols.  A symbol without positions is
\* missing in its answer and counts as zero.
Aggregate(x) ==
    /\ expo[x].pc = "aggregate"
    /\ ExposureGoto(x, NextGroup([expo[x] EXCEPT !.nets = net], 0))
    /\ UNCHANGED <<now, batches, faults, worldVars, storeVars, pos, ref>>

\* The key of group g is in Redis; one without a time to live (until = 0) stays.
Cached(g) == cache[g].known /\ (cache[g].until = 0 \/ now < cache[g].until)

\* HSET of SaveNetExposure, in a key that is there until then.
HSet(l, until) ==
    cache' = [cache EXCEPT ![l.group] = [known |-> TRUE, qty |-> l.nets[SymbolOf[l.group]].qty,
                                         at |-> now, until |-> until]]

\* SaveNetExposure: HSET, then EXPIRE.
SaveNetExposure(x) ==
    /\ expo[x].pc = "cache"
    /\ HSet(expo[x], now + ExposureTTL)
    /\ ExposureGoto(x, [expo[x] EXCEPT !.pc = "price", !.at = now])
    /\ UNCHANGED <<now, batches, faults, worldVars, exposure, position, monitor, queue, ran, pos, ref>>

\* SaveNetExposure: only EXPIRE fails.  The quantity is there all the same, for
\* as long as the key had to live or, in a new key, for good, and the group is
\* skipped.
ExpireFails(x) ==
    /\ Fault
    /\ expo[x].pc = "cache"
    /\ LET g == expo[x].group
       IN  HSet(expo[x], IF Cached(g) THEN cache[g].until ELSE 0)
    /\ ExposureGoto(x, SkipGroup(expo[x], "cache"))
    /\ UNCHANGED <<now, batches, worldVars, exposure, position, monitor, queue, ran, pos, ref>>

\* FetchMarkPrice: the price is not older than PriceMaxAge.
PriceUsable(s) == now - price[s] <= PriceMaxAge

FetchMarkPrice(x) ==
    /\ expo[x].pc = "price"
    /\ PriceUsable(SymbolOf[expo[x].group])
    /\ ExposureGoto(x, [expo[x] EXCEPT !.pc = "snapshot"])
    /\ UNCHANGED <<now, batches, faults, worldVars, storeVars, pos, ref>>

\* FetchMarkPrice: the price is stale.
StalePrice(x) ==
    /\ expo[x].pc = "price"
    /\ ~PriceUsable(SymbolOf[expo[x].group])
    /\ ExposureGoto(x, SkipGroup(expo[x], "price"))
    /\ UNCHANGED <<now, batches, faults, worldVars, storeVars, pos, ref>>

\* Mutated: a quantity that cannot be cached is only noted.
GroupFailsSoftly(x) ==
    /\ Fault
    /\ expo[x].pc \in {"cache", "price", "snapshot"}
    /\ ExposureGoto(x, IF expo[x].pc = "cache" THEN [expo[x] EXCEPT !.pc = "price", !.at = now]
                       ELSE SkipGroup(expo[x], expo[x].pc))
    /\ UNCHANGED <<now, batches, worldVars, storeVars, pos, ref>>

\* A group fails: Redis does not take the quantity, the price is missing, in
\* the future or not a number, or PostgreSQL does not take the row.
GroupFails(x) ==
    /\ Fault
    /\ expo[x].pc \in {"cache", "price", "snapshot"}
    /\ ExposureGoto(x, SkipGroup(expo[x], expo[x].pc))
    /\ UNCHANGED <<now, batches, worldVars, storeVars, pos, ref>>

\* upsertExposureSnapshot: every column of the conflicting row is replaced.
\* The mark price is 1, so a quantity is its notional.
ExposureRow(old, l) ==
    [known |-> TRUE, notional |-> l.nets[SymbolOf[l.group]].qty, at |-> l.at,
     version |-> l.nets[SymbolOf[l.group]].version]

\* Mutated: only a snapshot that differs from the last one asks for runs.
UpsertIfChanged(x) ==
    /\ expo[x].pc = "snapshot"
    /\ LET l == expo[x]
       IN  /\ exposure' = [exposure EXCEPT ![l.group] = ExposureRow(@, l)]
           /\ ExposureGoto(x, IF exposure[l.group].known
                                /\ exposure[l.group].version = exposure'[l.group].version
                             THEN SkipGroup(l, "duplicate")
                             ELSE [l EXCEPT !.pc = "enqueue", !.todo = Members(l.list, l.group)])
    /\ UNCHANGED <<now, batches, faults, worldVars, cache, position, monitor, queue, ran, pos, ref>>

UpsertExposureSnapshot(x) ==
    /\ expo[x].pc = "snapshot"
    /\ LET l == expo[x]
       IN  /\ exposure' = [exposure EXCEPT ![l.group] = ExposureRow(@, l)]
           /\ ExposureGoto(x, [l EXCEPT !.pc = "enqueue", !.todo = Members(l.list, l.group)])
    /\ UNCHANGED <<now, batches, faults, worldVars, cache, position, monitor, queue, ran, pos, ref>>

\* The batch after configuration c of the current group had outcome o.
AfterConfig(l, c, o) ==
    LET done == [l EXCEPT !.out[c] = o, !.todo = @ \ {c}]
    IN  IF done.todo = {} THEN NextGroup(done, l.group) ELSE done

\* EnqueueRunHedge for the next configuration of the group.  asynq.Unique
\* rejects a task while one of the same configuration is waiting.
Enqueue(x) ==
    /\ expo[x].pc = "enqueue"
    /\ LET l == expo[x]
           c == Least(l.todo)
           o == IF ~CanExecute(l.list, c) THEN "blocked"
                ELSE IF c \in queue THEN "duplicate" ELSE "enqueued"
       IN  /\ queue' = IF o = "enqueued" THEN queue \cup {c} ELSE queue
           /\ ExposureGoto(x, AfterConfig(l, c, o))
    /\ UNCHANGED <<now, batches, faults, worldVars, cache, exposure, position, monitor, ran, pos, ref>>

\* EnqueueRunHedge: the queue does not take the task.
EnqueueFails(x) ==
    /\ Fault
    /\ expo[x].pc = "enqueue"
    /\ LET c == Least(expo[x].todo)
       IN  /\ CanExecute(expo[x].list, c)
           /\ ExposureGoto(x, AfterConfig(expo[x], c, "enqueue_failed"))
    /\ UNCHANGED <<now, batches, worldVars, storeVars, pos, ref>>
------------------------------------------------------------------------------
(* The position sync *)

\* s.mu of PositionSyncService.
PositionMutexFree == \A x \in PositionCaller : pos[x].pc = "idle"

PositionGoto(x, l) == pos' = [pos EXCEPT ![x] = l]

\* groupPositionSyncAccounts, of the active accounts.
SyncedAccounts(list) ==
    {AccountOf[c] : c \in {d \in Listed(list) : AccountActive(list, d)}}
PlacesOf(list, a) ==
    {<<a, TargetOf[c]>> : c \in {d \in Listed(list) : AccountOf[d] = a}}

\* The next account, or the monitor.
NextAccount(l, a) ==
    LET rest == {b \in SyncedAccounts(l.list) : b > a}
    IN  IF rest = {} THEN [l EXCEPT !.pc = "monitor", !.account = 0, !.read = <<>>, !.todo = {}]
        ELSE [l EXCEPT !.pc = "fetch", !.account = Least(rest), !.read = <<>>, !.todo = {}]

\* Sync: lock, ListHedgeMonitorConfigs, grouping.
PositionBegin(x) ==
    /\ pos[x].pc = "idle"
    /\ ref[x].pc = "idle"
    /\ PositionMutexFree
    /\ Count
    /\ PositionGoto(x, NextAccount([PosIdle EXCEPT !.list = settings], 0))
    /\ UNCHANGED <<now, faults, worldVars, storeVars, expo, ref>>

\* signedExchangePositionQuantity.
SignedQuantity(leg) == CASE leg.side = "SHORT" -> -Abs(leg.qty)
                         [] leg.side = "LONG"  -> Abs(leg.qty)
                         [] OTHER              -> leg.qty

\* signedExchangePositionNotional.
SignedNotional(leg) ==
    LET q == SignedQuantity(leg)
        n == IF leg.notional = 0 /\ leg.mark > 0 THEN Abs(q) * leg.mark ELSE leg.notional
    IN  Sign(q) * Abs(n)

\* aggregate.quantity and aggregate.notional are added up leg by leg.
AddUp(amounts) ==
    LET upTo[n \in 0 .. Len(amounts)] == IF n = 0 THEN 0 ELSE upTo[n - 1] + amounts[n]
    IN  upTo[Len(amounts)]

Quantities(legs) == [n \in 1 .. Len(legs) |-> SignedQuantity(legs[n])]
Notionals(legs) == [n \in 1 .. Len(legs) |-> SignedNotional(legs[n])]

\* Mutated: a symbol the exchange does not report keeps no aggregate.
AggregateReported(legs) ==
    [known |-> legs # <<>>, qty |-> AddUp(Quantities(legs)), notional |-> AddUp(Notionals(legs))]

\* The aggregate of a configured symbol starts at zero and takes every leg.
AggregateLegs(legs) ==
    [known |-> TRUE, qty |-> AddUp(Quantities(legs)), notional |-> AddUp(Notionals(legs))]

\* Quantities, notionals and marks are decimals.
ASSUME BooksAssumption ==
    Books \subseteq Seq([side : STRING, qty : Int, notional : Int, mark : Int])

\* syncAccount: FetchPositions, one call for all symbols of the account.
FetchPositions(x) ==
    /\ pos[x].pc = "fetch"
    /\ PositionGoto(x, [pos[x] EXCEPT !.pc = "stamp",
            !.read = [p \in PlacesOf(pos[x].list, pos[x].account) |-> book[p]]])
    /\ UNCHANGED <<now, batches, faults, worldVars, storeVars, expo, ref>>

\* syncAccount: now is taken when the answer is there.
StampPositions(x) ==
    /\ pos[x].pc = "stamp"
    /\ PositionGoto(x, [pos[x] EXCEPT !.pc = "upsert", !.at = now, !.todo = DOMAIN pos[x].read])
    /\ UNCHANGED <<now, batches, faults, worldVars, storeVars, expo, ref>>

\* syncAccount: a leg's own UpdatedAt counts when it is later than now, which it
\* is if the exchange's clock is ahead.  A symbol without legs was observed now.
ObservedAt(legs, n) == IF legs = <<>> THEN {n} ELSE n .. (n + MaxSkew)

\* syncAccount: UpsertHedgePositionSnapshot, in the order of a Go map.
UpsertPosition(x) ==
    /\ pos[x].pc = "upsert"
    /\ \E p \in pos[x].todo : \E n \in ObservedAt(pos[x].read[p].legs, pos[x].at) :
          LET l == pos[x]
              a == AggregateLegs(l.read[p].legs)
          IN  /\ position' = [position EXCEPT ![p] =
                    IF a.known THEN [known |-> TRUE, qty |-> a.qty, notional |-> a.notional,
                                     at |-> n, version |-> l.read[p].version]
                    ELSE @]
              /\ PositionGoto(x, IF l.todo = {p} THEN NextAccount(l, l.account)
                                 ELSE [l EXCEPT !.todo = @ \ {p}])
    /\ UNCHANGED <<now, batches, faults, worldVars, cache, exposure, monitor, queue, ran, expo, ref>>

\* Credentials that cannot be read, a failing fetch or upsert: what is left of
\* this account is given up, the next one is tried.
AccountFails(x) ==
    /\ Fault
    /\ pos[x].pc \in {"fetch", "upsert"}
    /\ PositionGoto(x, NextAccount(pos[x], pos[x].account))
    /\ UNCHANGED <<now, batches, worldVars, storeVars, expo, ref>>
------------------------------------------------------------------------------
(* The monitor *)

\* s.mu of HedgeMonitorService.
MonitorMutexFree == \A x \in Caller : ref[x].pc = "idle"

RefreshGoto(x, l) == ref' = [ref EXCEPT ![x] = l]

\* The caller has come to its refresh.
Refreshes(x) ==
    \/ x \in ExposureCaller /\ expo[x].pc = "monitor"
    \/ x \in PositionCaller /\ pos[x].pc = "monitor"
    \/ x \in RefreshCaller

\* The caller's batch ends with its refresh, and its own mutex is released.
BatchOver(x) ==
    /\ expo' = IF x \in ExposureCaller THEN [expo EXCEPT ![x] = ExpoIdle] ELSE expo
    /\ pos' = IF x \in PositionCaller THEN [pos EXCEPT ![x] = PosIdle] ELSE pos

\* Refresh: lock and ListHedgeMonitorConfigs.
RefreshBegin(x) ==
    /\ Refreshes(x)
    /\ ref[x].pc = "idle"
    /\ MonitorMutexFree
    /\ IF x \in RefreshCaller THEN Count ELSE UNCHANGED batches
    /\ RefreshGoto(x, [RefIdle EXCEPT !.pc = "read", !.list = settings])
    /\ UNCHANGED <<now, faults, worldVars, storeVars, expo, pos>>

\* ListAllExposureSnapshots, ListAllHedgePositionSnapshots and
\* ListLatestOrderExecutionStates; then now.
RefreshRead(x) ==
    /\ ref[x].pc = "read"
    /\ RefreshGoto(x, [ref[x] EXCEPT
            !.pc = IF Listed(ref[x].list) = {} THEN "prune" ELSE "upsert",
            !.exposure = exposure, !.position = position, !.failed = failed,
            !.at = now, !.todo = Listed(ref[x].list)])
    /\ UNCHANGED <<now, batches, faults, worldVars, storeVars, expo, pos>>

\* The row the refresh computes for configuration c.
RowFor(l, c) ==
    LET e == IF GroupOf[c] = 0 THEN NoExposure ELSE l.exposure[GroupOf[c]]
        p == IF AccountOf[c] = 0 THEN NoPosition ELSE l.position[<<AccountOf[c], TargetOf[c]>>]
        row == MonitorSnapshot(Terms, l.list.global, Enabled(l.list, c),
                               AccountActive(l.list, c),
                               IF c \in l.failed THEN "failed" ELSE "none",
                               e, p, l.at, ExposureStale, PositionStale)
    IN  [f \in DOMAIN NoRow |-> CASE f = "exposureAt" -> e.at
                                  [] f = "positionAt" -> p.at
                                  [] f = "seen" -> e.version
                                  [] f = "held" -> p.version
                                  [] OTHER      -> row[f]]

AfterUpsert(l, c) ==
    IF l.todo = {c} THEN [RefIdle EXCEPT !.pc = "prune"] ELSE [l EXCEPT !.todo = @ \ {c}]

\* UpsertHedgeMonitorSnapshot, in the order of the configurations.
RefreshUpsert(x) ==
    /\ ref[x].pc = "upsert"
    /\ LET c == Least(ref[x].todo)
       IN  /\ monitor' = [monitor EXCEPT ![c] = RowFor(ref[x], c)]
           /\ RefreshGoto(x, AfterUpsert(ref[x], c))
    /\ UNCHANGED <<now, batches, faults, worldVars, cache, exposure, position, queue, ran, expo, pos>>

\* A row that cannot be written is noted, and the next one is tried.
RefreshUpsertFails(x) ==
    /\ Fault
    /\ ref[x].pc = "upsert"
    /\ RefreshGoto(x, AfterUpsert(ref[x], Least(ref[x].todo)))
    /\ UNCHANGED <<now, batches, worldVars, storeVars, expo, pos>>

\* PruneHedgeMonitorSnapshots: rows without a live configuration, by what the
\* table says now.
PrunedRows == Config \ Listed(settings)

RefreshPrune(x) ==
    /\ ref[x].pc = "prune"
    /\ monitor' = [c \in Config |-> IF c \in PrunedRows THEN NoRow ELSE monitor[c]]
    /\ RefreshGoto(x, RefIdle)
    /\ BatchOver(x)
    /\ UNCHANGED <<now, batches, faults, worldVars, cache, exposure, position, queue, ran>>

\* The caller gives up: a query without which there is nothing to do failed,
\* or its context is over.
Cancel(x) ==
    /\ Fault
    /\ \/ x \in ExposureCaller /\ expo[x].pc # "idle"
       \/ x \in PositionCaller /\ pos[x].pc # "idle"
       \/ x \in RefreshCaller /\ ref[x].pc # "idle"
    /\ BatchOver(x)
    /\ RefreshGoto(x, RefIdle)
    /\ UNCHANGED <<now, batches, worldVars, storeVars>>
------------------------------------------------------------------------------
(* The world around the three services *)

\* A queue worker runs a configuration: it reads the snapshot that is there.
RunTask(c) ==
    /\ Can("runs")
    /\ c \in queue
    /\ queue' = queue \ {c}
    /\ ran' = [ran EXCEPT ![c] = IF GroupOf[c] = 0 THEN @ ELSE exposure[GroupOf[c]].version]
    /\ UNCHANGED <<now, batches, faults, worldVars, cache, exposure, position, monitor, localVars>>

\* enqueueEnabledConfigs of the hedge scheduler, which does not look whether
\* there is a snapshot.
ScheduleRun(c) ==
    /\ Can("runs")
    /\ CanExecute(settings, c)
    /\ queue' = queue \cup {c}
    /\ UNCHANGED <<now, batches, faults, worldVars, cache, exposure, position, monitor, ran, localVars>>

Tick ==
    /\ now < MaxTime
    /\ now' = now + 1
    /\ UNCHANGED <<batches, faults, worldVars, storeVars, localVars>>

\* The price service writes a mark price with the current time.
FeedPrice(s) ==
    /\ price' = [price EXCEPT ![s] = now]
    /\ UNCHANGED <<now, batches, faults, net, book, settings, failed, changes, storeVars, localVars>>

Change == changes < MaxChanges /\ changes' = changes + 1

\* Positions of the platform's users change.
ChangeNet(s) ==
    /\ Change
    /\ \E q \in Nets \ {net[s].qty} :
          net' = [net EXCEPT ![s] = [qty |-> q, version |-> changes']]
    /\ UNCHANGED <<now, batches, faults, price, book, settings, failed, storeVars, localVars>>

\* The account's position on the exchange changes.
ChangeBook(p) ==
    /\ Can("book")
    /\ Change
    /\ \E b \in Books \ {book[p].legs} :
          book' = [book EXCEPT ![p] = [legs |-> b, version |-> changes']]
    /\ UNCHANGED <<now, batches, faults, net, price, settings, failed, storeVars, localVars>>

\* The management application edits a configuration (what is deleted stays
\* so), the agent's switch or an account's status.
EditSettings ==
    /\ Change
    /\ \/ \E c \in Listed(settings), m \in Environment \cap {"closing", "disabled", "deleted"} :
            settings' = [settings EXCEPT !.mode[c] = IF @ = m THEN "active" ELSE m]
       \/ Can("global") /\ settings' = [settings EXCEPT !.global = ~@]
       \/ /\ Can("account")
          /\ \E a \in Account : settings' = [settings EXCEPT
                !.active = IF a \in @ THEN @ \ {a} ELSE @ \cup {a}]
    /\ UNCHANGED <<now, batches, faults, net, price, book, failed, storeVars, localVars>>

\* An execution becomes the latest one of its configuration.
FinishExecution(c) ==
    /\ Can("execution")
    /\ Change
    /\ failed' = IF c \in failed THEN failed \ {c} ELSE failed \cup {c}
    /\ UNCHANGED <<now, batches, faults, net, price, book, settings, storeVars, localVars>>
------------------------------------------------------------------------------
Init ==
    /\ now = 1
    /\ \E q \in Nets : net = [s \in Symbol |-> [qty |-> q, version |-> 0]]
    /\ price = [s \in Symbol |-> 1]
    /\ \E b \in Books : book = [p \in Place |-> [legs |-> b, version |-> 0]]
    /\ settings = [mode |-> [c \in Config |-> "active"], global |-> TRUE, active |-> Account]
    /\ failed = {}
    /\ changes = 0
    /\ batches = 0 /\ faults = 0
    /\ cache = [g \in Group |-> NoCache]
    /\ exposure = [g \in Group |-> NoExposure]
    /\ position = [p \in Place |-> NoPosition]
    /\ monitor = [c \in Config |-> NoRow]
    /\ queue = {}
    /\ ran = [c \in Config |-> 0]
    /\ expo = [x \in ExposureCaller |-> ExpoIdle]
    /\ pos = [x \in PositionCaller |-> PosIdle]
    /\ ref = [x \in Caller |-> RefIdle]

ExposureStep(x) ==
    \/ Aggregate(x) \/ SaveNetExposure(x) \/ ExpireFails(x) \/ FetchMarkPrice(x) \/ StalePrice(x)
    \/ UpsertExposureSnapshot(x) \/ GroupFails(x) \/ Enqueue(x) \/ EnqueueFails(x)

PositionStep(x) == FetchPositions(x) \/ StampPositions(x) \/ UpsertPosition(x) \/ AccountFails(x)

RefreshStep(x) ==
    \/ RefreshRead(x) \/ RefreshUpsert(x) \/ RefreshUpsertFails(x) \/ RefreshPrune(x)

World ==
    \/ Tick
    \/ \E s \in Symbol : FeedPrice(s) \/ ChangeNet(s)
    \/ \E p \in Place : ChangeBook(p)
    \/ EditSettings
    \/ \E c \in Config : FinishExecution(c) \/ RunTask(c) \/ ScheduleRun(c)

Next ==
    \/ \E x \in ExposureCaller : ExposureBegin(x) \/ ExposureStep(x)
    \/ \E x \in PositionCaller : PositionBegin(x) \/ PositionStep(x)
    \/ \E x \in Caller : RefreshBegin(x) \/ RefreshStep(x) \/ Cancel(x)
    \/ World

Spec == Init /\ [][Next]_vars
------------------------------------------------------------------------------
(* Properties *)

\* What the syncs write is never older than what it replaces: the versions of
\* exposure, position and monitor rows only grow, although batches are long, fail
\* half-way and are started by ticks and by requests, and so do their stamps, but
\* for observed_at of a position, which is the exchange's time or the service's
\* and goes back by what the one is ahead of the other.  (A pruned row begins anew.)
NeverRegress ==
    [][/\ \A g \in Group : /\ exposure'[g].version >= exposure[g].version
                          /\ exposure'[g].at >= exposure[g].at
       /\ \A p \in Place : /\ position'[p].version >= position[p].version
                          /\ position'[p].at + MaxSkew >= position[p].at
       /\ \A c \in Config : monitor'[c].known =>
             /\ monitor'[c].at >= monitor[c].at
             /\ monitor'[c].seen >= monitor[c].seen
             /\ monitor'[c].held >= monitor[c].held]_vars

\* The batch of x has come to its end.
BatchDone(x) == expo[x].pc = "monitor"

\* A batch of the exposure sync that comes to its refresh has dealt with every
\* configuration it listed, whatever failed before: a run is asked for (or
\* refused by the queue) only after the group's snapshot was stored from this
\* batch's query, and every configuration of a group that failed is skipped.
BatchAccounted ==
    \A x \in ExposureCaller : BatchDone(x) =>
       \A c \in Config :
          LET o == expo[x].out[c]
          IN  /\ o = "none" <=> c \notin Listed(expo[x].list)
              /\ o \in {"blocked", "duplicate", "enqueued", "enqueue_failed"} =>
                    exposure[GroupOf[c]].version = expo[x].nets[SymbolOf[GroupOf[c]]].version
              /\ o \in {"duplicate", "enqueued", "enqueue_failed"} => CanExecute(expo[x].list, c)

\* Readers of Redis never see an older quantity than readers of PostgreSQL, nor
\* nothing at all while the row is younger than ExposureTTL: the cache is written
\* first, and a group whose cache cannot be written, or whose key cannot be given
\* a time to live, gets no snapshot.
CacheNotBehind ==
    \A g \in Group : exposure[g].known =>
       IF Cached(g) THEN cache[g].at >= exposure[g].at
       ELSE now - exposure[g].at >= ExposureTTL

\* A row that says "balanced" was calculated from an exposure and a position
\* that were both there and within their own limits when it was calculated, of
\* a configuration that was switched on, and what it shows needs no order.
BalancedIsSound ==
    \A c \in Config : monitor[c].status = "balanced" =>
       /\ monitor[c].exposureAt > 0 /\ monitor[c].at - monitor[c].exposureAt <= ExposureStale
       /\ monitor[c].positionAt > 0 /\ monitor[c].at - monitor[c].positionAt <= PositionStale
       /\ Calculate(Terms, monitor[c].net, 1,
                    [quantity |-> monitor[c].actual, notional |-> monitor[c].actual]).action
            = "hold"
------------------------------------------------------------------------------
(* Liveness *)

\* The schedulers start their batches again and again, a batch that runs goes
\* on (the faults that stop it are bounded), the queue hands out its tasks, and
\* prices are published.
FairSpec ==
    /\ Spec
    /\ \A x \in ExposureCaller : WF_vars(ExposureBegin(x) \/ ExposureStep(x))
    /\ \A x \in PositionCaller : WF_vars(PositionBegin(x) \/ PositionStep(x))
    /\ \A x \in Caller : SF_vars(RefreshBegin(x)) /\ WF_vars(RefreshStep(x))
    /\ \A s \in Symbol : WF_vars(FeedPrice(s))
    /\ \A c \in Config : WF_vars(RunTask(c))

\* When exposures, books and settings stop changing, the monitor comes to show
\* them and goes on showing them: a position that was closed does not stay, nor
\* does the row of a configuration that was deleted.
MonitorConverges ==
    \A c \in Config :
       <>[](IF settings.mode[c] = "deleted" THEN ~monitor[c].known
            ELSE AccountActive(settings, c) /\ GroupOf[c] # 0 =>
                 /\ monitor[c].net = net[SymbolOf[GroupOf[c]]].qty
                 /\ monitor[c].actual = SignedPositionNotional(
                        AggregateLegs(book[<<AccountOf[c], TargetOf[c]>>].legs)))

\* An exposure that stays reaches a run of every configuration that may
\* execute, in spite of duplicates and of groups that fail before.
ExposureReachesRun ==
    \A c \in Config :
       <>[](CanExecute(settings, c) /\ GroupOf[c] # 0 =>
               ran[c] = net[SymbolOf[GroupOf[c]]].version)
==============================================================================
