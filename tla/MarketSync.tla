------------------------------ MODULE MarketSync ------------------------------
(***************************************************************************)
(* The catalogue of exchange markets (exchange_markets) and the syncs that *)
(* write it: the scheduler's loop over the active accounts                 *)
(* (MarketSyncService.SyncActiveAccounts) and requests that sync one       *)
(* account they describe themselves (SyncAccount).  A sync reads its       *)
(* accounts and the symbol allowlist, then for each source lists the       *)
(* exchange's markets, upserts what passes the filters and prunes what     *)
(* does not; the steps are separate statements and nothing excludes two    *)
(* syncs.  The accounts are those of ExchangeAccounts.                     *)
(***************************************************************************)
EXTENDS ExchangeAccounts, Sequences, SequencesExt

CONSTANTS Requested,     \* markets/sync requests in flight
          RequestedJobs, \* the accounts they may describe
          Normal,        \* NormalizeMarketSymbol: [spelling -> symbol, "" for none]
          Listings,      \* what the exchange of a source may list: [source -> set of sequences]
          AllowSets,     \* what public.symbol_config may enable
          Budgets        \* bounds of a behaviour: requests on accounts and for syncs,
                         \* failures, changes of listings and allowlist, and whether
                         \* MARKET_SYNC_ENABLED

\* Every exchange that an account may have lists something.
ASSUME MarketsAssumption ==
    /\ Budgets \subseteq [requests : Nat, asked : Nat, failures : Nat, changes : Nat, scheduled : BOOLEAN]
    /\ \A x \in DOMAIN Exchanges : \A c \in Exchanges[x].supported : <<x, c>> \in DOMAIN Listings
    /\ RequestedJobs \subseteq [source : DOMAIN Listings, market : STRING, settle : STRING]
    /\ \A s \in DOMAIN Listings :
          Listings[s] \subseteq Seq([raw : DOMAIN Normal, market : STRING, settle : STRING])
    /\ AllowSets \subseteq SUBSET ({Normal[raw] : raw \in DOMAIN Normal} \ {""})

VARIABLES markets,   \* exchange_markets
          allow,     \* enabled symbols
          listing,   \* what every exchange lists now
          sync,      \* local state of every sync
          scheduled, \* the scheduler runs
          asked, failures, changes  \* bounds: what may still happen

marketVars == <<markets, allow, listing, sync, scheduled, asked, failures, changes>>
vars == <<accountVars, marketVars>>

Syncs == {"scheduler"} \cup Requested
Sources == DOMAIN Listings
Symbols == {Normal[raw] : raw \in DOMAIN Normal} \ {""}

\* A stored market, and the columns that identify it.
Market == [source : Sources, market : MarketTypes \cup {"option", ""}, settle : STRING,
           symbol : Symbols, raw : DOMAIN Normal]
SameMarket(m, n) == /\ m.source = n.source /\ m.market = n.market
                    /\ m.settle = n.settle /\ m.symbol = n.symbol

Resting == [pc |-> "idle", jobs |-> <<>>, allow |-> {}, fetched |-> {}, steady |-> {}]
------------------------------------------------------------------------------
(* One account *)

\* What a sync uses of an account (marketSyncAccountKey, without the account
\* type, product type and category: accounts that differ in nothing else are
\* one job here and are synced twice, to the same rows, by the code).
JobOf(a) == [source |-> <<a.exchange, a.ccxt>>, market |-> a.market, settle |-> a.settle]

\* SyncActiveAccounts: the active accounts in the order of their numbers
\* (ListActiveExchangeAccounts); those that list the same markets are synced
\* once, by the first of them.
ActiveJobs ==
    LET upTo[n \in 0 .. Cardinality(Id)] ==
          IF n = 0 THEN <<>>
          ELSE IF n \in Active /\ JobOf(accounts[n]) \notin ToSet(upTo[n - 1])
          THEN Append(upTo[n - 1], JobOf(accounts[n]))
          ELSE upTo[n - 1]
    IN  upTo[Cardinality(Id)]

\* ExchangeMarketModelsFromMarkets: what the exchange leaves empty is taken
\* from the account. (When the account has no type either, the type is inferred
\* from the entry's flags on saving; a saved account always has one.)
ModelOf(entry, job) ==
    [source |-> job.source, raw |-> entry.raw, symbol |-> Normal[entry.raw],
     market |-> Default(entry.market, job.market), settle |-> Default(entry.settle, job.settle)]
Models(job) == [n \in DOMAIN listing[job.source] |-> ModelOf(listing[job.source][n], job)]

\* PrepareExchangeMarketForSave refuses the whole listing for one bad entry.
Acceptable(models) == \A n \in DOMAIN models : /\ models[n].symbol # ""
                                               /\ models[n].market \in MarketTypes \cup {"option", ""}

\* Mutated: duplicates are kept.
EveryModel(models) == {models[n] : n \in DOMAIN models}

\* dedupeExchangeMarkets: of entries with one identity the last is kept.
LastOfEach(models) ==
    {models[n] : n \in {k \in DOMAIN models :
                          \A l \in DOMAIN models : l > k => ~SameMarket(models[k], models[l])}}

\* filterMarketsByAccountMarketType, filterMarketsByAllowlist.
OfType(ms, job) == {m \in ms : job.market = "" \/ m.market = job.market}
Allowed(ms, on) == {m \in ms : m.symbol \in on}
Wanted(job, on) == Allowed(OfType(LastOfEach(Models(job)), job), on)

\* UpsertExchangeMarkets: ON CONFLICT DO UPDATE.
Upserted(ms, new) == {m \in ms : \A n \in new : ~SameMarket(m, n)} \cup new

\* PruneExchangeMarkets: the rows of this source and settlement asset that are
\* of another type or not enabled; all of them when nothing is enabled.
Pruned(job, on) ==
    {m \in markets : /\ m.source = job.source /\ m.settle = job.settle /\ job.settle # ""
                     /\ (job.market # "" /\ m.market # job.market) \/ m.symbol \notin on}
------------------------------------------------------------------------------
(* Steps of a sync *)

Enter(p, l) == sync' = [sync EXCEPT ![p] = l]

\* The account at hand is done: the next one, or the end.
NextJob(p) ==
    LET rest == Tail(sync[p].jobs)
    IN  Enter(p, IF rest = <<>> THEN Resting
                 ELSE [sync[p] EXCEPT !.pc = "fetch", !.jobs = rest, !.fetched = {}])

Starting(jobs) == [Resting EXCEPT !.pc = "allow", !.jobs = jobs, !.steady = allow]

\* The scheduler's tick: SyncActiveAccounts reads the accounts.
BeginBatch ==
    /\ scheduled
    /\ sync["scheduler"].pc = "idle"
    /\ ActiveJobs # <<>>
    /\ Enter("scheduler", Starting(ActiveJobs))
    /\ UNCHANGED <<accountVars, markets, allow, listing, scheduled, asked, failures, changes>>

\* POST markets/sync: SyncAccount with the account of the request.
BeginRequested(p) ==
    /\ p # "scheduler"
    /\ sync[p].pc = "idle"
    /\ asked > 0
    /\ asked' = asked - 1
    /\ \E job \in RequestedJobs : Enter(p, Starting(<<job>>))
    /\ UNCHANGED <<accountVars, markets, allow, listing, scheduled, failures, changes>>

\* ListEnabledNormalizedSymbols.
LoadAllowlist(p) ==
    /\ sync[p].pc = "allow"
    /\ Enter(p, [sync[p] EXCEPT !.pc = "fetch", !.allow = allow])
    /\ UNCHANGED <<accountVars, markets, allow, listing, scheduled, asked, failures, changes>>

Fails == failures > 0 /\ failures' = failures - 1

\* Mutated: no allowlist is taken for an empty one.
AllowlistEmpty(p) ==
    /\ sync[p].pc = "allow"
    /\ Fails
    /\ Enter(p, [sync[p] EXCEPT !.pc = "fetch", !.allow = {}])
    /\ UNCHANGED <<accountVars, markets, allow, listing, scheduled, asked, changes>>

\* Without the allowlist nothing is synced.
AllowlistFails(p) ==
    /\ sync[p].pc = "allow"
    /\ Fails
    /\ Enter(p, Resting)
    /\ UNCHANGED <<accountVars, markets, allow, listing, scheduled, asked, changes>>

\* FetchMarkets and the filters.
FetchMarkets(p) ==
    /\ sync[p].pc = "fetch"
    /\ LET job == Head(sync[p].jobs)
       IN  /\ Acceptable(Models(job))
           /\ Enter(p, [sync[p] EXCEPT !.pc = "upsert", !.fetched = Wanted(job, sync[p].allow)])
    /\ UNCHANGED <<accountVars, markets, allow, listing, scheduled, asked, failures, changes>>

\* Mutated: the batch ends with the first account that fails.
ListingEndsBatch(p) ==
    /\ sync[p].pc = "fetch"
    /\ ~Acceptable(Models(Head(sync[p].jobs)))
    /\ Enter(p, Resting)
    /\ UNCHANGED <<accountVars, markets, allow, listing, scheduled, asked, failures, changes>>

\* A listing that cannot be prepared is a failure of its account only.
ListingRefused(p) ==
    /\ sync[p].pc = "fetch"
    /\ ~Acceptable(Models(Head(sync[p].jobs)))
    /\ NextJob(p)
    /\ UNCHANGED <<accountVars, markets, allow, listing, scheduled, asked, failures, changes>>

UpsertMarkets(p) ==
    /\ sync[p].pc = "upsert"
    /\ markets' = Upserted(markets, sync[p].fetched)
    /\ Enter(p, [sync[p] EXCEPT !.pc = "prune"])
    /\ UNCHANGED <<accountVars, allow, listing, scheduled, asked, failures, changes>>

PruneMarkets(p) ==
    /\ sync[p].pc = "prune"
    /\ markets' = markets \ Pruned(Head(sync[p].jobs), sync[p].allow)
    /\ NextJob(p)
    /\ UNCHANGED <<accountVars, allow, listing, scheduled, asked, failures, changes>>

\* A call of this account fails; what was done before it stays.
AccountFails(p) ==
    /\ sync[p].pc \in {"fetch", "upsert", "prune"}
    /\ Fails
    /\ NextJob(p)
    /\ UNCHANGED <<accountVars, markets, allow, listing, scheduled, asked, changes>>
------------------------------------------------------------------------------
(* The environment *)

Changes == changes > 0 /\ changes' = changes - 1

\* The platform enables or disables symbols.  A sync under way remembers what
\* was enabled all the time since it began (history).
ChangeAllowlist ==
    /\ Changes
    /\ \E s \in AllowSets \ {allow} :
          /\ allow' = s
          /\ sync' = [p \in Syncs |-> [sync[p] EXCEPT !.steady = @ \cap s]]
    /\ UNCHANGED <<accountVars, markets, listing, scheduled, asked, failures>>

\* An exchange lists or delists.
ChangeListing ==
    /\ Changes
    /\ \E s \in Sources : \E l \in Listings[s] \ {listing[s]} :
          listing' = [listing EXCEPT ![s] = l]
    /\ UNCHANGED <<accountVars, markets, allow, sync, scheduled, asked, failures>>

Init ==
    /\ AccountsInit
    /\ markets = {}
    /\ allow \in AllowSets
    /\ listing \in [Sources -> UNION {Listings[s] : s \in Sources}]
    /\ \A s \in Sources : listing[s] \in Listings[s]
    /\ sync = [p \in Syncs |-> Resting]
    /\ \E b \in Budgets : /\ requests = b.requests /\ asked = b.asked /\ failures = b.failures
                          /\ changes = b.changes /\ scheduled = b.scheduled

Step(p) ==
    \/ LoadAllowlist(p) \/ AllowlistFails(p) \/ FetchMarkets(p) \/ ListingRefused(p)
    \/ UpsertMarkets(p) \/ PruneMarkets(p) \/ AccountFails(p)

Next ==
    \/ AccountsNext /\ UNCHANGED marketVars
    \/ BeginBatch
    \/ \E p \in Syncs : BeginRequested(p) \/ Step(p)
    \/ ChangeAllowlist \/ ChangeListing

Spec == Init /\ [][Next]_vars

\* The scheduler ticks for ever and its calls return: gocron in singleton mode
\* starts the next batch when one is over.
FairSpec == Spec /\ WF_vars(BeginBatch) /\ WF_vars(Step("scheduler"))
------------------------------------------------------------------------------
(* Properties *)

MarketsTypeOK ==
    /\ AccountsTypeOK
    /\ markets \subseteq Market
    /\ \A m, n \in markets : SameMarket(m, n) => m = n
    /\ allow \subseteq Symbols
    /\ \A p \in Syncs : /\ sync[p].pc \in {"idle", "allow", "fetch", "upsert", "prune"}
                        /\ sync[p].fetched \subseteq Market
                        /\ (sync[p].pc = "idle") = (sync[p].jobs = <<>>)

\* A market leaves the catalogue only by a sync of its own source, and only
\* when it is of another type than the account or its symbol was disabled at
\* some time since that sync began: no failure, and no sync of another
\* exchange, empties it.
MarketsLostForCause ==
    [][\A m \in markets \ markets' :
          \/ \E n \in markets' : SameMarket(m, n)
          \/ \E p \in Syncs :
                /\ sync[p].pc = "prune" /\ sync'[p] # sync[p]
                /\ LET job == Head(sync[p].jobs)
                   IN  /\ m.source = job.source
                       /\ m.market # job.market \/ m.symbol \notin sync[p].steady]_vars

\* The catalogue of an account's source: every enabled market it lists is
\* there, and nothing of another type or disabled is.
UpToDate(job) ==
    /\ Wanted(job, allow) \subseteq markets
    /\ Pruned(job, allow) = {}

\* Every source with a proper listing whose accounts agree on the market type;
\* accounts of one source with different types prune each other's markets.
CatalogueRight ==
    LET jobs == ToSet(ActiveJobs)
    IN  \A job \in jobs :
           /\ \A j \in jobs \cup RequestedJobs : j.source = job.source => j.market = job.market
           /\ Acceptable(Models(job))
           => UpToDate(job)

\* With the scheduler, when accounts, listings and allowlist no longer change,
\* the catalogue becomes right and stays right, whatever stale syncs wrote
\* meanwhile and although other sources keep failing.
CatalogueConverges == <>[](scheduled => CatalogueRight)
==============================================================================
