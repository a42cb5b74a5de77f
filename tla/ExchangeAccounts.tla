--------------------------- MODULE ExchangeAccounts ---------------------------
(***************************************************************************)
(* The exchange accounts of one agent: the requests of                     *)
(* internal/httpapi/exchange_accounts.go and the transactions of           *)
(* internal/db/mgmt/repository.go behind them, at PostgreSQL's READ        *)
(* COMMITTED.  A transaction reads its account without locking it, may     *)
(* clear the primary mark of others (locking those rows until it ends) and *)
(* then writes the whole row it has read; nothing it did is seen before    *)
(* it commits.                                                             *)
(***************************************************************************)
EXTENDS Integers, FiniteSets

CONSTANTS Id,           \* numbers of accounts
          Request,      \* requests that may run at the same time
          Exchanges,    \* exchangeDefaultsByKey: [exchange ->
                        \* [ccxt, market, settle, supported]]
          Offers,       \* accounts that requests may create: rows with empty fields
          Patches,      \* what update requests may set: records of some fields
          Created       \* accounts there are at the start: sequences of rows

ASSUME AccountsAssumption ==
    /\ IsFiniteSet(Id) /\ Id = 1 .. Cardinality(Id)
    /\ \A x \in DOMAIN Exchanges : /\ Exchanges[x].ccxt \in Exchanges[x].supported
                                  /\ Exchanges[x].supported \subseteq STRING
                                  /\ Exchanges[x].settle \in STRING

VARIABLES accounts,  \* exchange_accounts
          req,       \* local state of every request
          requests   \* bound: how many requests may still begin

accountVars == <<accounts, req, requests>>

MarketTypes == {"spot", "margin", "swap", "future"}
Row == [live : BOOLEAN, exchange : DOMAIN Exchanges, name : STRING, ccxt : STRING,
        market : MarketTypes, settle : STRING, status : {"active", "disabled"}, primary : BOOLEAN]
Columns == {"live", "exchange", "name", "ccxt", "market", "settle", "status", "primary"}
IsRow(row) == /\ row = [f \in Columns |-> row[f]]
              /\ row.live \in BOOLEAN /\ row.primary \in BOOLEAN
\* What a saved row has of the checks of PrepareExchangeAccountForSave that matter
\* here, and the types of the columns.  (The list of CCXT ids it checks is that of
\* the exchange's name; the mode, window and JSON checks are left out.)
Prepared(row) ==
    /\ row.exchange \in DOMAIN Exchanges /\ row.ccxt \in Exchanges[row.exchange].supported
    /\ row.name \in STRING /\ row.settle \in STRING
    /\ row.market \in MarketTypes /\ row.status \in {"active", "disabled"}
NoAccount == [live |-> FALSE, exchange |-> "none"]
Idle == [pc |-> "idle", op |-> "none", id |-> 0, row |-> NoAccount, cleared |-> {},
         demotes |-> FALSE, raced |-> FALSE]

Live == {i \in Id : accounts[i].live}
Primaries == {i \in Live : accounts[i].primary}
Active == {i \in Live : accounts[i].status = "active"}
------------------------------------------------------------------------------
(* Values *)

Default(value, default) == IF value = "" THEN default ELSE value

\* PrepareExchangeAccountForSave: defaults for what is empty ...
WithDefaults(row) ==
    LET d == Exchanges[row.exchange]
    IN  [row EXCEPT !.ccxt = Default(row.ccxt, d.ccxt), !.market = Default(row.market, d.market),
                    !.settle = Default(row.settle, d.settle),
                    !.status = Default(row.status, "active")]

\* ... and the checks.
Valid(row) ==
    /\ row.exchange \in DOMAIN Exchanges
    /\ LET r == WithDefaults(row)
       IN  /\ r.ccxt \in Exchanges[r.exchange].supported
           /\ r.market \in MarketTypes
           /\ r.status \in {"active", "disabled"}
           /\ r.name # ""

\* ApplyExchangeAccountPatch: only the fields the patch has.
Patched(row, patch) ==
    [f \in DOMAIN row |-> IF f \in DOMAIN patch THEN patch[f] ELSE row[f]]
------------------------------------------------------------------------------
(* Requests *)

Goto(r, l) == req' = [req EXCEPT ![r] = l]

\* The transaction of r is at its first write: other primaries are cleared
\* before an account becomes primary.
Write(r, op, i, row, demotes) ==
    Goto(r, [pc |-> IF op # "delete" /\ row.primary THEN "clear" ELSE "save", op |-> op,
             id |-> i, row |-> row, cleared |-> {}, demotes |-> demotes, raced |-> FALSE])

Arrives(r) ==
    /\ req[r].pc = "idle"
    /\ requests > 0
    /\ requests' = requests - 1
    /\ UNCHANGED accounts

\* createExchangeAccount.
Create(r) ==
    /\ Arrives(r)
    /\ \E row \in Offers : /\ Valid(row)
                           /\ Write(r, "create", 0, WithDefaults(row), FALSE)

\* UpdateExchangeAccount: First and ApplyExchangeAccountPatch.
Update(r) ==
    /\ Arrives(r)
    /\ \E i \in Live, patch \in Patches :
          LET row == Patched(accounts[i], patch)
          IN  /\ Valid(row)
              /\ Write(r, "update", i, WithDefaults(row),
                       "primary" \in DOMAIN patch /\ ~patch.primary)

\* An account or a patch that does not pass the checks changes nothing.
Refused(r) ==
    /\ Arrives(r)
    /\ \/ \E row \in Offers : ~Valid(row)
       \/ \E i \in Live, patch \in Patches : ~Valid(Patched(accounts[i], patch))
    /\ UNCHANGED req

\* SetPrimaryExchangeAccount: First and the check of the status.
SetPrimary(r) ==
    /\ Arrives(r)
    /\ \E i \in Live :
          /\ accounts[i].status # "disabled"
          /\ Write(r, "set_primary", i, [accounts[i] EXCEPT !.primary = TRUE], FALSE)

\* DeleteExchangeAccount: First.
Delete(r) ==
    /\ Arrives(r)
    /\ \E i \in Live : Write(r, "delete", i, accounts[i], FALSE)

\* Rows another transaction has written and not committed.
Locked(r) == UNION {req[q].cleared : q \in Request \ {r}}

\* Mutated: the update of an account clears no other one.
ToClearNone(r) == {}

\* The rows whose primary mark has to go: not the own one of an update.
ToClear(r) == IF req[r].op = "update" THEN Primaries \ {req[r].id} ELSE Primaries

\* Mutated: the marks are cleared outside of the transaction.
ClearAtOnce(r) ==
    /\ req[r].pc = "clear"
    /\ ToClear(r) \cap Locked(r) = {}
    /\ accounts' = [i \in Id |-> IF i \in ToClear(r) THEN [accounts[i] EXCEPT !.primary = FALSE]
                                 ELSE accounts[i]]
    /\ Goto(r, [req[r] EXCEPT !.pc = "save"])
    /\ UNCHANGED requests

\* UPDATE ... SET is_primary = false.  It waits for rows that are locked.
ClearPrimaries(r) ==
    /\ req[r].pc = "clear"
    /\ ToClear(r) \cap Locked(r) = {}
    /\ Goto(r, [req[r] EXCEPT !.pc = "save", !.cleared = ToClear(r)])
    /\ UNCHANGED <<accounts, requests>>

\* The number of a new account is given by the database when it is written;
\* 0 when all of Id is used (a bound of the model).
Free == {i \in Id : accounts[i] = NoAccount}
RowId(r) ==
    IF req[r].op # "create" THEN req[r].id
    ELSE IF Free = {} THEN 0 ELSE CHOOSE i \in Free : \A j \in Free : i <= j

\* The table when the transaction of r commits.  Save writes every column of
\* the row that was read; a row that was deleted meanwhile is not matched by
\* its UPDATE, and is inserted again (gorm).
After(r) ==
    [i \in Id |->
       IF i = RowId(r)
       THEN IF req[r].op = "delete" THEN [accounts[i] EXCEPT !.live = FALSE]
            ELSE [req[r].row EXCEPT !.live = TRUE]
       ELSE IF i \in req[r].cleared THEN [accounts[i] EXCEPT !.primary = FALSE]
       ELSE accounts[i]]

\* The unique indexes on (agent, exchange, name) and on the agent's primary.
NamesUnique(t) ==
    \A i, j \in Id : t[i].live /\ t[j].live /\ t[i].exchange = t[j].exchange
                     /\ t[i].name = t[j].name => i = j
OnePrimaryIn(t) ==
    \A i, j \in Id : t[i].live /\ t[j].live /\ t[i].primary /\ t[j].primary => i = j

\* The table that rows make, and what the database and the handlers guarantee
\* of the rows there are at the start and of those that requests bring.
TableOf(rows) == [i \in Id |-> IF i \in DOMAIN rows THEN rows[i] ELSE NoAccount]

ASSUME RowsAssumption ==
    /\ \A row \in Offers : IsRow(row) /\ row.name \in STRING /\ row.settle \in STRING
    /\ \A rows \in Created : /\ \A i \in Id \cap DOMAIN rows : IsRow(rows[i]) /\ Prepared(rows[i])
                             /\ OnePrimaryIn(TableOf(rows))
    /\ \A patch \in Patches : /\ "live" \notin DOMAIN patch
                              /\ "primary" \in DOMAIN patch => patch["primary"] \in BOOLEAN
                              /\ \A f \in {"name", "settle"} \cap DOMAIN patch : patch[f] \in STRING

\* The last write, and the commit; raced notes for the other requests that
\* the table is no longer the one they read (history).
Commit(r) ==
    /\ req[r].pc = "save"
    /\ RowId(r) \in Id \ Locked(r)
    /\ NamesUnique(After(r)) /\ OnePrimaryIn(After(r))
    /\ accounts' = After(r)
    /\ req' = [q \in Request |-> IF q = r THEN Idle
                                ELSE [req[q] EXCEPT !.raced = req[q].pc # "idle"]]
    /\ UNCHANGED requests

\* An index refuses the row, or the request's context is over: rollback.
Rollback(r) ==
    /\ req[r].pc \in {"clear", "save"}
    /\ Goto(r, Idle)
    /\ UNCHANGED <<accounts, requests>>

AccountsInit ==
    /\ \E rows \in Created : accounts = TableOf(rows)
    /\ req = [r \in Request |-> Idle]

AccountsNext ==
    \E r \in Request :
       \/ Create(r) \/ Update(r) \/ Refused(r) \/ SetPrimary(r) \/ Delete(r)
       \/ ClearPrimaries(r) \/ Commit(r) \/ Rollback(r)
------------------------------------------------------------------------------
(* Properties *)

AccountsTypeOK ==
    /\ \A i \in Id : accounts[i] = NoAccount \/ accounts[i] \in Row
    /\ \A r \in Request : req[r].pc \in {"idle", "clear", "save"} /\ req[r].cleared \subseteq Id
    /\ requests \in Nat

\* A request that makes its account primary and is not overtaken by another is
\* never refused by the index on primary accounts: it has cleared whatever was
\* in the way.
PrimaryOnlyLostToRace ==
    \A r \in Request : req[r].pc = "save" /\ ~req[r].raced => OnePrimaryIn(After(r))

\* An agent that has a primary account keeps one, whatever is refused or
\* cancelled, unless the primary account is deleted or demoted by a request
\* that says so, or a transaction writes back a row that has changed since it
\* was read.
PrimaryStays ==
    [][Primaries # {} /\ Primaries' = {} =>
          \E r \in Request : /\ req[r].pc = "save" /\ req'[r] = Idle
                             /\ req[r].op = "delete" \/ req[r].demotes \/ req[r].raced]_accountVars

==============================================================================
