-------------------------- MODULE MarketSync_proofs --------------------------
(***************************************************************************)
(* Proofs about the exchange accounts of an agent and about the catalogue  *)
(* of markets, for any number of accounts, requests and syncs.             *)
(***************************************************************************)
EXTENDS MarketSync, TLAPS, FiniteSetTheorems, WellFoundedInduction
------------------------------------------------------------------------------
(* Accounts: the inductive invariant *)

\* The local state of a request.
IsRequest(l) ==
    /\ l = [pc |-> l.pc, op |-> l.op, id |-> l.id, row |-> l.row, cleared |-> l.cleared,
            demotes |-> l.demotes, raced |-> l.raced]
    /\ l.pc \in {"idle", "clear", "save"}
    /\ l.demotes \in BOOLEAN /\ l.raced \in BOOLEAN
    /\ l.cleared \subseteq Id

\* The marks that request l clears when the primary accounts are these.
Clears(l, primaries) == IF l.op = "update" THEN primaries \ {l.id} ELSE primaries

\* A request under way knows its row; one that was not overtaken has cleared all
\* the marks in its way, and takes the mark of a primary account away only when
\* its patch says so.
Planned(l, primaries) ==
    /\ l.op \in {"create", "update", "set_primary", "delete"}
    /\ l.op # "delete" => IsRow(l.row)
    /\ l.pc = "clear" => l.op # "delete" /\ l.row.primary
    /\ l.op = "set_primary" => l.row.primary
    /\ l.pc = "save" /\ (l.op = "delete" \/ ~l.row.primary) => l.cleared = {}
    /\ l.pc = "save" /\ ~l.raced /\ l.op # "delete" /\ l.row.primary =>
          l.cleared = Clears(l, primaries)
    /\ l.op = "update" /\ ~l.raced /\ ~l.demotes /\ l.id \in primaries => l.row.primary

\* The table, of which one live row is primary.
TablePart ==
    /\ accounts = [i \in Id |-> accounts[i]]
    /\ \A i \in Id : accounts[i] = NoAccount \/ IsRow(accounts[i])
    /\ OnePrimaryIn(accounts)

\* The requests.
RequestPart ==
    /\ req = [r \in Request |-> req[r]]
    /\ \A r \in Request : IsRequest(req[r])
    /\ \A r \in Request : req[r].pc # "idle" => Planned(req[r], Primaries)

AccountsInv == TablePart /\ RequestPart
------------------------------------------------------------------------------
(* Accounts: what the operators do to a row *)

\* A live account is a row.
LEMMA LiveRow ==
    ASSUME TablePart, NEW i \in Live
    PROVE  i \in Id /\ IsRow(accounts[i]) /\ accounts[i].live = TRUE
<1>1. i \in Id /\ accounts[i].live
  BY DEF Live
<1>2. accounts[i] # NoAccount
  BY <1>1 DEF NoAccount
<1> QED BY <1>1, <1>2 DEF TablePart, IsRow

\* Overwriting a column leaves the other ones.
LEMMA SetColumn ==
    ASSUME NEW row, IsRow(row), NEW f \in Columns, NEW v
    PROVE  /\ f \notin {"live", "primary"} \/ v \in BOOLEAN => IsRow([row EXCEPT ![f] = v])
           /\ [row EXCEPT ![f] = v][f] = v
           /\ \A g \in Columns : g # f => [row EXCEPT ![f] = v][g] = row[g]
<1> DEFINE new == [row EXCEPT ![f] = v]
<1>1. new = [g \in Columns |-> IF g = f THEN v ELSE row[g]]
  BY DEF IsRow
<1> HIDE DEF new
<1>2. new = [g \in Columns |-> new[g]] /\ new[f] = v /\ \A g \in Columns : g # f => new[g] = row[g]
  BY <1>1
<1>3. f \notin {"live", "primary"} \/ v \in BOOLEAN => new["live"] \in BOOLEAN /\ new["primary"] \in BOOLEAN
  BY <1>2 DEF IsRow, Columns
<1> QED BY <1>2, <1>3 DEF IsRow, new

\* Setting one of the two marks of a row.
LEMMA SetMark ==
    ASSUME NEW row, IsRow(row), NEW v \in BOOLEAN, NEW new
    PROVE  /\ new = [row EXCEPT !.live = v] =>
                 IsRow(new) /\ (new.live <=> v) /\ (new.primary <=> row.primary)
           /\ new = [row EXCEPT !.primary = v] => IsRow(new) /\ (new.primary <=> v)
<1>1. ASSUME new = [row EXCEPT !.live = v]
      PROVE  IsRow(new) /\ new.live = v /\ new.primary = row.primary
  BY <1>1, SetColumn DEF Columns
<1>2. ASSUME new = [row EXCEPT !.primary = v]
      PROVE  IsRow(new) /\ new.primary = v
  BY <1>2, SetColumn DEF Columns
<1> QED BY <1>1, <1>2

\* Defaults do not touch the marks.
LEMMA DefaultsRow ==
    ASSUME NEW row, IsRow(row)
    PROVE  IsRow(WithDefaults(row)) /\ WithDefaults(row).primary = row.primary
<1> DEFINE d == Exchanges[row.exchange]
           a == [row EXCEPT !.ccxt = Default(row.ccxt, d.ccxt)]
           b == [a EXCEPT !.market = Default(row.market, d.market)]
           c == [b EXCEPT !.settle = Default(row.settle, d.settle)]
           e == [c EXCEPT !.status = Default(row.status, "active")]
<1>1. WithDefaults(row) = e
  BY DEF WithDefaults
<1> USE DEF Columns
<1>2. IsRow(a) /\ a.primary = row.primary
  BY SetColumn
<1> HIDE DEF a
<1>3. IsRow(b) /\ b.primary = row.primary
  BY <1>2, SetColumn
<1> HIDE DEF b
<1>4. IsRow(c) /\ c.primary = row.primary
  BY <1>3, SetColumn
<1> HIDE DEF c
<1>5. IsRow(e) /\ e.primary = row.primary
  BY <1>4, SetColumn
<1> QED BY <1>1, <1>5

\* A patch sets the columns it has.
LEMMA PatchedRow ==
    ASSUME NEW row, IsRow(row), NEW patch \in Patches
    PROVE  /\ IsRow(Patched(row, patch))
           /\ Patched(row, patch).primary =
                 IF "primary" \in DOMAIN patch THEN patch["primary"] ELSE row.primary
<1> DEFINE new == Patched(row, patch)
<1>1. DOMAIN row = Columns
  BY DEF IsRow
<1>2. new = [f \in Columns |-> IF f \in DOMAIN patch THEN patch[f] ELSE row[f]]
  BY <1>1 DEF Patched
<1> HIDE DEF new
<1>3. new = [f \in Columns |-> new[f]] /\ new.live = row.live
      /\ new.primary = IF "primary" \in DOMAIN patch THEN patch["primary"] ELSE row.primary
  BY <1>2, RowsAssumption DEF Columns
<1>4. new.live \in BOOLEAN /\ new.primary \in BOOLEAN
  BY <1>3, RowsAssumption DEF IsRow
<1> QED BY <1>3, <1>4 DEF IsRow, new

\* Taking a mark from an account that is not there does nothing to it.
LEMMA MarkRow ==
    ASSUME TablePart, NEW i \in Id, NEW new,
           new = [accounts[i] EXCEPT !.live = FALSE] \/ new = [accounts[i] EXCEPT !.primary = FALSE]
    PROVE  (new = NoAccount \/ IsRow(new)) /\ ~(new.live /\ new.primary)
<1> DEFINE v == FALSE
<1>1. v \in BOOLEAN /\ ~v
  OBVIOUS
<1>2. new = [accounts[i] EXCEPT !.live = v] \/ new = [accounts[i] EXCEPT !.primary = v]
  OBVIOUS
<1>3. NoAccount.live = v
  BY DEF NoAccount
<1> HIDE DEF v
<1>4. CASE accounts[i] = NoAccount
  <2>1. NoAccount = [f \in {"live", "exchange"} |-> NoAccount[f]]
    BY DEF NoAccount
  <2>2. [NoAccount EXCEPT !.live = v] = NoAccount
    BY <1>3, <2>1
  <2>3. [NoAccount EXCEPT !.primary = v] = NoAccount
    BY <2>1
  <2> QED BY <1>1, <1>2, <1>3, <1>4, <2>2, <2>3
<1>5. CASE IsRow(accounts[i])
  <2>1. IsRow(new) /\ (~new.live \/ ~new.primary)
    BY <1>1, <1>2, <1>5, SetMark
  <2> QED BY <2>1
<1> QED BY <1>4, <1>5 DEF TablePart
------------------------------------------------------------------------------
(* Accounts: the table after a commit *)

\* The rows a commit leaves: its own one, and others that lost a mark at most.
LEMMA AfterRows ==
    ASSUME AccountsInv, NEW r \in Request, req[r].pc = "save"
    PROVE  /\ After(r) = [i \in Id |-> After(r)[i]]
           /\ \A i \in Id : After(r)[i] = NoAccount \/ IsRow(After(r)[i])
           /\ \A i \in Id : After(r)[i].live /\ After(r)[i].primary =>
                 IF i = RowId(r) THEN req[r].op # "delete" /\ req[r].row.primary
                 ELSE i \in Primaries \ req[r].cleared
<1> DEFINE t == After(r)
           l == req[r]
<1>1. t = [i \in Id |->
             IF i = RowId(r)
             THEN IF l.op = "delete" THEN [accounts[i] EXCEPT !.live = FALSE]
                  ELSE [l.row EXCEPT !.live = TRUE]
             ELSE IF i \in l.cleared THEN [accounts[i] EXCEPT !.primary = FALSE]
             ELSE accounts[i]]
  BY DEF After
<1>2. TablePart /\ (l.op # "delete" => IsRow(l.row))
  BY DEF AccountsInv, RequestPart, Planned
<1> HIDE DEF t, l
<1>3. ASSUME NEW i \in Id
      PROVE  /\ t[i] = NoAccount \/ IsRow(t[i])
             /\ t[i].live /\ t[i].primary =>
                   IF i = RowId(r) THEN l.op # "delete" /\ l.row.primary
                   ELSE i \in Primaries \ l.cleared
  <2>1. CASE i = RowId(r) /\ l.op = "delete"
    <3>1. t[i] = [accounts[i] EXCEPT !.live = FALSE]
      BY <1>1, <2>1
    <3> QED BY <1>2, <3>1, MarkRow
  <2>2. CASE i = RowId(r) /\ l.op # "delete"
    <3>1. t[i] = [l.row EXCEPT !.live = TRUE]
      BY <1>1, <2>2
    <3> DEFINE v == TRUE
    <3>2. v \in BOOLEAN /\ t[i] = [l.row EXCEPT !.live = v]
      BY <3>1
    <3> HIDE DEF v
    <3>3. IsRow(t[i]) /\ (t[i].primary <=> l.row.primary)
      BY <1>2, <2>2, <3>2, SetMark
    <3> QED BY <2>2, <3>3
  <2>3. CASE i # RowId(r) /\ i \in l.cleared
    <3>1. t[i] = [accounts[i] EXCEPT !.primary = FALSE]
      BY <1>1, <2>3
    <3> QED BY <1>2, <3>1, MarkRow
  <2>4. CASE i # RowId(r) /\ i \notin l.cleared
    <3>1. t[i] = accounts[i]
      BY <1>1, <2>4
    <3> QED BY <1>2, <2>4, <3>1 DEF TablePart, Primaries, Live
  <2> QED BY <2>1, <2>2, <2>3, <2>4
<1>4. t = [i \in Id |-> t[i]]
  BY <1>1
<1> QED BY <1>3, <1>4 DEF t, l

\* A commit that was not overtaken makes no second primary account.
LEMMA AfterOnePrimary ==
    ASSUME AccountsInv, NEW r \in Request, req[r].pc = "save", ~req[r].raced
    PROVE  OnePrimaryIn(After(r))
<1> DEFINE t == After(r)
           l == req[r]
<1>1. Planned(l, Primaries) /\ \A i, j \in Primaries : i = j
  BY DEF AccountsInv, RequestPart, TablePart, OnePrimaryIn, Primaries, Live
<1>2. \A i \in Id : t[i].live /\ t[i].primary =>
         IF i = RowId(r) THEN l.op # "delete" /\ l.row.primary ELSE i \in Primaries \ l.cleared
  BY AfterRows
<1>3. CASE l.op # "delete" /\ l.row.primary
  <2>1. l.cleared = Clears(l, Primaries)
    BY <1>1, <1>3 DEF Planned
  <2>2. Primaries \ l.cleared \subseteq {RowId(r)}
    BY <2>1 DEF Clears, RowId
  <2> HIDE DEF t, l
  <2>3. \A i \in Id : t[i].live /\ t[i].primary => i = RowId(r)
    BY <1>2, <2>2
  <2> QED BY <2>3 DEF OnePrimaryIn, t
<1>4. CASE ~(l.op # "delete" /\ l.row.primary)
  <2> HIDE DEF t, l
  <2>1. \A i \in Id : t[i].live /\ t[i].primary => i \in Primaries
    BY <1>2, <1>4
  <2> QED BY <1>1, <2>1 DEF OnePrimaryIn, t
<1> QED BY <1>3, <1>4

\* The number of a new account belongs to none.
LEMMA FreeId ==
    ASSUME NEW r \in Request, req[r].op = "create", RowId(r) \in Id
    PROVE  accounts[RowId(r)] = NoAccount
<1>1. Id \subseteq Nat /\ 0 \notin Id
  <2>1. Id = 1 .. Cardinality(Id) /\ IsFiniteSet(Id)
    BY AccountsAssumption
  <2> QED BY <2>1, FS_CardinalityType
<1>2. Free # {} /\ Free \subseteq Nat
  BY <1>1 DEF RowId, Free
<1>3. PICK x \in Free : \A y \in Free : ~(<<y, x>> \in OpToRel(<, Nat))
  BY <1>2, NatLessThanWellFounded, WFMin
<1>4. \A y \in Free : ~(y < x)
  BY <1>2, <1>3 DEF OpToRel
<1>5. \A y \in Free : x <= y
  BY <1>2, <1>4
<1>6. (CHOOSE i \in Free : \A j \in Free : i <= j) \in Free
  BY <1>5
<1> QED BY <1>2, <1>6 DEF RowId, Free
------------------------------------------------------------------------------
(* Accounts: the steps *)

\* A request moves on and the table stays.
LEMMA RequestMoves ==
    ASSUME AccountsInv, NEW r \in Request, NEW l, Goto(r, l), accounts' = accounts,
           IsRequest(l), l.pc # "idle" => Planned(l, Primaries)
    PROVE  AccountsInv'
<1>1. Primaries' = Primaries /\ TablePart'
  BY DEF Primaries, Live, AccountsInv, TablePart
<1>2. /\ req' = [q \in Request |-> req'[q]] /\ req'[r] = l
      /\ \A q \in Request : q # r => req'[q] = req[q]
  BY DEF AccountsInv, RequestPart, Goto
<1>3. \A q \in Request : IsRequest(req'[q]) /\ (req'[q].pc # "idle" => Planned(req'[q], Primaries))
  BY <1>2 DEF AccountsInv, RequestPart
<1> QED BY <1>1, <1>2, <1>3 DEF AccountsInv, RequestPart

\* The idle state.
LEMMA IdleRequest == IsRequest(Idle) /\ Idle.pc = "idle"
BY DEF IsRequest, Idle

\* A request has read its account.
LEMMA WriteInv ==
    ASSUME AccountsInv, NEW r \in Request, NEW op \in {"create", "update", "set_primary", "delete"},
           NEW i, NEW row, NEW d \in BOOLEAN, Write(r, op, i, row, d), accounts' = accounts,
           op # "delete" => IsRow(row),
           op = "set_primary" => row.primary,
           op = "update" /\ ~d /\ i \in Primaries => row.primary
    PROVE  AccountsInv'
<1> DEFINE s == IF op # "delete" /\ row.primary THEN "clear" ELSE "save"
           v == FALSE
           l == [pc |-> s, op |-> op, id |-> i, row |-> row, cleared |-> {},
                 demotes |-> d, raced |-> v]
<1>1. Goto(r, l) /\ v \in BOOLEAN /\ ~v
  BY DEF Write
<1>2. s \in {"clear", "save"} /\ (s = "clear" <=> op # "delete" /\ row.primary)
  OBVIOUS
<1> HIDE DEF s, v
<1>3. /\ l.pc = s /\ l.op = op /\ l.id = i /\ l.row = row /\ l.cleared = {}
      /\ l.demotes = d /\ l.raced = v
      /\ l = [pc |-> l.pc, op |-> l.op, id |-> l.id, row |-> l.row, cleared |-> l.cleared,
              demotes |-> l.demotes, raced |-> l.raced]
  OBVIOUS
<1> HIDE DEF l
<1>4. IsRequest(l)
  BY <1>1, <1>2, <1>3 DEF IsRequest
<1>5. Planned(l, Primaries)
  BY <1>1, <1>2, <1>3 DEF Planned
<1> QED BY <1>1, <1>4, <1>5, RequestMoves

\* createExchangeAccount.
LEMMA CreateInv == ASSUME AccountsInv, NEW r \in Request, Create(r) PROVE AccountsInv'
<1>1. PICK row \in Offers : Write(r, "create", 0, WithDefaults(row), FALSE)
  BY DEF Create
<1>2. IsRow(WithDefaults(row)) /\ accounts' = accounts
  BY RowsAssumption, DefaultsRow DEF Create, Arrives
<1> DEFINE v == FALSE
<1>3. v \in BOOLEAN /\ Write(r, "create", 0, WithDefaults(row), v)
  BY <1>1
<1> HIDE DEF v
<1> QED BY <1>2, <1>3, WriteInv

\* UpdateExchangeAccount: a patch without the mark keeps it.
LEMMA UpdateInv == ASSUME AccountsInv, NEW r \in Request, Update(r) PROVE AccountsInv'
<1>1. PICK i \in Live, patch \in Patches :
         Write(r, "update", i, WithDefaults(Patched(accounts[i], patch)),
               "primary" \in DOMAIN patch /\ ~patch.primary)
  BY DEF Update
<1> DEFINE new == Patched(accounts[i], patch)
           d == "primary" \in DOMAIN patch /\ ~patch.primary
<1>2. accounts' = accounts /\ TablePart /\ d \in BOOLEAN
  BY DEF Update, Arrives, AccountsInv
<1>3. IsRow(accounts[i])
  BY <1>2, LiveRow
<1>4. /\ IsRow(new)
      /\ new.primary = IF "primary" \in DOMAIN patch THEN patch["primary"] ELSE accounts[i].primary
  BY <1>3, PatchedRow
<1> HIDE DEF new
<1>5. IsRow(WithDefaults(new)) /\ WithDefaults(new).primary = new.primary
  BY <1>4, DefaultsRow
<1>6. ~d /\ i \in Primaries => new.primary
  BY <1>4 DEF Primaries
<1> HIDE DEF d
<1>7. Write(r, "update", i, WithDefaults(new), d)
  BY <1>1 DEF new, d
<1> QED BY <1>2, <1>5, <1>6, <1>7, WriteInv

\* SetPrimaryExchangeAccount and DeleteExchangeAccount.
LEMMA SetPrimaryInv == ASSUME AccountsInv, NEW r \in Request, SetPrimary(r) PROVE AccountsInv'
<1>1. PICK i \in Live :
         Write(r, "set_primary", i, [accounts[i] EXCEPT !.primary = TRUE], FALSE)
  BY DEF SetPrimary
<1> DEFINE new == [accounts[i] EXCEPT !.primary = TRUE]
           w == TRUE
           v == FALSE
<1>2. v \in BOOLEAN /\ w \in BOOLEAN /\ w /\ new = [accounts[i] EXCEPT !.primary = w]
  OBVIOUS
<1>3. Write(r, "set_primary", i, new, v)
  BY <1>1
<1> HIDE DEF v, w, new
<1>4. IsRow(accounts[i]) /\ accounts' = accounts
  BY LiveRow DEF AccountsInv, SetPrimary, Arrives
<1>5. IsRow(new) /\ new.primary
  BY <1>2, <1>4, SetMark
<1> QED BY <1>2, <1>3, <1>4, <1>5, WriteInv

\* The same of DeleteExchangeAccount.
LEMMA DeleteInv == ASSUME AccountsInv, NEW r \in Request, Delete(r) PROVE AccountsInv'
<1>1. PICK i \in Live : Write(r, "delete", i, accounts[i], FALSE)
  BY DEF Delete
<1> DEFINE v == FALSE
<1>2. v \in BOOLEAN /\ Write(r, "delete", i, accounts[i], v) /\ accounts' = accounts
  BY <1>1 DEF Delete, Arrives
<1> HIDE DEF v
<1> QED BY <1>2, WriteInv

\* UPDATE ... SET is_primary = false takes the marks that are there.
LEMMA ClearInv == ASSUME AccountsInv, NEW r \in Request, ClearPrimaries(r) PROVE AccountsInv'
<1> DEFINE k == req[r]
           c == ToClear(r)
           l == [k EXCEPT !.pc = "save", !.cleared = c]
<1>1. k.pc = "clear" /\ accounts' = accounts /\ Goto(r, l)
  BY DEF ClearPrimaries
<1>2. IsRequest(k) /\ Planned(k, Primaries)
  BY <1>1 DEF AccountsInv, RequestPart
<1>3. c = Clears(k, Primaries) /\ c \subseteq Id
  BY DEF ToClear, Clears, Primaries, Live
<1> HIDE DEF c, k
<1>4. l = [pc |-> "save", op |-> k.op, id |-> k.id, row |-> k.row, cleared |-> c,
           demotes |-> k.demotes, raced |-> k.raced]
  <2> DEFINE m == [k EXCEPT !.pc = "save"]
  <2>1. m = [pc |-> "save", op |-> k.op, id |-> k.id, row |-> k.row, cleared |-> k.cleared,
             demotes |-> k.demotes, raced |-> k.raced]
    BY <1>2 DEF IsRequest
  <2>2. l = [m EXCEPT !.cleared = c]
    OBVIOUS
  <2> HIDE DEF m
  <2> QED BY <2>1, <2>2
<1> HIDE DEF l
<1>5. /\ l.pc = "save" /\ l.op = k.op /\ l.id = k.id /\ l.row = k.row /\ l.cleared = c
      /\ l.demotes = k.demotes /\ l.raced = k.raced
  BY <1>4
<1>6. IsRequest(l)
  BY <1>2, <1>3, <1>4, <1>5 DEF IsRequest
<1>7. Planned(l, Primaries)
  BY <1>1, <1>2, <1>3, <1>5 DEF Planned, Clears
<1> QED BY <1>1, <1>6, <1>7, RequestMoves

\* A commit passes the index, and tells the others that they were overtaken.
LEMMA CommitInv == ASSUME AccountsInv, NEW r \in Request, Commit(r) PROVE AccountsInv'
<1>1. /\ req[r].pc = "save" /\ OnePrimaryIn(After(r)) /\ accounts' = After(r)
      /\ req' = [q \in Request |-> IF q = r THEN Idle
                                   ELSE [req[q] EXCEPT !.raced = req[q].pc # "idle"]]
  BY DEF Commit
<1>2. TablePart'
  BY <1>1, AfterRows DEF TablePart
<1>3. req' = [q \in Request |-> req'[q]]
  BY <1>1
<1>4. ASSUME NEW q \in Request
      PROVE  IsRequest(req'[q]) /\ (req'[q].pc # "idle" => Planned(req'[q], Primaries'))
  <2>1. CASE q = r
    BY <1>1, <2>1, IdleRequest
  <2>2. CASE q # r
    <3> DEFINE k == req[q]
               b == k.pc # "idle"
               l == [k EXCEPT !.raced = b]
    <3>1. req'[q] = l /\ b \in BOOLEAN
      BY <1>1, <2>2
    <3>2. IsRequest(k) /\ (b => Planned(k, Primaries)) /\ (b <=> k.pc # "idle")
      BY DEF AccountsInv, RequestPart
    <3> HIDE DEF b, k
    <3>3. /\ l = [pc |-> k.pc, op |-> k.op, id |-> k.id, row |-> k.row, cleared |-> k.cleared,
                  demotes |-> k.demotes, raced |-> b]
      BY <3>2 DEF IsRequest
    <3> HIDE DEF l
    <3>4. /\ l.pc = k.pc /\ l.op = k.op /\ l.id = k.id /\ l.row = k.row /\ l.cleared = k.cleared
          /\ l.demotes = k.demotes /\ l.raced = b
      BY <3>3
    <3>5. IsRequest(l)
      BY <3>1, <3>2, <3>3, <3>4 DEF IsRequest
    <3>6. l.pc # "idle" => Planned(l, Primaries')
      BY <3>2, <3>4 DEF Planned
    <3> QED BY <3>1, <3>5, <3>6
  <2> QED BY <2>1, <2>2
<1> QED BY <1>2, <1>3, <1>4 DEF AccountsInv, RequestPart

\* Every step of the accounts.
LEMMA AccountsNextInv == ASSUME AccountsInv, AccountsNext PROVE AccountsInv'
<1>1. PICK r \in Request : \/ Create(r) \/ Update(r) \/ Refused(r) \/ SetPrimary(r) \/ Delete(r)
                           \/ ClearPrimaries(r) \/ Commit(r) \/ Rollback(r)
  BY DEF AccountsNext
<1>2. CASE Rollback(r)
  BY <1>2, IdleRequest, RequestMoves DEF Rollback
<1>3. CASE Refused(r)
  BY <1>3 DEF Refused, Arrives, AccountsInv, TablePart, RequestPart, Primaries, Live
<1> QED BY <1>1, <1>2, <1>3, CreateInv, UpdateInv, SetPrimaryInv, DeleteInv, ClearInv, CommitInv

\* The table at the start has the index.
LEMMA AccountsInitInv == ASSUME AccountsInit PROVE AccountsInv
<1>1. PICK rows \in Created : accounts = TableOf(rows)
  BY DEF AccountsInit
<1>2. TablePart
  BY <1>1, RowsAssumption DEF TablePart, TableOf
<1>3. RequestPart
  BY IdleRequest DEF AccountsInit, RequestPart
<1> QED BY <1>2, <1>3 DEF AccountsInv

\* The market sync does not touch the accounts.
LEMMA NextAccounts == ASSUME [Next]_vars PROVE AccountsNext \/ UNCHANGED accountVars
BY DEF Next, vars, BeginBatch, BeginRequested, Step, LoadAllowlist, AllowlistFails, FetchMarkets,
   ListingRefused, UpsertMarkets, PruneMarkets, AccountFails, ChangeAllowlist, ChangeListing

\* The invariant of the accounts.
THEOREM AccountsInvariant == Spec => []AccountsInv
<1>1. Init => AccountsInv
  BY AccountsInitInv DEF Init
<1>2. AccountsInv /\ [Next]_vars => AccountsInv'
  <2> SUFFICES ASSUME AccountsInv, [Next]_vars PROVE AccountsInv'
    OBVIOUS
  <2>1. CASE UNCHANGED accountVars
    BY <2>1 DEF accountVars, AccountsInv, TablePart, RequestPart, Primaries, Live
  <2> QED BY <2>1, NextAccounts, AccountsNextInv
<1> QED BY <1>1, <1>2, PTL DEF Spec

\* A request that makes its account primary and is not overtaken between its
\* read and its write is never refused by the index on primary accounts.
THEOREM PrimaryNotRefused == Spec => []PrimaryOnlyLostToRace
<1>1. AccountsInv => PrimaryOnlyLostToRace
  BY AfterOnePrimary DEF PrimaryOnlyLostToRace
<1> QED BY <1>1, AccountsInvariant, PTL

\* An agent keeps its primary account unless a request deletes or demotes it, or
\* writes back a row that has changed since it was read.
THEOREM PrimaryKept == Spec => PrimaryStays
<1> DEFINE Lost == Primaries # {} /\ Primaries' = {}
           Blamed(r) == /\ req[r].pc = "save" /\ req'[r] = Idle
                        /\ req[r].op = "delete" \/ req[r].demotes \/ req[r].raced
<1>1. ASSUME AccountsInv, [Next]_vars, Lost PROVE \E r \in Request : Blamed(r)
  <2>1. accounts' # accounts
    BY <1>1 DEF Primaries, Live
  <2>2. PICK r \in Request : Commit(r)
    BY <1>1, <2>1, NextAccounts DEF accountVars, AccountsNext, Create, Update, Refused, SetPrimary,
       Delete, Arrives, ClearPrimaries, Rollback
  <2> DEFINE l == req[r]
             t == After(r)
  <2>3. l.pc = "save" /\ req'[r] = Idle /\ RowId(r) \in Id /\ accounts' = t
    BY <2>2 DEF Commit
  <2>4. Planned(l, Primaries)
    BY <1>1, <2>3 DEF AccountsInv, RequestPart
  <2> SUFFICES ASSUME l.op # "delete", ~l.demotes, ~l.raced PROVE FALSE
    BY <2>3
  <2>5. IsRow(l.row)
    BY <2>4 DEF Planned
  <2>6. t[RowId(r)] = [l.row EXCEPT !.live = TRUE]
    BY <2>3 DEF After
  <2> DEFINE v == TRUE
  <2>7. v \in BOOLEAN /\ v /\ t[RowId(r)] = [l.row EXCEPT !.live = v]
    BY <2>6
  <2> HIDE DEF v
  <2>8. t[RowId(r)].live /\ (t[RowId(r)].primary <=> l.row.primary)
    BY <2>5, <2>7, SetMark
  <2>9. ~l.row.primary
    BY <1>1, <2>3, <2>8 DEF Primaries, Live
  <2>10. l.cleared = {} /\ l.op # "set_primary"
    BY <2>3, <2>4, <2>9 DEF Planned
  <2>11. PICK i : i \in Primaries
    BY <1>1
  <2>12. i \in Id /\ accounts[i].live /\ accounts[i].primary
    BY <2>11 DEF Primaries, Live
  <2>13. CASE i # RowId(r)
    <3>1. t[i] = accounts[i]
      BY <2>10, <2>12, <2>13 DEF After
    <3> QED BY <1>1, <2>3, <2>12, <3>1 DEF Primaries, Live
  <2>14. CASE i = RowId(r)
    <3>1. CASE l.op = "create"
      BY <2>3, <2>12, <2>14, <3>1, FreeId DEF NoAccount
    <3>2. CASE l.op = "update"
      BY <2>4, <2>9, <2>11, <2>14, <3>2 DEF Planned, RowId
    <3> QED BY <2>4, <2>10, <3>1, <3>2 DEF Planned
  <2> QED BY <2>13, <2>14
<1>2. AccountsInv /\ [Next]_vars => [Lost => \E r \in Request : Blamed(r)]_accountVars
  BY <1>1
<1> QED BY <1>2, AccountsInvariant, PTL DEF Spec, PrimaryStays
------------------------------------------------------------------------------
(* The catalogue of markets *)

\* The local state of a sync.
IsSync(l) ==
    /\ l = [pc |-> l.pc, jobs |-> l.jobs, allow |-> l.allow, fetched |-> l.fetched,
            steady |-> l.steady]
    /\ l.pc \in {"idle", "allow", "fetch", "upsert", "prune"}

\* What has been enabled since a sync began is enabled now, or was when the sync
\* read the allowlist.
Remembers(l, now) ==
    /\ l.pc = "allow" => l.steady \subseteq now
    /\ l.pc \in {"fetch", "upsert", "prune"} => l.steady \subseteq l.allow

SyncInv ==
    /\ sync = [p \in Syncs |-> sync[p]]
    /\ \A p \in Syncs : IsSync(sync[p]) /\ Remembers(sync[p], allow)

\* A sync moves on.
LEMMA SyncMoves ==
    ASSUME SyncInv, NEW p \in Syncs, NEW l, Enter(p, l), allow' = allow,
           IsSync(l), Remembers(l, allow)
    PROVE  SyncInv'
<1>1. /\ sync' = [q \in Syncs |-> sync'[q]] /\ sync'[p] = l
      /\ \A q \in Syncs : q # p => sync'[q] = sync[q]
  BY DEF SyncInv, Enter
<1> QED BY <1>1 DEF SyncInv

\* The state before a sync.
LEMMA RestingSync == IsSync(Resting) /\ Resting.pc = "idle" /\ Remembers(Resting, allow)
BY DEF IsSync, Remembers, Resting

\* Setting one column of a sync's state leaves the other ones.
LEMMA SyncColumn ==
    ASSUME NEW l, IsSync(l), NEW x, NEW k
    PROVE  /\ k = [l EXCEPT !.pc = x] /\ x \in {"allow", "fetch", "upsert", "prune"} =>
                 IsSync(k) /\ k.pc = x /\ k.allow = l.allow /\ k.steady = l.steady
           /\ k = [l EXCEPT !.allow = x] =>
                 IsSync(k) /\ k.pc = l.pc /\ k.allow = x /\ k.steady = l.steady
           /\ k = [l EXCEPT !.jobs = x] \/ k = [l EXCEPT !.fetched = x] =>
                 IsSync(k) /\ k.pc = l.pc /\ k.allow = l.allow /\ k.steady = l.steady
           /\ k = [l EXCEPT !.steady = x] =>
                 IsSync(k) /\ k.pc = l.pc /\ k.allow = l.allow /\ k.steady = x
<1>1. CASE k = [l EXCEPT !.pc = x]
  <2>1. k = [pc |-> x, jobs |-> l.jobs, allow |-> l.allow, fetched |-> l.fetched,
             steady |-> l.steady]
    BY <1>1 DEF IsSync
  <2> QED BY <2>1 DEF IsSync
<1>2. CASE k = [l EXCEPT !.allow = x]
  <2>1. k = [pc |-> l.pc, jobs |-> l.jobs, allow |-> x, fetched |-> l.fetched, steady |-> l.steady]
    BY <1>2 DEF IsSync
  <2> QED BY <2>1 DEF IsSync
<1>3. CASE k = [l EXCEPT !.jobs = x]
  <2>1. k = [pc |-> l.pc, jobs |-> x, allow |-> l.allow, fetched |-> l.fetched, steady |-> l.steady]
    BY <1>3 DEF IsSync
  <2> QED BY <2>1 DEF IsSync
<1>4. CASE k = [l EXCEPT !.fetched = x]
  <2>1. k = [pc |-> l.pc, jobs |-> l.jobs, allow |-> l.allow, fetched |-> x, steady |-> l.steady]
    BY <1>4 DEF IsSync
  <2> QED BY <2>1 DEF IsSync
<1>5. CASE k = [l EXCEPT !.steady = x]
  <2>1. k = [pc |-> l.pc, jobs |-> l.jobs, allow |-> l.allow, fetched |-> l.fetched, steady |-> x]
    BY <1>5 DEF IsSync
  <2> QED BY <2>1 DEF IsSync
<1> QED BY <1>1, <1>2, <1>3, <1>4, <1>5

\* The account at hand is done.
LEMMA NextJobInv ==
    ASSUME SyncInv, NEW p \in Syncs, sync[p].pc \in {"fetch", "upsert", "prune"}, NextJob(p),
           allow' = allow
    PROVE  SyncInv' /\ sync'[p].pc \in {"idle", "fetch"}
<1> DEFINE rest == Tail(sync[p].jobs)
           k == [sync[p] EXCEPT !.pc = "fetch", !.jobs = rest, !.fetched = {}]
<1>1. IsSync(sync[p]) /\ Remembers(sync[p], allow)
  BY DEF SyncInv
<1>2. Enter(p, Resting) \/ Enter(p, k)
  BY DEF NextJob
<1>3. IsSync(k) /\ k.pc = "fetch" /\ k.allow = sync[p].allow /\ k.steady = sync[p].steady
  <2> DEFINE m == [sync[p] EXCEPT !.pc = "fetch"]
             n == [m EXCEPT !.jobs = rest]
  <2>1. IsSync(m) /\ m.pc = "fetch" /\ m.allow = sync[p].allow /\ m.steady = sync[p].steady
    BY <1>1, SyncColumn
  <2>2. k = [n EXCEPT !.fetched = {}]
    OBVIOUS
  <2> HIDE DEF m, k, rest
  <2>3. IsSync(n) /\ n.pc = m.pc /\ n.allow = m.allow /\ n.steady = m.steady
    BY <2>1, SyncColumn
  <2> HIDE DEF n
  <2> QED BY <2>1, <2>2, <2>3, SyncColumn
<1> HIDE DEF rest, k
<1>4. Remembers(k, allow)
  BY <1>1, <1>3 DEF Remembers
<1>5. SyncInv'
  BY <1>2, <1>3, <1>4, RestingSync, SyncMoves
<1>6. sync'[p] \in {Resting, k}
  BY <1>2 DEF Enter, SyncInv
<1> QED BY <1>3, <1>5, <1>6, RestingSync

\* A sync begins.
LEMMA StartingInv ==
    ASSUME SyncInv, NEW p \in Syncs, NEW jobs, Enter(p, Starting(jobs)), allow' = allow
    PROVE  SyncInv'
<1> DEFINE l == Starting(jobs)
           m == [Resting EXCEPT !.pc = "allow"]
           n == [m EXCEPT !.jobs = jobs]
<1>1. l = [n EXCEPT !.steady = allow]
  BY DEF Starting
<1> HIDE DEF l
<1>2. IsSync(l) /\ l.pc = "allow" /\ l.steady = allow
  <2>1. IsSync(m) /\ m.pc = "allow"
    BY RestingSync, SyncColumn
  <2> HIDE DEF m
  <2>2. IsSync(n) /\ n.pc = m.pc
    BY <2>1, SyncColumn
  <2> HIDE DEF n
  <2> QED BY <1>1, <2>1, <2>2, SyncColumn
<1>3. Remembers(l, allow)
  BY <1>2 DEF Remembers
<1> QED BY <1>2, <1>3, SyncMoves DEF l

\* Every step.
LEMMA SyncNextInv == ASSUME SyncInv, [Next]_vars PROVE SyncInv'
<1>1. CASE AccountsNext /\ UNCHANGED marketVars
  BY <1>1 DEF marketVars, SyncInv
<1>2. CASE BeginBatch
  BY <1>2, StartingInv DEF BeginBatch, Syncs
<1>3. ASSUME NEW p \in Syncs, BeginRequested(p) PROVE SyncInv'
  BY <1>3, StartingInv DEF BeginRequested
<1>4. ASSUME NEW p \in Syncs, Step(p) PROVE SyncInv'
  <2>1. IsSync(sync[p]) /\ Remembers(sync[p], allow)
    BY DEF SyncInv
  <2>2. CASE LoadAllowlist(p)
    <3> DEFINE k == [sync[p] EXCEPT !.pc = "fetch", !.allow = allow]
    <3>1. IsSync(k) /\ k.pc = "fetch" /\ k.allow = allow /\ k.steady = sync[p].steady
      <4> DEFINE m == [sync[p] EXCEPT !.pc = "fetch"]
      <4>1. IsSync(m) /\ m.pc = "fetch" /\ m.steady = sync[p].steady
        BY <2>1, SyncColumn
      <4>2. k = [m EXCEPT !.allow = allow]
        OBVIOUS
      <4> HIDE DEF m, k
      <4> QED BY <4>1, <4>2, SyncColumn
    <3>2. Enter(p, k) /\ allow' = allow /\ sync[p].pc = "allow"
      BY <2>2 DEF LoadAllowlist
    <3> HIDE DEF k
    <3>3. Remembers(k, allow)
      BY <2>1, <3>1, <3>2 DEF Remembers
    <3> QED BY <3>1, <3>2, <3>3, SyncMoves
  <2>3. CASE AllowlistFails(p)
    BY <2>3, RestingSync, SyncMoves DEF AllowlistFails
  <2>4. CASE FetchMarkets(p)
    <3> DEFINE x == Wanted(Head(sync[p].jobs), sync[p].allow)
               k == [sync[p] EXCEPT !.pc = "upsert", !.fetched = x]
    <3>1. Enter(p, k) /\ allow' = allow /\ sync[p].pc = "fetch"
      BY <2>4 DEF FetchMarkets
    <3> HIDE DEF x
    <3>2. IsSync(k) /\ k.pc = "upsert" /\ k.allow = sync[p].allow /\ k.steady = sync[p].steady
      <4> DEFINE m == [sync[p] EXCEPT !.pc = "upsert"]
      <4>1. IsSync(m) /\ m.pc = "upsert" /\ m.allow = sync[p].allow /\ m.steady = sync[p].steady
        BY <2>1, SyncColumn
      <4>2. k = [m EXCEPT !.fetched = x]
        OBVIOUS
      <4> HIDE DEF m, k
      <4> QED BY <4>1, <4>2, SyncColumn
    <3> HIDE DEF k
    <3>3. Remembers(k, allow)
      BY <2>1, <3>1, <3>2 DEF Remembers
    <3> QED BY <3>1, <3>2, <3>3, SyncMoves
  <2>5. CASE UpsertMarkets(p)
    <3> DEFINE k == [sync[p] EXCEPT !.pc = "prune"]
    <3>1. Enter(p, k) /\ allow' = allow /\ sync[p].pc = "upsert"
      BY <2>5 DEF UpsertMarkets
    <3>2. IsSync(k) /\ k.pc = "prune" /\ k.allow = sync[p].allow /\ k.steady = sync[p].steady
      BY <2>1, SyncColumn
    <3> HIDE DEF k
    <3>3. Remembers(k, allow)
      BY <2>1, <3>1, <3>2 DEF Remembers
    <3> QED BY <3>1, <3>2, <3>3, SyncMoves
  <2>6. CASE ListingRefused(p) \/ PruneMarkets(p) \/ AccountFails(p)
    BY <2>6, NextJobInv DEF ListingRefused, PruneMarkets, AccountFails
  <2> QED BY <1>4, <2>2, <2>3, <2>4, <2>5, <2>6 DEF Step
<1>5. CASE ChangeAllowlist
  <2>1. PICK s : /\ allow' = s
                 /\ sync' = [p \in Syncs |-> [sync[p] EXCEPT !.steady = @ \cap s]]
    BY <1>5 DEF ChangeAllowlist
  <2>2. ASSUME NEW p \in Syncs PROVE IsSync(sync'[p]) /\ Remembers(sync'[p], s)
    <3> DEFINE k == sync[p]
               l == [k EXCEPT !.steady = k.steady \cap s]
    <3>1. sync'[p] = l
      BY <2>1
    <3>2. IsSync(k) /\ Remembers(k, allow)
      BY DEF SyncInv
    <3> HIDE DEF k
    <3>3. l = [pc |-> k.pc, jobs |-> k.jobs, allow |-> k.allow, fetched |-> k.fetched,
               steady |-> k.steady \cap s]
      BY <3>2 DEF IsSync
    <3> HIDE DEF l
    <3>4. l.pc = k.pc /\ l.allow = k.allow /\ l.steady = k.steady \cap s
      BY <3>3
    <3>5. IsSync(l)
      BY <3>2, <3>3, <3>4 DEF IsSync
    <3>6. Remembers(l, s)
      BY <3>2, <3>4 DEF Remembers
    <3> QED BY <3>1, <3>5, <3>6
  <2> QED BY <2>1, <2>2 DEF SyncInv
<1>6. CASE ChangeListing \/ UNCHANGED vars
  BY <1>6 DEF ChangeListing, vars, marketVars, SyncInv
<1> QED BY <1>1, <1>2, <1>3, <1>4, <1>5, <1>6 DEF Next

\* A market leaves the catalogue only by a sync of its own source, and only when
\* it is of another type than the account or its symbol was disabled at some
\* time since that sync began.
THEOREM MarketsKept == Spec => MarketsLostForCause
<1>1. Init => SyncInv
  BY RestingSync DEF Init, SyncInv
<1>2. SyncInv /\ [Next]_vars => SyncInv'
  BY SyncNextInv
<1> DEFINE Caused(m) ==
       \/ \E n \in markets' : SameMarket(m, n)
       \/ \E p \in Syncs :
             /\ sync[p].pc = "prune" /\ sync'[p] # sync[p]
             /\ LET job == Head(sync[p].jobs)
                IN  /\ m.source = job.source
                    /\ m.market # job.market \/ m.symbol \notin sync[p].steady
<1>3. ASSUME SyncInv, [Next]_vars, NEW m \in markets \ markets' PROVE Caused(m)
  <2>1. PICK p \in Syncs : UpsertMarkets(p) \/ PruneMarkets(p)
    BY <1>3 DEF Next, vars, marketVars, BeginBatch, BeginRequested, Step, LoadAllowlist,
       AllowlistFails, FetchMarkets, ListingRefused, AccountFails, ChangeAllowlist, ChangeListing
  <2>2. CASE UpsertMarkets(p)
    BY <1>3, <2>2 DEF UpsertMarkets, Upserted
  <2>3. CASE PruneMarkets(p)
    <3> DEFINE job == Head(sync[p].jobs)
    <3>1. sync[p].pc = "prune" /\ NextJob(p) /\ allow' = allow
      BY <2>3 DEF PruneMarkets
    <3>2. sync'[p].pc # "prune"
      BY <1>3, <3>1, NextJobInv
    <3>3. m \in Pruned(job, sync[p].allow)
      BY <1>3, <2>3 DEF PruneMarkets
    <3>4. sync[p].steady \subseteq sync[p].allow
      BY <1>3, <3>1 DEF SyncInv, Remembers
    <3>5. m.source = job.source /\ (m.market # job.market \/ m.symbol \notin sync[p].allow)
      BY <3>3 DEF Pruned
    <3> HIDE DEF job
    <3>6. m.market # job.market \/ m.symbol \notin sync[p].steady
      BY <3>4, <3>5
    <3> QED BY <3>1, <3>2, <3>5, <3>6 DEF job
  <2> QED BY <2>1, <2>2, <2>3
<1>4. SyncInv /\ [Next]_vars => [\A m \in markets \ markets' : Caused(m)]_vars
  BY <1>3
<1> QED BY <1>1, <1>2, <1>4, PTL DEF Spec, MarketsLostForCause
------------------------------------------------------------------------------
(* Types of the accounts *)

\* A row that may be stored.
Stored(row) == row = NoAccount \/ (IsRow(row) /\ Prepared(row))

\* The table, and the rows that requests are about to write.
RowsInv ==
    /\ \A i \in Id : Stored(accounts[i])
    /\ \A r \in Request : req[r].pc # "idle" /\ req[r].op # "delete" => Prepared(req[r].row)
    /\ requests \in Nat

\* The marks are no part of what is checked.
LEMMA MarksFree ==
    ASSUME NEW row, IsRow(row), Prepared(row), NEW f \in {"live", "primary"}, NEW v
    PROVE  Prepared([row EXCEPT ![f] = v])
<1> DEFINE new == [row EXCEPT ![f] = v]
<1>1. f \in Columns
  BY DEF Columns
<1>2. \A g \in Columns : g # f => new[g] = row[g]
  BY <1>1, SetColumn
<1> HIDE DEF new
<1>3. /\ new.exchange = row.exchange /\ new.ccxt = row.ccxt /\ new.name = row.name
      /\ new.settle = row.settle /\ new.market = row.market /\ new.status = row.status
  BY <1>2 DEF Columns
<1> QED BY <1>3 DEF Prepared, new

\* The columns after the defaults.
LEMMA DefaultColumns ==
    ASSUME NEW row, IsRow(row)
    PROVE  LET d == Exchanges[row.exchange]
               e == WithDefaults(row)
           IN  /\ e.exchange = row.exchange /\ e.name = row.name
               /\ e.ccxt = Default(row.ccxt, d.ccxt) /\ e.market = Default(row.market, d.market)
               /\ e.settle = Default(row.settle, d.settle)
               /\ e.status = Default(row.status, "active")
<1> DEFINE d == Exchanges[row.exchange]
           a == [row EXCEPT !.ccxt = Default(row.ccxt, d.ccxt)]
           b == [a EXCEPT !.market = Default(row.market, d.market)]
           c == [b EXCEPT !.settle = Default(row.settle, d.settle)]
           e == [c EXCEPT !.status = Default(row.status, "active")]
<1>1. WithDefaults(row) = e
  BY DEF WithDefaults
<1> USE DEF Columns
<1> HIDE DEF d
<1>2. IsRow(a) /\ a.exchange = row.exchange /\ a.name = row.name /\ a.ccxt = Default(row.ccxt, d.ccxt)
  BY SetColumn
<1> HIDE DEF a
<1>3. /\ IsRow(b) /\ b.exchange = a.exchange /\ b.name = a.name /\ b.ccxt = a.ccxt
      /\ b.market = Default(row.market, d.market)
  BY <1>2, SetColumn
<1> HIDE DEF b
<1>4. /\ IsRow(c) /\ c.exchange = b.exchange /\ c.name = b.name /\ c.ccxt = b.ccxt
      /\ c.market = b.market /\ c.settle = Default(row.settle, d.settle)
  BY <1>3, SetColumn
<1> HIDE DEF c
<1>5. /\ e.exchange = c.exchange /\ e.name = c.name /\ e.ccxt = c.ccxt
      /\ e.market = c.market /\ e.settle = c.settle /\ e.status = Default(row.status, "active")
  BY <1>4, SetColumn
<1> HIDE DEF e
<1> QED BY <1>1, <1>2, <1>3, <1>4, <1>5 DEF d

\* What PrepareExchangeAccountForSave lets pass may be stored.
LEMMA ValidPrepared ==
    ASSUME NEW row, IsRow(row), Valid(row), row.name \in STRING, row.settle \in STRING
    PROVE  Prepared(WithDefaults(row))
<1> DEFINE e == WithDefaults(row)
           d == Exchanges[row.exchange]
<1>1. /\ row.exchange \in DOMAIN Exchanges
      /\ e.ccxt \in Exchanges[e.exchange].supported /\ e.market \in MarketTypes
      /\ e.status \in {"active", "disabled"}
  BY DEF Valid
<1>2. e.exchange = row.exchange /\ e.name = row.name /\ e.settle = Default(row.settle, d.settle)
  BY DefaultColumns
<1>3. d.settle \in STRING
  BY <1>1, AccountsAssumption
<1> HIDE DEF e, d
<1>4. e.settle \in STRING
  BY <1>2, <1>3 DEF Default
<1> QED BY <1>1, <1>2, <1>4 DEF Prepared, e

\* The table stays and request r comes to hold a row that may be stored.
LEMMA RowsMove ==
    ASSUME AccountsInv, RowsInv, NEW r \in Request, NEW l, Goto(r, l), accounts' = accounts,
           requests' \in Nat,
           l.pc # "idle" /\ l.op # "delete" => Prepared(l.row)
    PROVE  RowsInv'
<1>1. req'[r] = l /\ \A q \in Request : q # r => req'[q] = req[q]
  BY DEF AccountsInv, RequestPart, Goto
<1> QED BY <1>1 DEF RowsInv

\* The state that a first write leaves.
LEMMA WriteRows ==
    ASSUME AccountsInv, RowsInv, NEW r \in Request, NEW op, NEW i, NEW row, NEW d,
           Write(r, op, i, row, d), Arrives(r), op # "delete" => Prepared(row)
    PROVE  RowsInv'
<1> DEFINE l == [pc |-> IF op # "delete" /\ row.primary THEN "clear" ELSE "save", op |-> op,
                 id |-> i, row |-> row, cleared |-> {}, demotes |-> d, raced |-> FALSE]
<1>1. Goto(r, l)
  BY DEF Write
<1>2. l.op = op /\ l.row = row
  OBVIOUS
<1> HIDE DEF l
<1>3. requests' \in Nat /\ accounts' = accounts
  BY DEF Arrives, RowsInv
<1> QED BY <1>1, <1>2, <1>3, RowsMove

LEMMA CreateRows == ASSUME AccountsInv, RowsInv, NEW r \in Request, Create(r) PROVE RowsInv'
<1>1. PICK row \in Offers : Valid(row) /\ Write(r, "create", 0, WithDefaults(row), FALSE)
  BY DEF Create
<1>2. Prepared(WithDefaults(row))
  BY <1>1, RowsAssumption, ValidPrepared
<1>3. Arrives(r)
  BY DEF Create
<1> QED BY <1>1, <1>2, <1>3, WriteRows

LEMMA UpdateRows == ASSUME AccountsInv, RowsInv, NEW r \in Request, Update(r) PROVE RowsInv'
<1>1. PICK i \in Live, patch \in Patches :
         /\ Valid(Patched(accounts[i], patch))
         /\ Write(r, "update", i, WithDefaults(Patched(accounts[i], patch)),
                  "primary" \in DOMAIN patch /\ ~patch.primary)
  BY DEF Update
<1> DEFINE new == Patched(accounts[i], patch)
<1>2. i \in Id /\ IsRow(accounts[i]) /\ accounts[i].live = TRUE
  BY LiveRow DEF AccountsInv
<1>3. Prepared(accounts[i])
  BY <1>2 DEF RowsInv, Stored, NoAccount
<1>4. IsRow(new)
  BY <1>2, PatchedRow
<1>5. new.name \in STRING /\ new.settle \in STRING
  <2>1. DOMAIN accounts[i] = Columns
    BY <1>2 DEF IsRow
  <2>2. \A f \in Columns : new[f] = IF f \in DOMAIN patch THEN patch[f] ELSE accounts[i][f]
    BY <2>1 DEF Patched
  <2>3. "name" \in Columns /\ "settle" \in Columns
    BY DEF Columns
  <2>4. \A f \in {"name", "settle"} \cap DOMAIN patch : patch[f] \in STRING
    BY RowsAssumption
  <2> HIDE DEF new
  <2> QED BY <1>3, <2>2, <2>3, <2>4 DEF Prepared
<1>6. Prepared(WithDefaults(new))
  <2> HIDE DEF new
  <2>1. Valid(new)
    BY <1>1 DEF new
  <2> QED BY <1>4, <1>5, <2>1, ValidPrepared
<1>7. Arrives(r)
  BY DEF Update
<1> QED BY <1>1, <1>6, <1>7, WriteRows

LEMMA SetPrimaryRows == ASSUME AccountsInv, RowsInv, NEW r \in Request, SetPrimary(r) PROVE RowsInv'
<1>1. PICK i \in Live : Write(r, "set_primary", i, [accounts[i] EXCEPT !.primary = TRUE], FALSE)
  BY DEF SetPrimary
<1>2. i \in Id /\ IsRow(accounts[i]) /\ accounts[i].live = TRUE
  BY LiveRow DEF AccountsInv
<1>3. Prepared(accounts[i])
  BY <1>2 DEF RowsInv, Stored, NoAccount
<1>4. Prepared([accounts[i] EXCEPT !.primary = TRUE])
  BY <1>2, <1>3, MarksFree
<1>5. Arrives(r)
  BY DEF SetPrimary
<1> QED BY <1>1, <1>4, <1>5, WriteRows

LEMMA CommitRows == ASSUME AccountsInv, RowsInv, NEW r \in Request, Commit(r) PROVE RowsInv'
<1> DEFINE t == After(r)
           l == req[r]
<1>1. /\ l.pc = "save" /\ accounts' = t /\ requests' = requests
      /\ req' = [q \in Request |-> IF q = r THEN Idle
                                  ELSE [req[q] EXCEPT !.raced = req[q].pc # "idle"]]
  BY DEF Commit
<1>2. \A i \in Id : t[i] = NoAccount \/ IsRow(t[i])
  BY <1>1, AfterRows
<1>3. ASSUME NEW i \in Id PROVE Stored(t[i])
  <2>1. t[i] = IF i = RowId(r)
               THEN IF l.op = "delete" THEN [accounts[i] EXCEPT !.live = FALSE]
                    ELSE [l.row EXCEPT !.live = TRUE]
               ELSE IF i \in l.cleared THEN [accounts[i] EXCEPT !.primary = FALSE]
               ELSE accounts[i]
    BY DEF After
  <2>2. TablePart /\ (l.op # "delete" => IsRow(l.row) /\ Prepared(l.row))
    BY <1>1 DEF AccountsInv, RequestPart, Planned, RowsInv
  <2>3. Stored(accounts[i])
    BY DEF RowsInv
  <2> HIDE DEF t, l
  <2>4. CASE t[i] = accounts[i]
    BY <2>3, <2>4
  <2>5. CASE l.op # "delete" /\ t[i] = [l.row EXCEPT !.live = TRUE]
    <3>1. Prepared(t[i])
      BY <2>2, <2>5, MarksFree
    <3> QED BY <1>2, <3>1 DEF Stored
  <2>6. CASE t[i] = [accounts[i] EXCEPT !.live = FALSE] \/ t[i] = [accounts[i] EXCEPT !.primary = FALSE]
    <3>1. CASE IsRow(accounts[i]) /\ Prepared(accounts[i])
      <4>1. Prepared(t[i])
        BY <2>6, <3>1, MarksFree
      <4> QED BY <1>2, <4>1 DEF Stored
    <3>2. CASE accounts[i] = NoAccount
      <4>1. NoAccount = [f \in {"live", "exchange"} |-> NoAccount[f]] /\ NoAccount["live"] = FALSE
        BY DEF NoAccount
      <4>2. [NoAccount EXCEPT !.live = FALSE] = NoAccount /\ [NoAccount EXCEPT !.primary = FALSE] = NoAccount
        BY <4>1
      <4> QED BY <2>6, <3>2, <4>2 DEF Stored
    <3> QED BY <2>3, <3>1, <3>2 DEF Stored
  <2> QED BY <2>1, <2>4, <2>5, <2>6
<1>4. ASSUME NEW q \in Request, req'[q].pc # "idle", req'[q].op # "delete" PROVE Prepared(req'[q].row)
  <2>1. q # r
    BY <1>1, <1>4 DEF Idle
  <2> DEFINE k == req[q]
  <2>2. req'[q] = [k EXCEPT !.raced = k.pc # "idle"]
    BY <1>1, <2>1
  <2>3. IsRequest(k)
    BY DEF AccountsInv, RequestPart
  <2>4. k.pc # "idle" /\ k.op # "delete" => Prepared(k.row)
    BY DEF RowsInv
  <2> HIDE DEF k
  <2>5. req'[q].pc = k.pc /\ req'[q].op = k.op /\ req'[q].row = k.row
    BY <2>2, <2>3 DEF IsRequest
  <2> QED BY <1>4, <2>4, <2>5
<1> HIDE DEF t, l
<1> QED BY <1>1, <1>3, <1>4 DEF RowsInv

LEMMA AccountsNextRows == ASSUME AccountsInv, RowsInv, AccountsNext PROVE RowsInv'
<1>1. PICK r \in Request : \/ Create(r) \/ Update(r) \/ Refused(r) \/ SetPrimary(r) \/ Delete(r)
                           \/ ClearPrimaries(r) \/ Commit(r) \/ Rollback(r)
  BY DEF AccountsNext
<1>2. CASE Rollback(r)
  BY <1>2, IdleRequest, RowsMove DEF Rollback, RowsInv
<1>3. CASE Refused(r)
  BY <1>3 DEF Refused, Arrives, RowsInv
<1>4. CASE Delete(r)
  BY <1>4, WriteRows DEF Delete
<1>5. CASE ClearPrimaries(r)
  <2> DEFINE k == req[r]
             l == [k EXCEPT !.pc = "save", !.cleared = ToClear(r)]
  <2>1. /\ k.pc = "clear" /\ Goto(r, l) /\ accounts' = accounts /\ requests' = requests
        /\ IsRequest(k) /\ (k.op # "delete" => Prepared(k.row))
    BY <1>5 DEF ClearPrimaries, AccountsInv, RequestPart, RowsInv
  <2> HIDE DEF k
  <2>2. l.op = k.op /\ l.row = k.row
    BY <2>1 DEF IsRequest
  <2> HIDE DEF l
  <2> QED BY <2>1, <2>2, RowsMove DEF RowsInv
<1> QED BY <1>1, <1>2, <1>3, <1>4, <1>5, CreateRows, UpdateRows, SetPrimaryRows, CommitRows

\* A row that may be stored is one of the table's type.
LEMMA StoredType == ASSUME NEW row, Stored(row) PROVE row = NoAccount \/ row \in Row
<1> SUFFICES ASSUME IsRow(row), Prepared(row) PROVE row \in Row
  BY DEF Stored
<1>1. Exchanges[row.exchange].supported \subseteq STRING
  BY AccountsAssumption DEF Prepared
<1>2. row = [live |-> row.live, exchange |-> row.exchange, name |-> row.name, ccxt |-> row.ccxt,
             market |-> row.market, settle |-> row.settle, status |-> row.status, primary |-> row.primary]
  BY DEF IsRow, Columns
<1>3. row.ccxt \in STRING
  BY <1>1 DEF Prepared
<1> QED BY <1>2, <1>3 DEF Row, Prepared, IsRow
------------------------------------------------------------------------------
(* Types of the catalogue *)

\* What a sync may be asked to sync.
Job == [source : Sources, market : MarketTypes \cup {j.market : j \in RequestedJobs}, settle : STRING]

\* No two of these rows have one identity: the unique index of exchange_markets.
Distinct(ms) == \A m, n \in ms : SameMarket(m, n) => m = n

\* What a sync carries through its steps.
CarriesMarkets(l) ==
    /\ l.jobs \in Seq(Job)
    /\ (l.pc = "idle") <=> (l.jobs = <<>>)
    /\ l.fetched \subseteq Market /\ Distinct(l.fetched)

CatalogueInv ==
    /\ markets \subseteq Market /\ Distinct(markets)
    /\ allow \subseteq Symbols
    /\ \A s \in Sources : listing[s] \in Listings[s]
    /\ listing = [s \in Sources |-> listing[s]]
    /\ \A p \in Syncs : CarriesMarkets(sync[p])

\* The job of an account.
LEMMA JobType == ASSUME NEW a, IsRow(a), Prepared(a) PROVE JobOf(a) \in Job
<1>1. <<a.exchange, a.ccxt>> \in Sources
  BY MarketsAssumption DEF Prepared, Sources
<1>2. a.market \in MarketTypes /\ a.settle \in STRING
  BY DEF Prepared
<1> QED BY <1>1, <1>2 DEF JobOf, Job

\* The jobs of the first n accounts, one after the other.
JobsStep(before, n) ==
    IF n \in Active /\ JobOf(accounts[n]) \notin ToSet(before)
    THEN Append(before, JobOf(accounts[n])) ELSE before

ListsJobs(f, n) ==
    /\ f \in [0 .. n -> Seq(Job)]
    /\ f[0] = <<>>
    /\ \A i \in 1 .. n : f[i] = JobsStep(f[i - 1], i)

\* The least of some numbers.
LEMMA LeastOf ==
    ASSUME NEW T \in SUBSET Nat, T # {}
    PROVE  \E x \in T : \A y \in T : x <= y
<1>1. PICK x \in T : \A y \in T : ~(<<y, x>> \in OpToRel(<, Nat))
  BY NatLessThanWellFounded, WFMin
<1>2. \A y \in T : y \in Nat /\ ~(y < x)
  BY <1>1 DEF OpToRel
<1>3. \A y \in T : x <= y
  BY <1>2
<1> QED BY <1>3

\* Numbers of accounts.
LEMMA IdRange == Cardinality(Id) \in Nat /\ Id = 1 .. Cardinality(Id)
<1>1. Id = 1 .. Cardinality(Id) /\ IsFiniteSet(Id)
  BY AccountsAssumption
<1> QED BY <1>1, FS_CardinalityType

\* One more account adds its job or nothing.
LEMMA JobsStepType ==
    ASSUME AccountsInv, RowsInv, NEW before \in Seq(Job), NEW n
    PROVE  JobsStep(before, n) \in Seq(Job)
<1>1. ASSUME n \in Active PROVE JobOf(accounts[n]) \in Job
  <2>1. n \in Live
    BY <1>1 DEF Active
  <2>2. n \in Id /\ IsRow(accounts[n]) /\ accounts[n].live = TRUE
    BY <2>1, LiveRow DEF AccountsInv
  <2>3. Prepared(accounts[n])
    BY <2>2 DEF RowsInv, Stored, NoAccount
  <2> QED BY <2>2, <2>3, JobType
<1>2. CASE n \in Active /\ JobOf(accounts[n]) \notin ToSet(before)
  <2> DEFINE j == JobOf(accounts[n])
  <2>1. j \in Job
    BY <1>1, <1>2
  <2> HIDE DEF j
  <2>2. Append(before, j) \in Seq(Job)
    BY <2>1
  <2>3. JobsStep(before, n) = Append(before, j)
    BY <1>2 DEF JobsStep, j
  <2> QED BY <2>2, <2>3
<1>3. CASE ~(n \in Active /\ JobOf(accounts[n]) \notin ToSet(before))
  BY <1>3 DEF JobsStep
<1> QED BY <1>2, <1>3

\* There are the lists of the first n accounts for every n.
LEMMA PartialJobs ==
    ASSUME AccountsInv, RowsInv
    PROVE  \E f : ListsJobs(f, Cardinality(Id))
<1> DEFINE N == Cardinality(Id)
           T == {n \in 0 .. N : ~\E f : ListsJobs(f, n)}
<1>1. N \in Nat
  BY IdRange
<1> HIDE DEF N
<1>2. T = {}
  <2> SUFFICES ASSUME T # {} PROVE FALSE
    OBVIOUS
  <2>1. T \in SUBSET Nat
    BY <1>1
  <2>2. PICK n \in T : \A m \in T : n <= m
    BY <2>1, LeastOf
  <2>3. n \in 0 .. N /\ n \in Nat
    BY <2>1
  <2>4. n # 0
    <3>1. ListsJobs([i \in 0 .. 0 |-> <<>>], 0)
      BY DEF ListsJobs
    <3> QED BY <3>1, <2>2
  <2>5. n - 1 \in 0 .. N /\ n - 1 \notin T
    BY <1>1, <2>2, <2>3, <2>4
  <2>6. PICK f : ListsJobs(f, n - 1)
    BY <2>5
  <2> DEFINE g == [i \in 0 .. n |-> IF i = n THEN JobsStep(f[n - 1], n) ELSE f[i]]
  <2>7. ListsJobs(g, n)
    <3>1. /\ f \in [0 .. n - 1 -> Seq(Job)] /\ f[0] = <<>>
          /\ \A i \in 1 .. n - 1 : f[i] = JobsStep(f[i - 1], i)
      BY <2>6 DEF ListsJobs
    <3>2. JobsStep(f[n - 1], n) \in Seq(Job)
      <4>1. n - 1 \in 0 .. n - 1
        BY <2>3, <2>4
      <4> QED BY <3>1, <4>1, JobsStepType
    <3>3. g \in [0 .. n -> Seq(Job)]
      BY <2>3, <3>1, <3>2
    <3>4. g[0] = <<>>
      BY <2>3, <2>4, <3>1
    <3>5. ASSUME NEW i \in 1 .. n PROVE g[i] = JobsStep(g[i - 1], i)
      <4>1. i - 1 \in 0 .. n /\ i - 1 # n /\ i \in 0 .. n /\ g[i - 1] = f[i - 1]
        BY <2>3
      <4>2. CASE i = n
        BY <4>1, <4>2
      <4>3. CASE i # n
        BY <2>3, <3>1, <4>1, <4>3
      <4> QED BY <4>2, <4>3
    <3> HIDE DEF g
    <3> QED BY <3>3, <3>4, <3>5 DEF ListsJobs
  <2> QED BY <2>2, <2>7
<1> QED BY <1>1, <1>2 DEF N

\* SyncActiveAccounts has a list of jobs.
LEMMA ActiveJobsType == ASSUME AccountsInv, RowsInv PROVE ActiveJobs \in Seq(Job)
<1> DEFINE N == Cardinality(Id)
           R(h) == [n \in 0 .. N |-> IF n = 0 THEN <<>>
                                     ELSE IF n \in Active /\ JobOf(accounts[n]) \notin ToSet(h[n - 1])
                                     THEN Append(h[n - 1], JobOf(accounts[n])) ELSE h[n - 1]]
           g == CHOOSE h : h = R(h)
<1>1. N \in Nat
  BY IdRange
<1>2. ActiveJobs = g[N]
  BY DEF ActiveJobs
<1>3. PICK f : ListsJobs(f, N)
  BY PartialJobs
<1> HIDE DEF N
<1>4. \A h : R(h) = [n \in 0 .. N |-> IF n = 0 THEN <<>> ELSE JobsStep(h[n - 1], n)]
  BY DEF JobsStep
<1>5. f = R(f)
  <2>1. f = [n \in 0 .. N |-> f[n]]
    BY <1>3 DEF ListsJobs
  <2>2. \A n \in 0 .. N : f[n] = IF n = 0 THEN <<>> ELSE JobsStep(f[n - 1], n)
    BY <1>1, <1>3 DEF ListsJobs
  <2> HIDE DEF R
  <2> QED BY <1>4, <2>1, <2>2
<1> HIDE DEF R
<1>6. g = R(g)
  BY <1>5
<1> HIDE DEF g
<1> DEFINE T == {n \in 0 .. N : g[n] \notin Seq(Job)}
<1>7. T = {}
  <2> SUFFICES ASSUME T # {} PROVE FALSE
    OBVIOUS
  <2>1. T \in SUBSET Nat
    BY <1>1
  <2>2. PICK n \in T : \A m \in T : n <= m
    BY <2>1, LeastOf
  <2>3. n \in 0 .. N /\ n \in Nat
    BY <2>1
  <2>4. g[n] = IF n = 0 THEN <<>> ELSE JobsStep(g[n - 1], n)
    BY <1>4, <1>6, <2>3
  <2>5. n # 0
    <3>1. <<>> \in Seq(Job)
      OBVIOUS
    <3> QED BY <2>2, <2>4, <3>1
  <2>6. n - 1 \in 0 .. N /\ n - 1 \notin T
    BY <1>1, <2>2, <2>3, <2>5
  <2>7. g[n - 1] \in Seq(Job)
    BY <2>6
  <2> QED BY <2>2, <2>4, <2>5, <2>7, JobsStepType
<1> QED BY <1>1, <1>2, <1>7

\* What FetchMarkets keeps of a listing: markets of its source, one of a kind.
LEMMA WantedType ==
    ASSUME CatalogueInv, NEW job \in Job, Acceptable(Models(job)), NEW on
    PROVE  Wanted(job, on) \subseteq Market /\ Distinct(Wanted(job, on))
<1> DEFINE l == listing[job.source]
           ms == Models(job)
           Entry == [raw : DOMAIN Normal, market : STRING, settle : STRING]
<1>1. job.source \in Sources /\ job.settle \in STRING
  BY DEF Job
<1>2. l \in Seq(Entry)
  BY <1>1, MarketsAssumption DEF CatalogueInv, Sources
<1>3. ms = [n \in DOMAIN l |-> ModelOf(l[n], job)]
  BY DEF Models
<1>4. DOMAIN l \subseteq Int /\ DOMAIN ms = DOMAIN l /\ \A n \in DOMAIN l : l[n] \in Entry
  <2> HIDE DEF l, ms, Entry
  <2>1. Len(l) \in Nat /\ DOMAIN l = 1 .. Len(l)
    BY <1>2
  <2>2. \A n \in 1 .. Len(l) : l[n] \in Entry
    BY <1>2
  <2>3. DOMAIN ms = DOMAIN l
    BY <1>3
  <2> QED BY <2>1, <2>2, <2>3
<1>5. ASSUME NEW n \in DOMAIN ms PROVE ms[n] \in Market
  <2> DEFINE e == l[n]
  <2>1. e.raw \in DOMAIN Normal /\ e.settle \in STRING
    BY <1>4
  <2>2. ms[n] = ModelOf(e, job)
    BY <1>3, <1>4
  <2>3. ms[n].symbol # "" /\ ms[n].market \in MarketTypes \cup {"option", ""}
    BY DEF Acceptable
  <2> HIDE DEF e, ms
  <2> DEFINE mt == Default(e.market, job.market)
             st == Default(e.settle, job.settle)
  <2>4. ms[n] = [source |-> job.source, raw |-> e.raw, symbol |-> Normal[e.raw],
                 market |-> mt, settle |-> st]
    BY <2>2 DEF ModelOf
  <2>5. st \in STRING
    BY <1>1, <2>1 DEF Default
  <2> HIDE DEF mt, st
  <2>6. ms[n].symbol = Normal[e.raw] /\ ms[n].market = mt
    BY <2>4
  <2>7. Normal[e.raw] \in Symbols
    BY <2>1, <2>3, <2>6 DEF Symbols
  <2>8. mt \in MarketTypes \cup {"option", ""}
    BY <2>3, <2>6
  <2> DEFINE src == job.source
             raw == e.raw
             sym == Normal[e.raw]
             Types == MarketTypes \cup {"option", ""}
  <2>9. /\ src \in Sources /\ raw \in DOMAIN Normal /\ sym \in Symbols /\ mt \in Types
        /\ ms[n] = [source |-> src, raw |-> raw, symbol |-> sym, market |-> mt, settle |-> st]
    BY <1>1, <2>1, <2>4, <2>7, <2>8
  <2>10. Market = [source : Sources, market : Types, settle : STRING, symbol : Symbols, raw : DOMAIN Normal]
    BY DEF Market
  <2> HIDE DEF src, raw, sym, Types
  <2> QED BY <2>5, <2>9, <2>10
<1> HIDE DEF ms, l
<1>6. LastOfEach(ms) \subseteq Market
  BY <1>5 DEF LastOfEach
<1>7. Distinct(LastOfEach(ms))
  <2> SUFFICES ASSUME NEW j \in DOMAIN ms, NEW k \in DOMAIN ms,
                      \A i \in DOMAIN ms : i > j => ~SameMarket(ms[j], ms[i]),
                      \A i \in DOMAIN ms : i > k => ~SameMarket(ms[k], ms[i]),
                      SameMarket(ms[j], ms[k])
               PROVE  ms[j] = ms[k]
    BY DEF Distinct, LastOfEach
  <2>1. SameMarket(ms[k], ms[j])
    BY DEF SameMarket
  <2>2. j \in Int /\ k \in Int /\ ~(k > j) /\ ~(j > k)
    BY <1>4, <2>1
  <2> QED BY <2>2
<1>8. Wanted(job, on) \subseteq LastOfEach(ms)
  BY DEF Wanted, OfType, Allowed, ms
<1> QED BY <1>6, <1>7, <1>8 DEF Distinct

\* UpsertExchangeMarkets keeps the index.
LEMMA UpsertedDistinct ==
    ASSUME NEW ms, Distinct(ms), ms \subseteq Market, NEW new, Distinct(new), new \subseteq Market
    PROVE  Distinct(Upserted(ms, new)) /\ Upserted(ms, new) \subseteq Market
<1>1. \A m, n : SameMarket(m, n) => SameMarket(n, m)
  BY DEF SameMarket
<1> QED BY <1>1 DEF Distinct, Upserted

\* A sync moves on.
LEMMA CatalogueMoves ==
    ASSUME SyncInv, CatalogueInv, NEW p \in Syncs, NEW l, Enter(p, l), CarriesMarkets(l),
           UNCHANGED <<allow, listing>>, markets' \subseteq Market, Distinct(markets')
    PROVE  CatalogueInv'
<1>1. sync'[p] = l /\ \A q \in Syncs : q # p => sync'[q] = sync[q]
  BY DEF SyncInv, Enter
<1> QED BY <1>1 DEF CatalogueInv

\* The state before a sync, and one that begins.
LEMMA CarriesNone == CarriesMarkets(Resting)
<1>1. Resting.pc = "idle" /\ Resting.jobs = <<>> /\ Resting.fetched = {}
  BY DEF Resting
<1>2. <<>> \in Seq(Job)
  OBVIOUS
<1> QED BY <1>1, <1>2 DEF CarriesMarkets, Distinct

LEMMA CarriesStart ==
    ASSUME NEW jobs \in Seq(Job), jobs # <<>> PROVE CarriesMarkets(Starting(jobs))
<1>1. /\ Starting(jobs).pc = "allow" /\ Starting(jobs).jobs = jobs
      /\ Starting(jobs).fetched = {}
  BY DEF Starting, Resting
<1> QED BY <1>1 DEF CarriesMarkets, Distinct

\* The jobs that are left, or the end.
LEMMA CarriesRest ==
    ASSUME SyncInv, CatalogueInv, NEW p \in Syncs, sync[p].pc # "idle", NextJob(p),
           UNCHANGED <<allow, listing>>, markets' \subseteq Market, Distinct(markets')
    PROVE  CatalogueInv'
<1> DEFINE k == sync[p]
           rest == Tail(k.jobs)
           l == [k EXCEPT !.pc = "fetch", !.jobs = rest, !.fetched = {}]
<1>1. Enter(p, IF rest = <<>> THEN Resting ELSE l)
  BY DEF NextJob
<1>2. CarriesMarkets(k) /\ IsSync(k) /\ k.pc # "idle"
  BY DEF CatalogueInv, SyncInv
<1> HIDE DEF k
<1>3. rest \in Seq(Job)
  BY <1>2 DEF CarriesMarkets
<1> HIDE DEF rest
<1>4. l.pc = "fetch" /\ l.jobs = rest /\ l.fetched = {}
  BY <1>2 DEF IsSync
<1> HIDE DEF l
<1>5. CASE rest = <<>>
  BY <1>1, <1>5, CarriesNone, CatalogueMoves
<1>6. CASE rest # <<>>
  <2>1. CarriesMarkets(l)
    BY <1>3, <1>4, <1>6 DEF CarriesMarkets, Distinct
  <2> QED BY <1>1, <1>6, <2>1, CatalogueMoves
<1> QED BY <1>5, <1>6

LEMMA CatalogueNext ==
    ASSUME AccountsInv, RowsInv, SyncInv, CatalogueInv, [Next]_vars PROVE CatalogueInv'
<1>1. CASE AccountsNext /\ UNCHANGED marketVars
  BY <1>1 DEF marketVars, CatalogueInv
<1>2. CASE BeginBatch
  <2>1. Enter("scheduler", Starting(ActiveJobs)) /\ ActiveJobs # <<>> /\ UNCHANGED <<markets, allow, listing>>
    BY <1>2 DEF BeginBatch
  <2>2. CarriesMarkets(Starting(ActiveJobs))
    BY <2>1, ActiveJobsType, CarriesStart
  <2>3. "scheduler" \in Syncs
    BY DEF Syncs
  <2> QED BY <2>1, <2>2, <2>3, CatalogueMoves DEF CatalogueInv
<1>3. ASSUME NEW p \in Syncs, BeginRequested(p) PROVE CatalogueInv'
  <2>1. PICK job \in RequestedJobs : Enter(p, Starting(<<job>>))
    BY <1>3 DEF BeginRequested
  <2>2. UNCHANGED <<markets, allow, listing>>
    BY <1>3 DEF BeginRequested
  <2>3. job \in Job
    BY MarketsAssumption DEF Job, Sources
  <2>4. <<job>> \in Seq(Job) /\ <<job>> # <<>>
    BY <2>3
  <2> QED BY <2>1, <2>2, <2>4, CarriesStart, CatalogueMoves DEF CatalogueInv
<1>4. ASSUME NEW p \in Syncs, Step(p) PROVE CatalogueInv'
  <2> DEFINE k == sync[p]
  <2>1. IsSync(k) /\ CarriesMarkets(k)
    BY DEF SyncInv, CatalogueInv
  <2>2. CASE LoadAllowlist(p)
    <3> DEFINE l == [k EXCEPT !.pc = "fetch", !.allow = allow]
    <3>1. Enter(p, l) /\ k.pc = "allow" /\ UNCHANGED <<markets, allow, listing>>
      BY <2>2 DEF LoadAllowlist
    <3> HIDE DEF k
    <3>2. l.pc = "fetch" /\ l.jobs = k.jobs /\ l.fetched = k.fetched
      BY <2>1 DEF IsSync
    <3> HIDE DEF l
    <3>3. CarriesMarkets(l)
      BY <2>1, <3>1, <3>2 DEF CarriesMarkets
    <3> QED BY <3>1, <3>3, CatalogueMoves DEF CatalogueInv
  <2>3. CASE AllowlistFails(p)
    BY <2>3, CarriesNone, CatalogueMoves DEF AllowlistFails, CatalogueInv
  <2>4. CASE FetchMarkets(p)
    <3> DEFINE job == Head(k.jobs)
               x == Wanted(job, k.allow)
               l == [k EXCEPT !.pc = "upsert", !.fetched = x]
    <3>1. /\ Enter(p, l) /\ k.pc = "fetch" /\ Acceptable(Models(job))
          /\ UNCHANGED <<markets, allow, listing>>
      BY <2>4 DEF FetchMarkets
    <3> HIDE DEF k
    <3>2. job \in Job
      BY <2>1, <3>1 DEF CarriesMarkets
    <3> HIDE DEF job
    <3>3. x \subseteq Market /\ Distinct(x)
      BY <3>1, <3>2, WantedType
    <3> HIDE DEF x
    <3>4. l.pc = "upsert" /\ l.jobs = k.jobs /\ l.fetched = x
      BY <2>1 DEF IsSync
    <3> HIDE DEF l
    <3>5. CarriesMarkets(l)
      BY <2>1, <3>1, <3>3, <3>4 DEF CarriesMarkets
    <3> QED BY <3>1, <3>5, CatalogueMoves DEF CatalogueInv
  <2>5. CASE UpsertMarkets(p)
    <3> DEFINE l == [k EXCEPT !.pc = "prune"]
    <3>1. /\ Enter(p, l) /\ k.pc = "upsert" /\ UNCHANGED <<allow, listing>>
          /\ markets' = Upserted(markets, k.fetched)
      BY <2>5 DEF UpsertMarkets
    <3> HIDE DEF k
    <3>2. l.pc = "prune" /\ l.jobs = k.jobs /\ l.fetched = k.fetched
      BY <2>1 DEF IsSync
    <3> HIDE DEF l
    <3>3. CarriesMarkets(l)
      BY <2>1, <3>1, <3>2 DEF CarriesMarkets
    <3>4. markets' \subseteq Market /\ Distinct(markets')
      BY <2>1, <3>1, UpsertedDistinct DEF CatalogueInv, CarriesMarkets
    <3> QED BY <3>1, <3>3, <3>4, CatalogueMoves
  <2>6. CASE PruneMarkets(p)
    <3>1. /\ k.pc = "prune" /\ NextJob(p) /\ UNCHANGED <<allow, listing>>
          /\ markets' \subseteq markets
      BY <2>6 DEF PruneMarkets
    <3>2. markets' \subseteq Market /\ Distinct(markets')
      BY <3>1 DEF CatalogueInv, Distinct
    <3> QED BY <3>1, <3>2, CarriesRest
  <2>7. CASE ListingRefused(p) \/ AccountFails(p)
    <3>1. k.pc # "idle" /\ NextJob(p) /\ UNCHANGED <<markets, allow, listing>>
      BY <2>7 DEF ListingRefused, AccountFails
    <3> QED BY <3>1, CarriesRest DEF CatalogueInv
  <2> QED BY <1>4, <2>2, <2>3, <2>4, <2>5, <2>6, <2>7 DEF Step
<1>5. CASE ChangeAllowlist
  <2>1. PICK s \in AllowSets : /\ allow' = s
                              /\ sync' = [p \in Syncs |-> [sync[p] EXCEPT !.steady = @ \cap s]]
    BY <1>5 DEF ChangeAllowlist
  <2>2. UNCHANGED <<markets, listing>> /\ s \subseteq Symbols
    BY <1>5, MarketsAssumption DEF ChangeAllowlist, Symbols
  <2>3. ASSUME NEW p \in Syncs PROVE CarriesMarkets(sync'[p])
    <3> DEFINE k == sync[p]
    <3>1. sync'[p] = [k EXCEPT !.steady = k.steady \cap s]
      BY <2>1
    <3>2. IsSync(k) /\ CarriesMarkets(k)
      BY DEF SyncInv, CatalogueInv
    <3> HIDE DEF k
    <3>3. sync'[p].pc = k.pc /\ sync'[p].jobs = k.jobs /\ sync'[p].fetched = k.fetched
      BY <3>1, <3>2 DEF IsSync
    <3> QED BY <3>2, <3>3 DEF CarriesMarkets
  <2> QED BY <2>1, <2>2, <2>3 DEF CatalogueInv
<1>6. CASE ChangeListing
  <2>1. PICK s \in Sources : \E x \in Listings[s] : listing' = [listing EXCEPT ![s] = x]
    BY <1>6 DEF ChangeListing
  <2>2. UNCHANGED <<markets, allow, sync>>
    BY <1>6 DEF ChangeListing
  <2>3. /\ listing' = [t \in Sources |-> listing'[t]]
        /\ \A t \in Sources : listing'[t] \in Listings[t]
    BY <2>1 DEF CatalogueInv
  <2> QED BY <2>2, <2>3 DEF CatalogueInv
<1>7. CASE UNCHANGED vars
  BY <1>7 DEF vars, marketVars, CatalogueInv
<1> QED BY <1>1, <1>2, <1>3, <1>4, <1>5, <1>6, <1>7 DEF Next

\* The types, among them that the index of exchange_markets holds: no sync stores
\* two rows for one market, whatever an exchange lists twice, and every stored
\* account has passed PrepareExchangeAccountForSave.
THEOREM MarketsTypeCorrect == Spec => []MarketsTypeOK
<1> DEFINE Inv == AccountsInv /\ RowsInv /\ SyncInv /\ CatalogueInv
<1>1. Init => Inv
  <2> SUFFICES ASSUME Init PROVE Inv
    OBVIOUS
  <2>1. AccountsInv
    BY AccountsInitInv DEF Init
  <2>2. SyncInv
    BY RestingSync DEF Init, SyncInv
  <2>3. RowsInv
    <3>1. PICK rows \in Created : accounts = TableOf(rows)
      BY DEF Init, AccountsInit
    <3>2. \A i \in Id : Stored(accounts[i])
      BY <3>1, RowsAssumption DEF TableOf, Stored
    <3>3. \A r \in Request : req[r].pc = "idle"
      BY IdleRequest DEF Init, AccountsInit
    <3>4. requests \in Nat
      <4>1. PICK b \in Budgets : requests = b.requests
        BY DEF Init
      <4>2. b \in [requests : Nat, asked : Nat, failures : Nat, changes : Nat, scheduled : BOOLEAN]
        BY MarketsAssumption
      <4> QED BY <4>1, <4>2
    <3> QED BY <3>2, <3>3, <3>4 DEF RowsInv
  <2>4. CatalogueInv
    <3>1. allow \subseteq Symbols
      BY MarketsAssumption DEF Init, Symbols
    <3>2. listing = [s \in Sources |-> listing[s]] /\ \A s \in Sources : listing[s] \in Listings[s]
      BY DEF Init
    <3>3. \A p \in Syncs : CarriesMarkets(sync[p])
      BY CarriesNone DEF Init
    <3> QED BY <3>1, <3>2, <3>3 DEF Init, CatalogueInv, Distinct
  <2> QED BY <2>1, <2>2, <2>3, <2>4
<1>2. Inv /\ [Next]_vars => Inv'
  <2> SUFFICES ASSUME Inv, [Next]_vars PROVE Inv'
    OBVIOUS
  <2>1. CASE UNCHANGED accountVars
    BY <2>1, SyncNextInv, CatalogueNext
       DEF accountVars, AccountsInv, TablePart, RequestPart, Primaries, Live, RowsInv
  <2>2. CASE AccountsNext
    BY <2>2, AccountsNextInv, AccountsNextRows, SyncNextInv, CatalogueNext
  <2> QED BY <2>1, <2>2, NextAccounts
<1>3. Inv => MarketsTypeOK
  <2> SUFFICES ASSUME Inv PROVE MarketsTypeOK
    OBVIOUS
  <2>1. AccountsTypeOK
    BY StoredType DEF AccountsTypeOK, AccountsInv, RequestPart, IsRequest, RowsInv
  <2>2. \A p \in Syncs : /\ sync[p].pc \in {"idle", "allow", "fetch", "upsert", "prune"}
                        /\ sync[p].fetched \subseteq Market
                        /\ (sync[p].pc = "idle") = (sync[p].jobs = <<>>)
    BY DEF SyncInv, IsSync, CatalogueInv, CarriesMarkets
  <2> QED BY <2>1, <2>2 DEF MarketsTypeOK, CatalogueInv, Distinct
<1> QED BY <1>1, <1>2, <1>3, PTL DEF Spec
==============================================================================
