# A verification of wunderdns

wunderdns is a multitenant API for the PostgreSQL databases of PowerDNS: clients
send requests over AMQP (or over HTTP, through a gateway that turns them into
AMQP messages), and the server edits the `records`, `records_api` and `domains`
tables of every database of the requested view. This directory holds TLA+ models
of its Go code, the TLC runs that check them, and TLAPS proofs about them.
`PROJECT.json` maps every definition to the lines it models and lists the runs,
the hazards, the findings and the theorems.

## 1. Inventory

| Component (code) | State it keeps | Operations | Interacts through |
|---|---|---|---|
| Writing commands (`wunderdns/orm.go`) | the three tables of every `[psql.*]` database; an open transaction and local variables per goroutine | `create_domain`, `create_record`, `delete_record`, `replace_record`, `replace_owner`, `ormUpdateSOA`, the loop `ormApplyCommand` | SQL, with other goroutines and other processes; row locks; the auth lock |
| Zone serial (`utils.go`) | none (reads the clock) | `generateNewSerial` | called by `ormUpdateSOA` and the SOA checker |
| RFC checks (`dns.go`) | none, but it fills in the request's ttl | `checkRFCRequest`, one checker per type | called by `processMessage`, before the database |
| Authentication, permissions (`auth.go`) | the auth database, `authDataLock` | `securityProcessRequest`, `checkIfCanMigrate` | read by every handler, written by the Vault sync |
| Vault sync (`vault.go`, `run.go`) | the Vault part of the auth database | `syncVaultData`, at start and every ttl | HTTP calls to Vault while it holds the write lock |
| AMQP server (`queue.go`, `run.go`) | connections, the map `queues`, `checkChannel` | `startAMQPQueue`, `processMessage`, the reply functions, `Run` | the broker; one goroutine per message |
| HTTP gateway (`httpapi/`) | per call: the parts sent and what they returned; a reply queue per message | `StartAPI`, the endpoints, `signAndPush`, `mergeReply`, `pushMessage` | the broker; by default the server's process |
| Reading commands (`orm.go`) | none | `list_records`, `list_own`, `list_domains`, `search_record` | SQL |
| Configuration (`config.go`) | the start-up configuration | the section parsers, `include` | read once |
| Logging, command line (`logging.go`, `main.go`) | the log level | start of server and gateway | one process for both, or one each |

What is hard in each, and what makes it correct:

- **Writing commands.** Every message has a goroutine of its own, transactions
  are READ COMMITTED, and most commands read rows, decide in Go and write later.
  A request goes to several databases in separate transactions; the request's
  records are modified in place between them. Correct: no tenant's record is
  changed by another (but see section 5); the serial rises with each change of a zone; a zone never
  loses its SOA; a CNAME is alone at its name, a PTR or SOA the only one there; the databases of a view agree;
  everybody is answered.
- **Authentication and Vault sync.** A read-write lock is held during calls to
  Vault by the writer, and while waiting for row locks by `replace_owner`.
  Correct: readers never see a half-made change; a sync never touches the
  configured tokens, and leaves the others as Vault had them; no lock is waited
  for forever; the signature window accepts nothing older than it says.
- **AMQP server and client.** Goroutines share a loop variable and an unlocked
  map; messages are acknowledged before they are handled; connections are lost;
  clients time out. Correct: every configured exchange is served; a client is
  told what became of its request; nothing is handled twice; a server that
  cannot serve ends.
- **HTTP gateway.** One HTTP call becomes a message per record, or per view,
  sent one after another, each waiting up to 15 minutes; some handlers recover
  from a panic, in two ways, and one does not; the gateway and the server may end
  each other. Correct: the one answer agrees with what became of all the parts;
  a call that is turned away changes nothing; every call is answered.
- **Reading commands.** A list reads several databases one after another while
  others write them, and does not look at the errors of its statements. Correct:
  an answer is whole and true, for every database it is made from.

## 2. Plan

Modules in the order of importance; all rows but the last are done.

| Modules | What | Abstract specification | Theorems |
|---|---|---|---|
| `SoaSerial`, `OrmCommands`, `TenantZones`, `MCOrmCommands`, `OrmCommands_proofs`, `SoaKept_proofs`, `OneByOne_proofs` | writing commands on READ COMMITTED databases | `TenantZones`, refined by `OrmCommands` | inductive invariant, refinement, serial; zones keep their SOA; what holds without overlap |
| `AuthSync`, `MCAuthSync`, `AuthSync_proofs` | auth database, lock, sync, permissions | – | inductive invariant, what a sync leaves, readers undisturbed |
| `SignatureWindow`, `SignatureWindow_proofs` | the loop over the clock | – | types, both promises |
| `AmqpServer`, `MCAmqpServer`, `AmqpServer_proofs` | consumers, replies, clients, the end of the process | – | `Delivery`, and with it types, true answers, at most once |
| `HttpGateway`, `HttpPromise`, `MCHttpGateway`, `HttpGateway_proofs` | the HTTP endpoints before the AMQP server | `HttpPromise`, refined by `HttpGateway` | refinement, order of the parts |
| `ReadCommands`, `MCReadCommands`, `ReadCommands_proofs` | the reading commands beside the writing ones | – | true replies; the writing commands' invariant, refinement and SOAs beside readers |
| `RecordChecks` (later) | the checkers of `dns.go` as operators against the shapes the RFCs give | reference definitions | shapes that `OrmCommands` assumes |

`OrmCommands` EXTENDS `SoaSerial` and INSTANCEs `TenantZones`; `ReadCommands`
EXTENDS `OrmCommands` and adds readers of the same databases; `HttpGateway`
EXTENDS `AmqpServer`, whose clients are its calls' parts, and INSTANCEs
`HttpPromise`. `AuthSync` and `AmqpServer` each abstract what the other modules
detail: a transaction is one row lock in `AuthSync` and one outcome in
`AmqpServer`; `OrmCommands` takes requests that have passed the permission
checks.

## 3. What the modules model

**`OrmCommands`** – one action is one SQL statement (for UPDATE and DELETE: one
row of it) with the Go code up to the next; only the look-up and the INSERTs of
one record (`CreateRecord`, `ReplaceInsert`) are one action. Rows with new ids
are nobody else's to see or to wait for before the COMMIT, so where in the
transaction they are inserted does not show. The committed state is `zones`
(`domains`), `rows` (`records` and its child table `records_api`; a row is in
the child iff it has an owner) and `nextId` (the sequence, which never rolls
back). Each goroutine has a transaction `tx[w]` (the rows it has locked, the
versions it has written, the zones it has inserted), the request, its records
(which `delete_record` modifies), a program counter and local variables.
`ViewOf` is what a READ COMMITTED statement sees: the committed rows overlaid
with the transaction's own. `LockedByOther` and `ZonePending` make statements
wait, `InCycle` and `DeadlockAbort` are PostgreSQL's deadlock detection.
`NextDatabase` is `ormApplyCommand`'s loop. Faults are a lost connection, a
COMMIT whose answer is lost, and a crash of the process; `Panic` is the index out
of range that `delete_record` can meet. `EmptyData`, `NoSoa`, `CannotBegin`,
`SoaVanished`, `InsertNothing` and so on are the code's early returns and the
corners of gorm's `FirstOrCreate` and `Save` (an UPDATE; when it affects no row, a
look-up; when that finds none, an INSERT). A DELETE that waited for a row and
finds that it no longer matches keeps no lock on it here; PostgreSQL would keep
one until the transaction ends, so the model allows more interleavings, not
fewer.

**`SoaSerial`** – `generateNewSerial` over numbered days: a date has
`SerialsPerDay` serials (100 in the code; `YYYYMMDD00` increases with the day,
which is all that is used of the calendar).

**`TenantZones`** – what the code keeps of `README.md:5`, "if you create a record,
nobody else can change it", in terms of the committed databases and of the
handovers that are being asked for (`asked`: which token asks which row to be
whose). An edit makes, drops or restamps rows for the token that owns them. A
handover changes rows only as a token has asked (`AskFor`) of rows that were its
own then. By the time it is made they may be another token's: that one exception
is what `orm.go:278` does, `HandoverByOwner` is the promise without it, and
`concurrent_handovers` is the run that refutes that for requests that overlap.
The refinement gives `asked` the value `Wished`: what the open transactions of
`replace_owner` have read as their token's and not yet committed.

**`AuthSync`** – the handlers (`Arrive`, `Authenticate`, `Accept`/`Reject`, then
per database `Begin`, `Migrate`, `Update`, `Return`, `Commit`) and the sync
(`StartSync`, `LockAuth`, `List`, `Get`, `UpdateTokens`, `AddTokens`,
`DeleteTokens`, `UnlockAuth`, with `ListFails` and `GetFails`), each a step
between two points where the other side can interfere. The lock is Go's: a
waiting writer keeps new readers out (`queued`), and they come in when it
unlocks. The parsers' dropping of unknown views and commands is `Permissions`, and
what they make of a key of one, two or more parts is `KeyDomain`; masks are suffixes over a small alphabet. `ChangeVault` changes Vault at any time.

**`SignatureWindow`** – `checkAuthentication`'s loop, whose every turn reads the
clock again; seconds are counted in periods of 30.

**`AmqpServer`** – `Run` starts the consumers with the shared loop variable `c`;
a consumer connects, registers in `queues`, and starts a goroutine per message;
`pushMessage` publishes, waits and times out. `inbox` is a consumer's exclusive
queue, a set, since each message has a goroutine and order is lost anyway. A
lost connection takes any part of what was not yet delivered. `MapRace` is the
Go runtime's reaction to unsynchronised accesses of `queues`. The end of a
consumer's loop (`<-v`) has no action: nothing sends on that channel.
`OpenDatabases` and `CannotOpen` are `initORMs`; `CannotPush` is any call of
`pushMessage` that fails before the publication. `outcomes` is a history: what
handling a request came to, per consumer.

**`HttpGateway`** – a call (`Ask`) is checked (`Refuse`, `RejectFields`,
`RejectItems`, `AbortMigration`), taken apart into as many messages as
`PartsOf` says, which `Send` sends in turn (`Continues`: when the one before
has returned), and answered (`Finish`, or `PanicAmid`). What a call asks is a
record of its command, the flaw its checks find, the view, and for each of its
records whether it is usable; the strings are left out. A panic is answered as
`record.go` recovers (ERROR), as `domain.go` does (a nil reply, sent as `null`)
or, in `migrate.go`, not at all. `Together` is whether `main.go` runs both
parts in one process, where `CannotServe` and the server's end are one end.

**`HttpPromise`** – what a client of the gateway may rely on: an answer names as
done only parts that have been applied, all of them when it is SUCCESS, and
nothing is ever applied of a call that was turned away. An ERROR does not say
that nothing was or will be done; the code does not either.

**`ReadCommands`** – a reader runs its statements (`FindZone`, `ReadRows`) in a
transaction per database and goes on as `ormApplyCommandMerge` does
(`ReadNext`). `StatementFails` is any failing statement: the code ignores the
error, reads nothing, and relies on the COMMIT of the aborted transaction to
fail. `Found` is what a statement finds, `Item` what the reply shows of a row
(`search_record` leaves the priority of MX and SRV out). `always` and `ever` are
histories from the start of the read.

The properties, in the order of their modules:

| Property | Says |
|---|---|
| `RowIdentity`, `OpenTransactions` | copies of an id are copies of one row; a transaction holds only what its token may change, under locks nobody else holds |
| `TenantSpec` | every commit is an edit by the rows' owner, a handover that a token asked for when the rows were its own, or a new zone of `TenantZones` |
| `SoaSurvives` | a zone with an SOA keeps one |
| `SingleRecords` | a CNAME is alone at its name; at most one PTR and one SOA there |
| `SerialBumped` | a commit that changes what a zone answers raises its serial |
| `ReplicasAgree` | between requests the databases of a view hold the same records, unless there was a fault |
| `HandoverByOwner` | a row is handed over by the token that owns it then |
| `EventuallyReplied` | a request is answered or dies with its process |
| `ConfigKept`, `Refreshed`, `Converges` | what a sync leaves of configured tokens, of Vault's tokens at once, and of them in the end |
| `StableForReaders`, `MigrateTarget` | no change under the read lock; a new owner exists |
| `EventuallyAnswered` (`AuthSync`) | neither Vault nor the row locks block a handler for good |
| `EventuallyAnswered` (`HttpGateway`) | a call is answered unless the process ends |
| `AcceptsOnlyFresh`, `RejectsOnlyStale` | what the window accepts and turns down |
| `TrueAnswers`, `AtMostOnce`, `Delivery` | a client is told what handling came to; no consumer handles a request twice, nor one reported unsent; a request is in one place and each reply is backed |
| `EveryExchangeServed`, `ExitsWithoutQueues` | what `wunderdns.ini` and `run.go` say of the consumers |
| `InTurn`, `PromiseKept` | a call's parts are sent one after another; the gateway, the server and the broker implement `HttpPromise` |
| `ReadInv` | what a reader has shown and asked so far is true: the invariant of its proof |
| `ReadsTrue` | a SUCCESS shows all that its databases held throughout the read, and nothing they never held in it |

## 4. The runs

| Run | Instance | Shows |
|---|---|---|
| `tenants` | 3 handlers, a public and a private database, fairness; an SOA handed over and back and replaced, a create beside it, and an item-by-item delete in both views, which panics in the second | `RowIdentity`, `OpenTransactions`, `IInv` of the proofs and `TenantSpec` under every interleaving; `EventuallyReplied`, through deadlocks too |
| `reads` | 2 handlers and a reader of all views, a public and a private database, 1 fault; a zone that is absent or has one SOA or two | `OpenTransactions`, `TenantSpec`, `SoaSurvives`, `ReadsTrue`, and `ReadInv` of its proof |
| `sequential` | 3 requests one after another, 2 replicas with the zone or without, 2 days, 1 fault | `TypeOK`, `SingleRecords`, `ReplicasAgree`, `SerialBumped`, `HandoverByOwner` hold without overlap |
| `auth` | 2 handlers, a configured token and Vault's, 1 change, 1 fault, fairness | all properties of `AuthSync`, and its `IInv` |
| `window` | a window of 3 periods, 10 periods of time | both promises |
| `gateway` | one call of ten kinds, 2 parts, 2 consumers, 1 lost connection, one process, fairness | `TypeOK`, `TrueAnswers`, `AtMostOnce`, `Delivery` of the server, `InTurn`, `PromiseKept`, `EventuallyAnswered` |
| `concurrent_creates`, `concurrent_handovers`, `concurrent_serials`, `replicas_srv`, `amqp_exchanges`, `amqp_exit` | as small as shows it | violations, section 5 |

Bounds and why they are enough. Two handlers make every race between two
transactions, the third lets one commit between two steps of a pair; rows of
one zone with one name beside the apex are where all conflicts are, since no
statement joins zones. `MaxInFlight` is how many requests overlap (1 for the
sequential promises), `MaxDay` reaches one midnight, `SerialsPerDay = 2` makes a
day's serials run out, `MaxFaults` gives one fault anywhere in `reads` and
`sequential` (`tenants` has three handlers and two databases instead, and the
panic as its only fault; the theorems have any number of faults). In `AuthSync` one
change of Vault meets one sync or falls between two, a second would repeat this,
as the sync keeps nothing between its rounds but the auth database. In
`HttpGateway` two consumers are the two sections of `wunderdns.ini`, which may
both come to serve one exchange; two parts make a first and a last one, and one
call is enough, since calls share nothing but the server (the theorems are for
any number); the ten kinds of call take every path of the checks. In
`ReadCommands` two handlers change the databases before, between and after the
reader's statements. Where TLC's instance is small and the property
has a theorem, the theorem has no such bounds. `CHECK_DEADLOCK FALSE` is said
for `window` (the check is over), `gateway` and `amqp_exit` (nothing is left to
handle).

Fairness. `WF(Handle(w))` for every goroutine: Go's scheduler runs each, each
SQL statement returns (PostgreSQL queues lock waits and resolves deadlocks), and
a sync's HTTP calls have a timeout of ten seconds. `WF(Synchronise)`: the
goroutine of `run.go:30` loops forever. `HttpGateway` needs fairness of a call's
own goroutine alone, whose waits end with the timer of `pushMessage`; the server
may do nothing. `amqp_exit` assumes fairness of `Run`, the consumers, the handlers
and the clients. Nothing is assumed
about clients, Vault's content or faults, and no strong fairness anywhere.

## 5. Findings

Each is a run that TLC must refute; `PROJECT.json` quotes the lines.

- `concurrent_creates`: the duplicate check of `create_record` and its INSERT
  are two statements without a lock or an index; two PTRs at one name result.
- `concurrent_handovers`: `replace_owner` selects rows by their owner and updates
  them by id only (`orm.go:278`): of two handovers of a row at once, the later
  takes it from the token that has just got it, and both are answered SUCCESS.
- `concurrent_serials`: `ormUpdateSOA` reads, adds one in Go and saves; two
  changes publish one serial.
- `replicas_srv`: `delete_record` of an SRV by its data strips the shared
  request in place; the second database deletes nothing. The MX form panics in
  the second database (the `tenants` run has that panic as a step).
- `amqp_exchanges`: the consumers read the loop variable late; the sample
  configuration's two exchanges may be served as one exchange twice.
- `amqp_exit`: a consumer whose connection is lost stays in `queues` for good,
  so the process neither serves nor ends, nor says "Zero queues left".

Seen while modelling, and without a run of their own:

- `list_records` of a domain that is not there is an empty SUCCESS, as `FindZone`
  and `Found` show; `CHANGELOG.md:20` says that it returns an error.
- Every database draws its own serial (`orm.go:484`). If midnight falls between two
  databases of a view their SOAs differ from then on, and a `delete_record` of the
  SOA by its data and of another record then deletes that record in one of them only.
- Two databases of one view list every record twice: `ormApplyCommandMerge`
  appends what each holds. `answer` keeps them apart.
- `list_own` is allowed to every token (`auth.go:60`), so its permission in
  `auth.ini` has no effect.

## 6. What is proved

All theorems hold for every value of the constants that the named assumptions
allow (`OrmAssumption`, `StoreAssumption`, `SerialsPerDayAssumption`,
`AuthAssumption`, `WindowAssumption`, which TLC evaluates on each instance).
`StoreAssumption` is what the tables' keys enforce: ids are unique and drawn from
the sequence, and a row's domain exists (`orm.go:33`, `orm.go:37`).

**`OrmCommands_proofs`**: `Spec => []IInv` and with it `TypeOK`, `RowIdentity`,
`OpenTransactions`, and that `Spec` implements `TenantZones`. Neither
`RowIdentity` nor `OpenTransactions` is inductive: whether an UPDATE is rightful
depends on what the handler read earlier, perhaps from a version since replaced.
`IInv == TypeOK /\ RowIdentity /\ OpenTransactions /\ Control` adds where a
handler may be (`Control`) and that the copies it holds (`loc.cand`, `loc.soa`)
are of rows with the same identity as the committed ones. Each action has a
lemma per part it can disturb; most other handlers' parts are carried over by
the lock discipline (a commit changes only rows it has locked, and no other
handler has locked those). The refinement then needs only the commits: by
`OpenTransactions`, what a commit applies is one of `TenantZones`' steps, and the
rows that a `replace_owner` commits are among those it has asked for. Its SELECT
is `AskFor` (`SelectAsks`), and no other step asks for anything
(`HandleAsksNothing`, `OthersAskNothing`): an UPDATE writes a row it was at
(`UpdateOwnerAsks`), and the end of a transaction gives up what it has not done. `SerialRises` is the arithmetic of the serial.

**`SoaKept_proofs`**: `Spec => SoaSurvives`, with any overlap and any faults. What
an edit is about to commit must hold an SOA of its zone, and `Kept` says how: the
transaction has written one, or, when its UPDATE found nothing and the look-up
found the id back, the committed row is nobody's, and no request deletes such a
row. That it is nobody's (`Back`) rests on `Fresh`: rows that a transaction brings
in for a token have ids that no other handler holds as its SOA, since inserts draw
new ids and an id that comes back is inserted by gorm's `Save`, which writes no
owner. `Counted` covers the edits that skip `ormUpdateSOA`: they have changed
nothing.

**`OneByOne_proofs`**: `SingleRecords`, `HandoverByOwner` and `SerialBumped`, which
overlapping requests break (section 5), assuming `MaxInFlight = 1` and databases
that start in order. `OInv` has one handler at most run (`Alone`), the rows it
sees in order, and says what it has still to do with them (`Tidy`): once
`replace_record` has found one of its rows at a name, every row in the way of the
new ones is one it deletes, so the INSERT that follows without a look is safe.
`Mine` keeps a handover to the token's own rows. `SInv` adds that serials are
numbers and that an edit that has changed a row commits with the zone's first SOA
past the committed one (`Marked`).

`ReplicasAgree` is in the same module, under more hypotheses, each of which the
code makes necessary: no faults (`MaxFaults = 0`), since every database commits on
its own; the databases of a view next to each other in the configuration
(`Adjacent`), since a request to all views that a database of another view refuses
in between has been committed in the first; and no delete that names an MX, SRV or
SOA by its data (`PlainRequests`; section 5). The `sequential` run also has a delete of
the SOA alone, which the theorem leaves out. Two
databases are alike when their zones and the *shapes* of their rows are: ids and the
serials of SOAs are left out, owners are not, since they decide what the next
request may touch. While a handler is in a database, `RInv` (`RowsWork`) has a
sequence `h` of shapes, one per record of the request (`Trace`). In the first database of a view it is
built as the records go by, in the others it is given: each record there must
find what it found in the first (`Takes`), so no statement of theirs can fail
(`LaterTakes`), and an error can only be met in the first, where nothing has been
committed to the view yet (`FirstIsAlike`). `During` says how the handler's view and
the rows it has still to visit make up the shape between two records, `Counts`
that the affected rows, which decide on the SOA, are counted alike.
`create_domain` has a smaller invariant of its own (`ZoneWork`).

**`ReadCommands_proofs`**: `ReadSpec => ReadsTrue`, and that readers leave the
writing commands' promises standing. `ReadSpec` is not `Spec` with more
variables: a reader's statement may fail and its process die where no handler
runs, and both count a fault, so `HandlersKeep` goes over `IInv` and the
invariants of `SoaKept_proofs` again, and `TenantSpec` and `SoaSurvives` follow.
`ReadInv` says of a reader, for each database it is done with, that its part of
the answer holds what was there throughout and nothing that never was, and for
the one it is in, which statement has been answered and which has failed
(`ReadSoFar`). A reader that has found no zone shows nothing, and that is true
only because a row's zone exists (`ZonesThere`): that is an invariant of the
writing commands, which begin only where the zone is and never delete one.

**`AuthSync_proofs`**: `IInv` adds to the types the discipline of the lock
(`Locking`), that a handler that migrates has seen its target while it still
holds the lock (`Targets`), which tokens are Vault's (`Origins`), and how far the
sync has got: what it has fetched was in Vault since the LIST (`Fetching`), and
so is what it has merged (`Merging`). From it follow `ConfigKept`, `Refreshed`,
`MigrateTarget`, and `StableForReaders` as an action property: every step that
changes the auth database has `sync` in a phase that holds the lock, and then no
handler reads.

**`SignatureWindow_proofs`**: both promises, from the invariant `Tried` that in a
period that has not ended, all shifts before the current one have failed.

**`AmqpServer_proofs`**: `Spec => []Delivery`. That no consumer handles a request
twice is not inductive: it rests on where the request is before it is handled.
`Delivery` adds `OnePlace` (unsent, in a queue, with one goroutine, or handled,
for each consumer) and `Backed` (what a goroutine is about to reply, or a client
is about to read, is what handling came to).

**`HttpGateway_proofs`**: `Delivery` again with the gateway as the client, and
`InTurn`, from `GInv == Delivery /\ InTurn`; then the refinement of `HttpPromise`.
There `parts` is the numbers of a call's messages, `applied` those whose
handling succeeded (from the history, so a message applied after a time-out
counts), `told` the answer. A step of the server that applies a message is
`Apply`, and `InTurn` gives its guard: nothing was sent of a call turned away.
`Finish` is `Tell`, and `TrueAnswers` gives its guard.

Only model-checked: everything with fairness (`EventuallyReplied`,
`EventuallyAnswered`, `Converges`; liveness and ENABLED are beyond the prover). No
module uses a RECURSIVE operator.

## 7. What is not modelled

- The strings of HTTP answers, JSON, TLS and the headers' contents; of a reading
  command's reply, how the items of one name and type become one record.
- The checkers' tests of host names, addresses, ttl syntax and DNS look-ups:
  pure functions of strings. What they guarantee of a request's shape is
  `RfcChecked`.
- The hash of the signature: a request is signed with the right secret or not.
- `config.go` but for the auth sections, and `logging.go`: start-up without state
  that a property could be about. The sections, `include` among them, are parsed
  in a map's random order (`config.go:46`); the models start from any
  configuration that may result.
- The priority of tokens, the `pretty` flag and all wording of replies.
- PostgreSQL, RabbitMQ, Vault and the Go runtime only as far as the code in
  `wunderdns/` and `httpapi/` shows of them; `PROJECT.json` marks these
  definitions external. Of gorm, which is vendored, only what `Save` does is
  mapped (`finisher_api.go`).

To repeat the checks: `tlc -config <run>.cfg <module>.tla` with the module that
`PROJECT.json` gives, and `tlapm <module>_proofs.tla`.
