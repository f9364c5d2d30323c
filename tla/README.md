# Verification of the order-book infrastructure

TLA+ models of the repository's two Go services, TLC configurations that check
them on small instances, and TLAPS proofs of what holds for every instance.

Paths below are relative to the repository: `OB` is `src/order-book-service`,
`AM` is `src/access-manager`.

## 1. The system

| Component | State | Operations |
|---|---|---|
| Exchange client and module, Binance and Bybit (`OB/internal/exchange/*/{client,module}.go`) | `done`, `conn`, `symbol`, `isRunning`, `handlers` under one `RWMutex`; one goroutine per `Connect` with its socket, symbol and backoff | `Module.Start`/`Stop`, `Connect`, `Close`, `AddHandler`, `connectionLoop`, `connectAndRead` |
| Order-book conversion and storage (`OB/internal/exchange/*/module.go`, `OB/internal/repository`) | a message and a book per read loop; points in InfluxDB | `convertToOrderBookData`, the message handlers, `SaveOrderBook` |
| Instance manager (`OB/internal/service/manager.go`, `OB/internal/exchange/factory.go`) | map of instances under one mutex, map of module factories | `StartInstance`, `StopInstance`, `UpdateInstanceCredentials`, `HandleCredentialsUpdate`, `Start`, `Close` |
| Credentials manager (`OB/internal/service/credentials/manager.go`) | map exchange -> credentials under a mutex, Redis subscription | `restoreCredentials`, `subscribeToUpdates`, `handleUpdate` |
| Pairs API (`OB/internal/service/pairs.go`, `OB/internal/repository`) | requests; points or one row per exchange | `getPairs`, `updatePairs`, `GetPairs`, `SavePairs` |
| Process start and shutdown (`OB/cmd/main.go`) | where `main` is, the server, the repository | start, signal, drain, close |
| Instance selection (`AM/internal/service/manager.go`) | local variables over records in Vault and metrics in Redis | `selectOptimalInstance`, `ListInstances`, `UpdateInstanceMetrics` |
| Credential assignment (`AM/internal/service/manager.go`, `AM/internal/repository`) | Vault `instances/`, `credentials/`, `bindings/`; Redis channel per instance | `RegisterInstance`, `AssignCredentials` |
| Credential queries (`AM/internal/ports/http/handlers.go`) | local variables of a request | `GetInstanceBindings`, `GetInstanceCredentials` |
| Gateway, Vault, deployment | configuration of nginx, Vault and compose | none in this repository's code |

How they interact: a client of the access manager assigns a credential. The
access manager chooses an instance, writes the credential and its binding to
Vault, and publishes it on the instance's Redis channel. An order-book instance
reads its credentials from the access manager when it starts and listens to the
channel afterwards; its instance manager starts, replaces or stops exchange
modules. A module reads its pairs from the repository and connects the client
once per pair; the client's loops call the module's handlers, which save books.
Clients of the service read and replace those pairs through the pairs API.
Some of these connections are not wired up in the code: nothing calls
`HandleCredentialsUpdate`, `Manager.Close` or `credentials.NewManager`, `main` does
not import the packages of the exchanges, whose `init.go` register the factories,
nothing calls `initTables`, and `main` calls an `initRepository` that the repository
does not define. The modules model these
operations as they are written, called by whoever may call them.

### Hard behaviours, and what makes each component correct

* **Exchange client.** `done` is read without the mutex; every pair starts
  another loop on the same client; loops dial, read and sleep while `Connect` and
  `Close` change the fields under them. Correct means: no channel is closed twice
  (that would panic), what `conn` points at is open or already closed by its own
  loop, nothing dials after `Stop`, cancelling ends every loop, a lost connection
  is dialed again.
* **Order books.** Loops convert and save side by side; a book is written level by
  level under one time stamp; any write may fail, and the process may die between
  two. Correct means: whatever is stored was sent, nothing that could not be
  parsed is taken for an order, and the sides of a book stay together.
* **Instance manager.** Every method returns early in many places while it holds
  the mutex, and an update has stopped the old module before it knows whether a
  new one starts. It mixes the ExchangeID of the old credentials
  with the factory of the new ones, and starts modules, which ask the database, with
  the mutex held. Correct means: no module runs that nobody can stop, the record of
  an instance tells what its module is, every call returns.
* **Credentials manager.** The gap between restore and subscribe, lost
  publications, a queue that overflows, restarts, credentials that replace each other
  or are assigned again for another exchange. Correct means: an instance holds only
  what was assigned to it, and sent for that exchange; it holds what the last message
  that reached it said; and that has the key Vault has, once nothing is under way and
  nothing was lost.
* **Pairs API and shutdown.** A save is stamped before it is written, so that
  writes overtake each other; one that was refused may come through later; the
  shutdown drains requests that may hang, and the signal may come while the server
  is still starting. Correct means: a register that forgets no confirmed update,
  no request that loses its repository, and a process that ends.
* **Instance selection.** It reads N+1 records and N metrics one call at a time
  while all of them change and any read may fail. Correct means: exact if nothing
  happened meanwhile, and otherwise optimal for what it saw.
* **Credential assignment.** Three writes to two stores, no transaction, no lock,
  no retry, no rollback. Correct means: the stores agree unless an assignment was
  torn, and the order store - bind - announce - confirm is never broken.
* **Credential queries.** A List and many Reads beside assignments, errors
  skipped. Correct means: exact if undisturbed, and no binding without credentials.

The full list of hazards, each at its line, is in `PROJECT.json`.

## 2. The modules

| Module | Models | State and actions, against the code |
|---|---|---|
| `ExchangeClient` | one module and its client | `apc`, `pairs`, `next`: where the owner is in `Start`/`Stop`. `done` is the number of the `Connect` that made the channel (0 is nil), `closed` the channels closed so far. Loop `l` is the goroutine of the l-th `Connect`: `pc[l]` its position, `ch[l]` the channel its `select` has loaded and not yet polled, `sock[l]` its websocket. `Connect` and `Close` take two steps (up to `close(done)`, and the rest); everything else is one step per access to shared state or per network call |
| `OrderBook` | what a read loop does with a message, for both exchanges | one step to read a message, to call each handler, to convert an update, to write each point, to fail in it. The conversion is an operator on levels (`Decoded`, `Parsed`, `Kept`), and the points of a book are its kept levels with their places, written in the order `Before` |
| `InstanceRegistry` | abstract: what the instance manager promises | per instance absent, serving or halted, and the key in force |
| `InstanceManager` | `service.Manager` and the factories | `mutex`, `pc`, `call` per calling goroutine; `modules` are the module objects. A record has its module, its ExchangeID, and the exchange and key of its credentials; a module has its factory (`kind`), its config and whether it is started. One action per check, module call or map write. `main` is a caller that begins with `Start`. Refines `InstanceRegistry` |
| `InstanceSelection` | `selectOptimalInstance` and what it calls | `instances` and `metrics` are the two stores; `keys`, `list`, `at`, `selected`, `minLoad` the local variables. Instances are numbered in Vault's order |
| `CredentialLifecycle` | abstract: the life of a credential | absent, stored, bound; announced; confirmed |
| `CredentialAssignment` | `AssignCredentials` in several requests | one action per call that changes a store, each acknowledged, or failed with or without effect; `Crash` anywhere. Refines `CredentialLifecycle` |
| `CredentialQuery` | `GetInstanceCredentials` | extends `CredentialAssignment`: one read per step, any step of an assignment between two of them |
| `CredentialDistribution` | the credentials managers of the instances, composed with both modules above | `stage` is where `Start` is (restoring, restored, listening, or offline when Redis broke), `held` the map of credentials, `inbox` the messages in the go-redis channel, which has room for `ChannelSize` and loses what comes beyond. Restoring runs a query of `CredentialQuery`; publishing in `CredentialAssignment` delivers to whoever listens, and waits for nobody |
| `PairsRegister` | abstract: what the pairs API promises | a value per exchange; an update takes effect at one moment before it is confirmed |
| `PairsAPI` | requests, both databases, `main` | `stored` is the database by exchange and stamp (`timescaledb` uses stamp 0 only), `late` the writes that failed for the client and may still come through. `main`, `listener`, `repo` are the process. Refines `PairsRegister` |
| `MC*` | instances for TLC | model values, symmetry, a view |
| `*Proofs` | theorems | section 5 |

`CredentialDistribution` extends `CredentialQuery`, which extends
`CredentialAssignment`: the three share Vault and Redis, and every step of the one
may fall between two steps of the other. `OrderBook` continues where a loop of
`ExchangeClient` has read a message.

Operators whose comment begins with "Mutant" are plausible wrong versions of the
operator below them. No specification uses them; they show that the properties
tell a wrong program from the right one.

History variables (`undisturbed`, `seen`, `quiet`, `interrupted`, `overlapped`,
`confirmed`, `heard`, `reached`, `taken`, `shared`, `saved`) record what happened for the
properties. No action's guard reads them.

Abstractions. In `ExchangeClient` message contents are reduced to the pair a book
is of. In `OrderBook` a field is an integer or garbage: prices and amounts are only
compared with zero, and texts that `ParseFloat` turns into an infinity or NaN are
not told apart. Every instance status other than `active` is "inactive"; loads are
naturals, only their order and the maximum matter. A key stands for the exchange,
the api key and the secret of a request together, since the access manager stores and
announces the three as they came; `ExchangeOf` is the exchange in it, so that one
credential may be assigned for one exchange after another. In `InstanceManager` the
exchange is an argument of its own. Which instance a request without instance id gets
is any registered one in `CredentialAssignment`; `InstanceSelection` has the choice. In
`InstanceManager` a module is started or not: what its loops do is in
`ExchangeClient`. A list of pairs is one value in `PairsAPI`,
and the wall clock never steps back: with InfluxDB, whose newest stamp wins, a save
after such a step would be hidden by an older one.

## 3. The runs

| Run | Instance | Shows |
|---|---|---|
| `ExchangeClient` | Bybit with credentials, one pair in lists of up to 2, backoff up to 2 | safety of the client over all interleavings of `Start`, `Stop` (repeated), cancellation and two loops; cancellation drains, closed loops exit, lost connections are dialed again |
| `ExchangeClientStop` | Binance, one pair | *violated*: a loop dialing during `Close`, or an older one, lives on after `Stop` |
| `ExchangeClientBooks` | Binance, two pairs | *violated*: books are filed under other pairs |
| `OrderBook` | two loops, one pair, two updates with deleted, garbled, short and long levels, two readings of the clock | what a conversion leaves in the database, and what a save that was broken off leaves |
| `OrderBookSaved` | the same, one loop | *violated*: of a book whose save succeeded not every order is in the database |
| `InstanceManager` | main and another caller, two instances, two exchanges with a factory and one without, two keys | nothing runs outside the registry, records match key, factory and exchange of their modules, what a call has checked holds until it acts on it, refinement of `InstanceRegistry`, every call gives the mutex back and returns, unless a start of a module hangs or `Close` has locked itself out |
| `InstanceManagerExists` | the same, one exchange with a factory, without `Close` | *violated*: "already exists" for an instance that does not run |
| `InstanceSelection` | two instances, loads 0..2 | which instance is selected; that a selection answers |
| `CredentialQuery` | two requests that assign, one credential, two keys and instances, a query | agreement of the stores, refinement of `CredentialLifecycle`; the query is exact when undisturbed, and finds credentials for every binding it read |
| `CredentialDistribution` | two credentials, two exchanges, two instances, two keys of the one exchange and one of the other, one request at a time, two messages in the queue | what an instance holds, after re-assignments to another key, exchange or instance, rivals, lost messages, lost connections and restarts |
| `CredentialDistributionRestore` | one credential | *violated*: restored credentials cannot be found |
| `PairsAPI` | two requests, one exchange, two lists of pairs, two readings of the clock, two late writes | both databases implement `PairsRegister`; the shutdown |

Runs marked *violated* state what a comment, a log text or a README of the
repository says, and show that the code does something else; `PROJECT.json` quotes
the line for each of them.

**Bounds.** Two loops are enough for every pairwise interleaving on one client
(newer replaces older; closing meets dialing); the proofs have no such bound. A
backoff limit of 2 makes both branches of the doubling happen. Two instances give
ties, better and worse; the maximum load is inside the range, so the case "all at
the maximum" happens. Two requests give overlap, two keys and instances make their
traces differ. In `InstanceManager` there is one module object more than
instances: one caller at a time holds the mutex, so one module at most is under
construction, and objects nothing refers to are used again. In `OrderBook`
(`MaxUpdates`, `MaxStamp`) two books may share a stamp or not, and a message holds
one or two. `CredentialDistribution` has one request at a time because overlapping
assignments exempt a credential anyway and are explored by `CredentialQuery`;
`ChannelSize` of 2 lets messages queue behind each other, overflow, and wait while
the instance loses its connection or dies (go-redis has room for 100). The requests
of its run are those of `Sent`: one credential with two keys, for another exchange and
to another instance, and a rival. `Bounds` keeps the process of the other instance
down (it hears nothing that way, which for the first is what matters), ends a query
before its instance subscribes, lets only the rival's assignments fail half way, and
then with a shorter queue, withdraws one of the exchanges only and registers the
instances in one order. The proofs have none of these bounds. In `PairsAPI` two readings of the
clock (`MaxStamp`) give writes in the order of their stamps, against it, and with
equal ones; two late writes (`MaxLate`) can come through in either order.

`CHECK_DEADLOCK FALSE` stands in the client's runs because a module that failed or
stopped really does nothing any more, in that of the instance manager with
`Close`, which really deadlocks, and in that of `PairsAPI`, whose process ends.

**Symmetry and view.** Symmetry is used only in runs without liveness properties,
over model values that the specification and the properties treat alike. The view
of `CredentialDistribution` leaves out `confirmed`, `quiet` and the key in
`published`, which no guard and no property of that run reads. That of
`InstanceManager` leaves out the configuration of module objects nothing refers to:
an action that takes such an object overwrites it.

**Fairness.** In `ExchangeClient`, `InstanceManager` and `InstanceSelection`
goroutines are scheduled (weak fairness of their steps). Go's mutexes hand over to
the longest waiter, so a step that acquires one is strongly fair. In `ExchangeClient`
a read or a dial returns in the end: the exchanges stream continuously and close
connections after some time. In `InstanceSelection` the calls of Vault and Redis
return, since their clients have timeouts. In `InstanceManager` the one call of the
network is that of `Module.Start` for its pairs, which has no timeout and is made with
the mutex held; nothing is assumed of it, and `CallsReturn` has it as a hypothesis:
one start that hangs holds up every other call. `PairsAPI` assumes weak fairness of
`main` alone, and not of its opening of the repository, but of the timer of the
shutdown: handlers and databases may hang for ever, and `Exits` says under which
conditions the process ends all the same. `OrderBook` and the three credential modules
state no fairness, their properties are safety. Nothing obliges anybody to call
`Stop`, to cancel, to register, to assign or to send a signal.

## 4. What the checks showed

Five statements of the repository do not hold of its code (`findings`):

* `Stop` does not stop a loop that is dialing, nor older loops of a module with
  several pairs;
* books are filed under all pairs of their module;
* a failed update leaves a stopped instance registered, which then "already
  exists";
* `SaveOrderBook` reports success for a book of which at most one order per side is
  in InfluxDB afterwards, since all points of a side have the same measurement, tags
  and stamp;
* the credentials manager files everything it restores under the empty exchange
  id: it decodes `exchange_id`, and the access manager answers with `exchange`.

Properties that hold, and say something a reader of the code may not expect:

* `BeginningIsStored`: of a book that was broken off by a failed write or the death
  of the process the database has what a beginning of the book leaves: no ask
  is there unless all bids were written.
* `OnlyCloseBlocks`: the only call that keeps the mutex, beside a start of a module
  whose database hangs, is a `Close` that meets an instance.
* `RecordMatchesModule`: an update with credentials of another exchange leaves an
  instance that streams the one under the name of the other, and its record says so:
  its ExchangeID is the old one, its credentials name the new one.
* `KeptUntilTold`: a credential that was assigned to another instance, or for another
  exchange, stays where it was until that instance restarts or a message on its own
  channel names its exchange, as only "add" is ever published.
* `HeldAsReached`: lost messages leave an instance behind, but never in a state that
  no message left.
* `ImplementsRegister`: both databases keep the promises of the pairs API although
  a save is stamped before it is written. With InfluxDB an overtaken save is below
  the newer one at once; with TimescaleDB the last to be written wins.
* `RepoOutlivesRequests` and `Exits`: the only way a request loses its repository
  is that the shutdown timed out, and the only things that can keep the process
  alive after a signal are a TimescaleDB that does not let it open its pool, and a
  query that holds a connection of that pool.
* The unlocked reads of `done` never lead to a double close, and no mixture of
  failures, crashes and overlaps lets a query find a binding without credentials.

Seen while modelling, and proved rather than run: `Start` of the instance manager,
whose comment says that it launches the instances of the config, never registers one,
because the credentials of the config have no exchange id (`StartStartsNothing`);
`Close` takes the mutex and calls `StopInstance`, which waits for it for ever, so that
nothing is stopped, replaced or started any more (`LockedOutForGood`).

Seen while modelling, and not the subject of a run: two overlapping assignments
of one credential may leave it stored for one instance and bound to the other
without any failure, which is why `AgreeUnlessTorn` exempts them; a binding keeps
the address its instance had when it was made.

## 5. What is proved

Proofs assume the named `ASSUME` of each specification and nothing else, and hold
for every value of the constants.

* **`ExchangeClientProofs`** (any number of pairs, any backoff limit). The
  invariants are not inductive: that `done` is open outside `Connect` and
  `Close` needs that `closed` holds only channels of earlier calls; that `conn`
  is a live socket needs that a loop has a socket exactly between dialing and
  leaving `connectAndRead`. `IInv` adds these, and which loops have been started.
  Steps are grouped by what they change: the owner's, those that touch a socket,
  and the rest, which a frame lemma covers.
  Theorems `TypeCorrect`, `NoDoubleClose`, `PublishedConn`, `SinglePairConn`,
  `NoLateDial`, and `OnePairFiledRight`, which says how far the mix-up of pairs of
  section 4 goes: `PairsInv` follows the pairs of the list through `symbol`, the
  subscriptions and the handlers into the repository, so that a module whose list
  names one pair, however often, files every book where it belongs.
* **`OrderBookProofs`** (any number of loops, pairs and stamps, updates of any
  length). `IInv` says where the loops are (`Position`: the points a loop has left
  are a tail of a book taken for its stamp), that a stamp not marked `shared` has
  one book (`Shared`), that nothing is stored where nothing was taken (`Untaken`),
  and that of a book with a stamp of its own the store has exactly what its written
  points leave (`WrittenSoFar`). A first point to write exists because the naturals
  are well-founded. Theorems `ConversionIsRight` (the kept levels are those that
  were sent, readable and not deleted), `TypeCorrect`, `OnlyOrdersStored`,
  `BeginningStored`, and `LastLevelLeft`: how much the save of section 4 loses, for
  books of any length.
* **`InstanceManagerProofs`** (any number of callers, instances, modules). `IInv`
  ties the mutex to the position of its holder, says what a call knows of the
  registry at each of its steps (`Checked`) and how the module it made is configured
  (`Created`), and that no module serves two instances (`OwnModules`). Only the
  caller with the mutex changes the registry, and what others know does not depend
  on it, so one lemma per action suffices.
  That the calls do not block each other has a safety core that can be proved:
  `Holder` says where the caller with the mutex can be, and `ObjectToSpare`, by the
  pigeonhole principle, that a call which creates a module finds an object for it,
  so that `EnoughModules` cuts no behaviour off.
  Theorems `TypeCorrect`, `NoModuleOrphaned`, `RecordsMatch`, `StartStartsNothing`,
  `ChecksHold`, `OnlyCloseLocksOut`, `LockedOutForGood` (a `Close` that waits for
  itself does so for ever, and nothing is stopped, replaced or started after it, for
  any number of instances and callers) and `RegistryImplemented`: every step maps to a step of
  `InstanceRegistry` or to none. `RunningKept` reads off the refinement that a
  running instance keeps its record and its key until it is stopped.
* **`InstanceSelectionProofs`** (any number of instances). The invariant says
  what the two loops have established so far: the records read are those in the
  store if nothing was disturbed, and `selected`, `minLoad` are the first minimum
  of the loads seen below `at`. Theorems `TypeCorrect`, `LeastLoaded`,
  `LeastOfSeen`.
* **`CredentialAssignmentProofs`** (any number of credentials, instances,
  requests). A request never checks what it finds stored, so the invariant
  `Progress` says what its own position implies about the stores, whatever others
  do: what is stored, bound or announced is never taken back. Lemmas give the
  effect of each write once, with its three outcomes. `Refinement` maps every step
  to a step of `CredentialLifecycle` or to none. `Agreement` needs `StoryInv`: of a
  credential that is not torn at most one request is writing, and what it has
  written so far is what the stores hold. Theorems `TypeCorrect`, `Agreement`,
  `Refinement`, and `ConfirmedKept`, read off the refinement: what was confirmed is
  stored, bound and announced for good.
* **`CredentialQueryProofs`** takes the invariants of the assignments over: a
  query writes nothing. `QInv` says that what the query has read so far is exactly
  what the stores hold while `quiet`, and that a binding, once seen, has
  credentials for good. Theorems `QueryTypeCorrect`, `BindingsLeadToCredentials`,
  `UndisturbedQueryExact`.
* **`CredentialDistributionProofs`** (any number of instances, exchanges and
  requests, a channel of any size, and an exchange for each request) takes both over
  again. `DInv` adds that what lies in an inbox or is held is of a credential that is
  stored, bound and announced to that instance, and was sent for that exchange
  (`InboxGood`, `HeldGood`); that what an instance will hold for an exchange when its
  inbox is empty (`Settled`) is what the last message that reached it said
  (`ReachedInv`, which needs that an instance holds nothing before it has restored,
  `ColdInv`); and that, of an exchange whose last message was heard, this has the key
  the credential was announced with last (`HeardInv`); with `StoryInv` that is what
  Vault has. Theorems `DistributionTypeCorrect`, `InstancesHoldOnlyAssigned`,
  `InstancesHoldWhatReached`, `InstancesHoldWhatIsStored`, `HeldUntilTold`.
* **`PairsAPIProofs`** (any number of requests, exchanges, stamps and late
  writes). `PInv` says what a request carries at each position, that no stamp is
  ahead of the clock (and that TimescaleDB knows none), and how far the shutdown
  has come. The newest stamp exists because the naturals are well-founded
  (`GreatestStamp`). For the refinement, `KeepCurrent` says what a write means: if
  a newer stamp is stored nobody sees it and it maps to a stutter, otherwise the
  value changes, and every update it outdates takes effect in the same moment just
  before it (`TakeEffect` of the register). Theorems `TypeCorrect`,
  `NobodyLosesTheRepository`, `RegisterImplemented`.

Only model-checked: all liveness (`CancelDrains`, `ClosedLoopExits`,
`LostConnectionRedials`, `SelectionAnswers`, `CallsReturn`, `Exits`), which rests on
fairness and is beyond this prover. Every safety invariant and action property of
the passing runs, and every refinement, is proved.

## 6. Not modelled

* HTTP routing and server set-up, logging, loading of configuration files: no
  state that outlives the call; the settings that matter are constants.
* Gateway, Vault and compose files: configuration of other programs.
* `RemoveHandler` of the clients, the private streams' payloads, and the update
  callback of the credentials manager: nothing calls or registers them.
* The Redis client of the order-book service's `main`, which is created and closed
  and used by nothing; the access manager's `main`, which wires its parts and ends
  when the server does.
* `SaveOrderBook` of TimescaleDB, a stub that stores nothing, and `initTables`.
* Pairs a module reads while they are replaced: `Module.Start` reads the list once,
  so that an update reaches a module with its next start only.
