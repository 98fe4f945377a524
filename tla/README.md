# Terminal Army: specifications of the game server

TLA+ models of the server in `src/` (a Go program over PostgreSQL), of its
terminal client and of its self-update, checked with TLC on small instances and,
where the result matters for every size, proved with TLAPS. Everything here is translated from the Go source and from
the SQL it sends. `PROJECT.json` lists components, runs, mutants, hazards,
findings, theorems and, for every definition, the lines it models.

## The system

The server is a set of services (`internal/svc`) that HTTP handlers
(`internal/httpapi`, `internal/web`) call, one scheduler goroutine
(`internal/scheduler`) and a store (`internal/store`) of hand-written SQL.
All game state is in PostgreSQL; several server processes may share it. The
services keep no state between requests, so components interact through
tables, row locks and transactions at READ COMMITTED:

| component | state | operations | what makes it correct |
|---|---|---|---|
| production queue (`svc/build.go`, `shipyard.go`, `research.go`, `store/build_queue.go`) | `build_queue`, levels and units | queue a building, ship, defense or technology; cancel; list with self-repair | at most five unresolved orders, one at a time, distinct target levels, one research slot, an order is paid once and resolved once |
| stockpile (`svc/resources.go`) | `planets.resources_*` and their timestamp | refresh, alone or in a transaction | a window of production is credited once, no debit is lost |
| queue sweep (`scheduler/scheduler.go`) | none | every five seconds: claim due rows with SKIP LOCKED, apply, mark, commit | each due order is applied once, in the end |
| fleet commands (`svc/fleet.go`) | `fleets`, `fleet_ships`, `planet_ships` | dispatch, recall | ships and cargo are on one row only |
| fleet sweeps (`scheduler/fleet.go`) | none | arrivals (six missions), returns | each arrival and return is handled once, in the end; a recalled fleet does not arrive |
| transactions (`store/store.go`) | locks | `InTx` | an error, a panic, a lost connection leaves nothing behind |
| universes (`svc/universe.go`) | `planets`, `users.current_universe_id` | create the default universe, join | a slot has one owner, the current universe is one the player lives in, a join ends |
| alliances (`svc/alliance.go`) | `alliances`, `alliance_members` | create, join, leave | one alliance per user, no alliance without its founder |
| accounts (`svc/auth.go`, `store/sessions.go`, `web/session.go`) | `users`, `device_sessions` | sign up, log in, device handshake, resolve, log out, change roles | names are unique, a terminal gets a token approved for its own code, a logout revokes |
| rate limiters (`httpapi/ratelimit.go`, `web/ratelimit.go`) | buckets in memory | allow, collect | never above burst plus refill |
| production rules (`internal/game`) | none | costs, prerequisites, storage, production | windows at their rates; everything can be reached |
| combat (`game/fleet.go`) | none | one exchange of fire | no more is lost than was dealt |
| terminal client (`internal/tui`) | the session, the screen, a credentials file | log in, run a command, load a view, switch planet | at rest the screen shows the selected view of the current planet; the prompt comes back |
| self-update (`cmd/tarmy/update.go`) | the installed binary, temporary files | resolve, fetch, verify, extract, install | the binary is whole at every moment |
| presence, messages, reports, read models, HTTP, rendering, start-up | little or none | single statements and views | - |

What is hard about it: handlers that check and then write, some under a
planet's lock and some without any; a scheduler and handlers that take the
same row and planet locks in different orders; batches in which one failed
statement aborts all; crashes between two sweeps; retries at every tick; a
client whose requests are lost, throttled or answered out of order; locks that
guard a map but not the clock read before them.

## Modules

`BuildQueue` is the production queue, the stockpile and the queue sweep.
`tables` are the committed rows; `planetLock` and `rowLock` say who holds
which row; `pc`, `job`, `seen` and `purse` are what a handler or a sweep
remembers between two of its statements. A transaction's writes are invisible
until it commits, so they are made by its commit step, and what others can
notice earlier is its locks. A handler is cut at each lock request and at each
unlocked read whose result it uses later:

| code | actions |
|---|---|
| `QueueBuilding`, `QueueShip`, `QueueDefense`, `ResearchService.Queue` | `QueueLock` (lock, refresh), `QueueCheck` (cap or research slot, pending rows), `QueueCommit` (repair, price, debit, insert, commit) |
| `Cancel` | `CancelRead` (unlocked), `CancelMark` (row), `CancelLock` (planet, refresh), `CancelCommit` |
| `PlanetQueues` | `ListRows`, `ListLevels`, `ListRepair` (one autocommitted update each), `ListDone` |
| `Refresh` | `Refresh` |
| `queueSweep` | `SweepClaim` (SKIP LOCKED), `SweepLock` (planets of building rows), `SweepCommit` |
| `InTx` after an error, a disconnect, a deadlock, a crash | `Rollback` |

`Fleets` is dispatch, recall and the two fleet sweeps. Here a sweep changes
many rows before it commits, and reads its own changes, so every transaction
has a `draft`: the rows it has locked, as it will write them. `DispatchLock`
and `DispatchCommit` are `Dispatch`; `RecallRead` and `RecallCommit` are
`Recall`, whose two updates do not look at the row again and use the time read
before they waited; `ClaimArrivals` and `ClaimReturns` are the SKIP LOCKED
queries; `TurnAround`, `Attack`, `Transport`, `Deploy`, `Espionage` and
`Return` handle the next fleet of the batch; `SweepCommit` commits it.
`SweepFail` is a handler whose statement fails: PostgreSQL refuses everything
after it and turns the commit into a rollback, while the Go loop goes on.
Two statements fail that way today. A colony's code (`u1-1-1-1-0` or longer)
does not fit `planets.code VARCHAR(8)`, so the founding of a colony, in the
code after that insert, is never reached and is not an action; and the upsert
of an attacker's losses names a unique constraint `fleet_ships` does not have.
`FleetLedger` is what fleets promise of ships: docked, flying or
scrapped, taking off once and settling once.

The other components share no variable with these two, nor with one another:

| module | what it models |
|---|---|
| `TokenBucket`, `Limiter` | `allow` of both limiters as an operator on one address's bucket (tokens counted in seconds of refill, so that all is exact); requests that read the clock before they wait for the mutex; the collector of idle buckets |
| `Login` | the tables `users` and `device_sessions`, browsers (sign-up in its two statements, log-in, log-out, approval in its two statements) and terminals (`acquireSession`: cached credentials, start, poll, validate), expiry, lost and late answers, and the throttle of `/auth` built from `TokenBucket` |
| `Homeworlds` | `EnsureDefaultUniverse`, `JoinUniverse` (unlocked look-up, then attempts, each a transaction) and the terminal's first start, which asks again after it gave up on an answer |
| `Alliances` | `Create`, `Join`, `Leave` cut at their unlocked reads; the UNIQUE constraints decide races; a request may be cancelled between two statements |
| `Roles` | role changes of the pages (the requester's role is read with the session) and of the command line |
| `Console` | the event loop of the terminal: one goroutine per command and per load, the borrowed writer, `/switch` under loads in flight, the command history |
| `Catalog` | the tables of `game/constants.go` |
| `Progress` | what the tables let a player reach. `Spec`, which TLC runs, advances at each step all that is unlocked and fits into the stores; `AnyOrder` is the player who advances one thing at a time. Prerequisites and stores only grow, so neither ends anywhere else (`NoOrderIsADeadEnd`). `AnyLevel` is the player who also wants levels nobody asks for |
| `Economy` | `ComputePlanetProduction`, `refreshTx` with its short-circuit, an order cut between its refresh (`OrderBegin`) and its debit (`OrderPay`), and its completion by the sweep, next to what the levels in force yielded moment by moment. A moment is half a second, so that an update can come within a second of the last; rates are whole units per hour, rounded down where the code keeps a float |
| `Combat` | `SimulateCombat` over catalog profiles. A share of the damage is a float in the code, so an exact whole number may come out one lower; so may a value raised by its technology (`Short` names the pairs: fifty at level 13 become 114). Beyond 2^52 for damage times hit points, where a float could also come out above, the model does not speak for the code |
| `Updater` | `tarmy update`, several at once: every failing return, kills, directories that are not writable, missing checksums |

`LoginState`, `AllianceState`, `ConsoleState`, `HomeworldState`, `RoleState`,
`CombatState`, `UpdaterState` and `ProgressState` hold the variables that the
properties of `Login`, `Alliances`, `Console`, `Homeworlds`, `Roles`, `Combat`,
`Updater` and `Progress` are about, and these properties; the modules themselves add the operations. `MCParts`
and the proofs extend the state modules, so both speak of the same definitions.
`Sums` is the sum of a function over a finite set, with which the conservation
properties of `BuildQueue` and `Fleets` are stated, and `PlanetSettings` holds the
constants of `Economy`.

`MCParts` composes them: a behaviour picks one component and runs it while the
variables of the others keep their initial values. As no two of them share a
variable, an interleaving of two shows nothing that each does not show alone.
Sign-up has an instance of `Login` of its own, with names and addresses to fight
for and no terminals. `MCScheduler` does the same with `BuildQueue` and `Fleets`: the
sweeps of a tick run one after the other, each in a transaction of its own, and a
behaviour is one of the queue or one of the fleets (the planet locks they share are in
each module on its own, with other holders). `MCBuildQueue`, `MCFleets`, `MCLogin` and
`MCEconomy` give the constants of the other runs their values. A definition
named as a "variant" in a comment is a plausible bug; `PROJECT.json` pairs each
checked property with the variant that breaks it, so no property holds by
the shape of the model.

What the models leave out, on purpose:

- In `BuildQueue` and `Fleets` the three resources are one pool, one unit has
  one flat price and a flat duration, and production is a constant rate (the
  formulas are `Economy`). Prerequisites, energy and
  `fields_used` are data: an order that fails its prerequisites is a rollback.
- Ship types are one count and defenses a part of it; combat kills any number
  of the defender's ships, or makes the sweep fail when the attacker loses
  some. A win needs a planet without units (`SimulateCombat` reports a draw
  against any other).
- Handlers act on the player's own planets, as `ErrForbidden` enforces.
- Key-share locks that foreign keys take are modelled where somebody can hold
  the row FOR UPDATE across them (the target of a dispatch).
- Messages, reports and broadcast events (`ws.Hub` drops them).
- Nothing in the tree calls `BuildService.Cancel` yet; it is modelled as the
  service's public operation. Deleting expired sessions has no caller and no
  action.
- In `Login` passwords and signatures are perfect, and the credentials that
  `tarmy --logout` removes without telling the server stay. In `Console` the right rail
  is left out: it is loaded as the centre column is.

## Runs

Deadlock is checked for the queue, the fleets, the scheduler and the homeworlds;
in `parts`, `login_throttled` and `economy_windows` a component may come to its end
(a battle decided, the bounded clock run out). Handlers and schedulers are interchangeable, so
the safety runs use symmetry; the liveness runs do not.

| run | question and bounds |
|---|---|
| `build_queue` | All safety properties of the queue. One planet, a building and a technology, two handlers, two schedulers, three rows, `Cap = 2`, two seconds, a starting stock of one and one more per second at a price of one. Three rows are needed to exceed a cap of two; two handlers and two schedulers are the smallest races of every kind; ships and defenses differ from buildings only in that they are never repaired and have no target. |
| `build_queue_refund`, `build_queue_research` | Each finds one statement of a comment violated (below). |
| `fleets` | `TypeOK`, `NoFreeCargo`, `LedgerSpec`, `RecalledNeverArrives`: two attacking fleets, two planets, a handler that dispatches and recalls, two schedulers, two seconds (out and back with flights of one second). |
| `fleets_missions` | `NoFreeCargo` and `LedgerSpec` for every mission between two planets of one player, with production, storage and two handlers that race for one fleet, three seconds. With one owner a deployment stations its ships; one to somebody else's planet, which behaves as a transport does, is in the proofs and not in a run. |
| `scheduler_live` | `DueOrdersResolve` and `DueFleetsMove` under the fairness below, with batches of one, so that rows crowd one another out. The queue: one planet, a building, two handlers, a scheduler, two rows. The fleets: two planets of one player, two deployments of one ship, a handler, a scheduler. One scheduler is the hard case: a second one would only apply what the first misses. |
| `fleets_poison`, `fleets_recall` | Each finds one statement of a comment violated. |
| `parts` | The properties of the other components, each on an instance just large enough for its races: two users, handlers, browsers, alliances or updates; one terminal; three slots of which two attempts may miss; two commands and two planets for the console; two levels of a mine and a solar plant over three hours, two half seconds looked at in each (an order can be refreshed within a second of an update, and paid later than it was refreshed); fleets of two hulls against two hulls and a battery, with and without technology; the whole catalog. The clock of the limiter is nine refill seconds, more than a full bucket plus an idle collection; the login's throttle is small enough to be reached within a code's life. |
| `homeworlds_double` | Two handlers and two slots: `OneHomeworld`, what the comments of `JoinUniverse` say. |
| `login_throttled` | The login loop with the numbers of the code: ten requests, one per five seconds, a poll every two, ten minutes. |
| `economy_windows` | The first five hours of a homeworld with mines, a solar plant and the default speed; whole hours only, as the trace needs no more. |

The refinement `LedgerSpec` (`FleetLedger` with docked ships, ships in the air,
fleets launched and ships destroyed read off the tables) is the main property
of the fleets: it says that batches, retries, recalls and crashes
neither copy nor lose a ship, and that a fleet settles once.
`NoFreeResources` and `NoFreeCargo` say the same of resources, as an
inequality because a refresh may cut a surplus and waste production.

What the properties of `parts` are about:

- `RateBounded`: over every window, not only from the start: an observer opens
  windows at any time.
- `AccountsDistinct`, `FirstApprovalWins`, `TokenWasApproved`, `LoggedOutIsOut`,
  `LoginEnds`: sign-ups race between their check and their insert; two browsers
  approve one code; answers to polls are lost after the row was deleted; a
  logout meets an approval (`overlapped` excuses the one order in which the
  approval has already read the row: the code then keeps a deleted token); a
  login loop always ends, in a session, an error or its deadline.
- `CurrentHasPlanet`, `JoinEnds`.
- `NobodyOvercredited`: looks and orders may fall anywhere between the moments, and
  no window is credited twice. A step that raises a level is excepted, which is
  what `economy_windows` is about.
- `OneAlliance`, `FoundedWhole`, `FounderLeavesNobody`, `AdminsRemain`: the
  last two hold up to a race that the property names (a member who joins, or an
  administrator who is demoted, while the request is served).
- `ShowsActiveView`, `ShowsCurrentPlanet`, `WriterReturned`, `PromptOwed`.
- `ParentFirst`, `EverythingReachable`, `NoOverkill`.
- `BinaryWhole`, `ComparedIsIntact`, `InstallsItsRelease`.
- `RowsNameTheirUser`: an approval reads a token and its user, binds them later, and
  a request that presents the token is refused if the row names somebody else.
- `TypesOK` is the conjunction of the type invariants; in that of `Combat`,
  nobody loses units he does not have.

### Fairness

A scheduler ticks while its process lives (`Run`) and takes what it finds free. Its
claims say SKIP LOCKED: they queue for nothing and may find a row locked at every
tick, so they are only weakly fair, and `DueOrdersResolve` has to come from the
handlers giving their rows up. Whoever does wait for a lock, a sweep for a planet or a
handler for a row, is in a FIFO queue of PostgreSQL and gets it although others take
it again and again (strong fairness of the lock requests and the handlers). A handler
that has begun ends, with its commit or its error.

A cycle of lock waits is broken by the deadlock detector, which aborts whom it likes:
a sweep may be its victim for ever, as long as it does not spare the handler of
the cycle for ever. Apart from that a sweep is rolled back (crash, lost connection,
failed commit) only finitely often: unlike the handlers of the fleets, no statement of
`queueSweep` is known to fail at every tick, and against a database that refuses every
commit nothing could be claimed. The same is assumed of a cancel that has marked its
row. It is needed, and TLC finds the trace without it: a player who cancels and hangs up
at every tick keeps the row locked whenever the sweep looks. Every other handler may
fail for ever, no player is obliged to act, and time need not pass.

For `LoginEnds` time passes and a running client executes its loop: the
process is one goroutine and every request has a timeout. For `JoinEnds` a
handler goroutine keeps attempting; no error is owed to it. A slot drawn at
random need not ever be a free one, so nothing is claimed about success.

## What the checks found

- `build_queue_refund`: `Cancel` reads the order without a lock and updates it
  by id. An order applied, or cancelled by a second request, in between is
  refunded anyway.
- `build_queue_research`: the account's research slot is checked under the lock
  of one planet; two planets of one player can start two researches.
- `fleets_poison`: one fleet whose statement fails keeps its whole batch from
  committing, at every tick.
- `fleets_recall`: a recall that read the fleet too early rewrites it after it
  has come home; it stays "returning" for ever.
- `login_throttled`: the client polls every two seconds, as the server tells it
  to; the throttle in front of the poll admits ten requests and then one per five
  seconds. After about half a minute the client is answered 429, which ends the
  login, although its code is valid for ten minutes.
- `homeworlds_double`: a join looks for a planet of the player without a lock and
  founds one in a later transaction. `svc/universe.go:114` relies on a unique
  constraint that does not exist (the only one is on the slot), so two overlapping
  joins found two homeworlds.
- `economy_windows`: a completed building raises its level without a refresh, so
  the next one credits the whole window since the last look at the new rates. In
  the trace a solar plant completed by the sweep powers the mine retroactively.

Seen while modelling, and not the subject of a run:

- `SimulateCombat` decrements a copy of the defender's units (a comment at
  `game/fleet.go:301` says the slices are aliased; the appends copy), so the
  defender's counts never drop, the winner is never "attacker" against a
  planet with any unit, and no such planet is ever plundered.
- An order refreshes the planet with one `now` and stamps it with a later one
  (`svc/build.go:51,112,129`), and the refresh credits nothing within a second of the last
  update (`svc/resources.go:53-56`): what was produced since then, or between the two
  instants, is lost. `OnlyLevelsAndOrdersMisprice` says that this and a raised level are
  the only departures, and bounds the loss by the yield of that time.
- A founder alone may leave; the alliance stays, and whoever joins later has no
  leader. Leadership can be transferred nowhere, which `svc/alliance.go:18` asks for.
- `PlanetQueues` marks an order applied when its level was built by another one:
  SKIP LOCKED lets a later order overtake one that a cancel holds.
- Inside the console `/quit` and `/logout` only print "error: quit": after a `/logout` the
  session goes on with a token the server has forgotten (`TerminalLogout`).
- The session's planets and writer are read by loads while a command's
  goroutine writes them, without a lock.
- An update whose `checksums.txt` cannot be fetched, or does not list the
  archive, is installed unverified.
- `fields_used` is counted and never compared with `fields_total`.
- `game/constants.go:342` says mine energy is floored; the formula rounds it up.
  A fusion reactor never draws on the stock: net deuterium stops at zero.

## Proofs

`BuildQueueProofs` proves, for every number of planets, users, keys, handlers,
schedulers and rows, every price, rate and stock, and from `ConstantsOK` alone:

| theorem | states |
|---|---|
| `TypeCorrect` | `[]TypeOK`: in particular no stockpile becomes negative |
| `LocksKept` | a transaction holds the locks its place in the code requires |
| `CapHolds`, `SerialHolds`, `TargetsHold`, `ResearchHolds` | `QueueCapped`, `QueueIsSerial`, `TargetsDistinct`, `OneResearchPerPlanet` |
| `GainsHold` | `GainsAreOrders` |
| `ResourcesHold` | `NoFreeResources` |

None of the safety invariants is inductive. A handler decides at `QueueCheck`
and writes at `QueueCommit`, so the invariant has to carry its decision
across: `Admitted(t)` says that while a handler is past its check, it
holds its planet's lock, every row pending now was pending in its snapshot,
and the snapshot had room. `LocksHeld` gives the exclusive holder of each lock
and rests on which places of the code exist for handlers and sweeps
(`RequestPCs`, `SweeperPCs`). `SafeInv` joins them; each action is
one step of the proof, and the actions that only remove pending rows share a
lemma. `StockInv` is the invariant under `NoFreeResources`: what a handler
remembers of the stock (`PurseCovered`) is covered by what the planet had and has
produced since, because nobody else may write the planet while the handler holds
its lock; and a cancel credits the planet of the row it cancels (`CancelsItsRow`).

`FleetsProofs` proves of `Fleets`, for every set of planets, number of handlers,
schedulers and fleets, and every speed, price and capacity, from `FleetConstantsOK`
and `UntouchedIsNoRow` (the mark of a row that a draft has not locked is no row):

| theorem | states |
|---|---|
| `TypeCorrect` | `[]TypeOK`: no planet's ships and no fleet's cargo become negative |
| `LocksKept` | a row is in the draft of one transaction at most |
| `RecalledHolds` | `RecalledNeverArrives` |
| `LedgerImplemented` | `LedgerSpec`: the tables implement `FleetLedger` |
| `NothingFromNothing` | `NoFreeCargo` |

`Inv` says of every transaction what it holds and how that relates to the committed
rows: a recall in progress has read a row it does not own (`RecallsPast`), a
dispatch holds planets only (`Dispatching`), a sweep's drafts are rows the
table may take (`Held`). A batch changes many rows before it commits, so for
conservation `Balance` adds that in every sweep the drafted ships and the ships it
found destroyed make up what the table still says of the same rows, and the same of
cargo, loot and production, up to what storage cuts. The refinement then goes
step by step: a dispatch that commits is a `Launch`; a sweep that commits changes
any number of planets and fleets, `Balance` turns it into `Settle`; every other
step leaves the ledger alone.

Both conservation results need sums over sets. The library defines them by
recursion, which the provers cannot unfold for a set of unknown size. `SumProofs`
proves that such a sum is the number of the pairs of a member and one of its units,
by well-founded induction over the strict subsets of a finite set, and takes its
laws (a change of one summand, comparison, scaling) from those of cardinality.

`LimiterProofs` proves `TypeCorrect` and `LimiterBound`, that is `[]RateBounded`, for every
capacity, cost, number of requests, idle limit and wait for the mutex, from
`BucketAssumption` and `LimiterAssumption`. What was spent in the window is not
enough to be inductive: `WindowInv` adds what the bucket still holds, and that a
bucket is collected only after as long as it takes to fill it and twice the
lag, so that a fresh full one gives nothing away.

`LoginProofs` proves five properties of `Login` for any browsers, terminals,
names, addresses, durations and bounds.

| theorem | the invariant it rests on |
|---|---|
| `AccountsHold`: `AccountsDistinct` | itself: the constraint is evaluated by the insert |
| `FirstApprovalHolds`: `FirstApprovalWins` | `CodeInv`: a code is at most one row, and the next code is new |
| `LoggedOutHolds`: `LoggedOutIsOut` | `TokenInv`: every token anybody holds was issued, so the next is new; `LogoutInv`: an approval about to bind a token read a row of it before any logout it did not overlap |
| `TokenWasApprovedHolds`: `TokenWasApproved` | `ApprovedInv`: a bound row names an approval, and a client polls only for a code it started |
| `RowsNameTheirUserHolds`: `RowsNameTheirUser` | `UserInv`: a page about to bind a token names that token's user, and tokens are never signed anew |
| `TypeCorrect`: `TypeOK` | `AccountInv`: whatever token is held, stored or about to be bound is signed for an account that exists; this one needs `LoginConstantsOK` (durations and bounds are natural numbers) |

They share two lemmas on what a step can do: `SessionsStep` (delete rows, issue
a session, start a code, or bind one) and `ClientStep` (a client keeps its token,
takes that of its file, or reads that of its code's row). `TypeInv`, the part of
the types on which the five properties rest, assumes nothing about the durations:
`Moments` is what the code computes from its clock with them.

`AlliancesProofs` proves `OneAlliance`, `FoundedWhole` and the action property
`FounderLeavesNobody` for any users, tags, names and requests. `Inv` says what a
request remembers between its statements (a user who asked, an alliance that
exists) beside the two invariants; the constraints of the tables do the rest.
`LeaveInv` adds that a founder about to be removed, with nobody having joined
since he counted, is the last member: a join takes the mark `alone` from the
requests it overtakes. That a count of one means being the last is an argument
on cardinalities. `TypeCorrect` needs nothing more than what the requests remember.

`ConsoleProofs` proves the four properties of `Console` and `TypeCorrect` for any
views, planets and number of commands (`ConsoleConstantsOK`: the overview is a view, a
player has a planet). The part of `TypeOK` a reader may doubt is that the
history's index, which the arrow keys move, stays inside the history. `CommandInv`: the prompt is taken exactly while a command
runs, commands run one at a time, and each gives back the writer it borrowed
from the terminal. `ShownInv` rests on it: while no command runs, the selected view
is here or on its way, with the current planet or marked as overtaken by a
/switch.

`PartsProofs` proves what is promised of the six other components. `Combat` is
extended; the others are instances (`Upd`, `Home`, `Role`, `Prog`, `Eco`).

| theorem | the invariant it rests on |
|---|---|
| `NoOverkillHolds`: `NoOverkill`, for any armies of catalog units and any technologies | the arguments stay; `LossesBounded`: hit points lost, times the pool, are at most the sum of the shares, which is damage times the pool. It needs that every unit has armour (`ProfilesOK`), and nothing of how a share is rounded down |
| `BinaryWholeHolds`, `ComparedIsIntactHolds`, `InstallsItsReleaseHolds`: `BinaryWhole`, `ComparedIsIntact`, `InstallsItsRelease`, for any number of updates | `Carries(u)`: from its download to its rename, an update's own file is the release it resolved, and intact once it was compared |
| `CurrentHasPlanetHolds`: `CurrentHasPlanet` | the same transaction writes both |
| `AdminsRemainHolds`: `AdminsRemain`, for any number of users and requests | `ChangesOK`: no demotion under way is of the one who asked for it |
| `ParentFirstHolds`: `ParentFirst` | `TreeInv`; a research begins only with what its row of the table asks for, and the parents of the drawn tree are among that (`ParentsAreAsked`) |
| `EverythingReachableHolds`, `NoOrderIsADeadEnd`: `EverythingReachable`, whatever is advanced first | `TreeInv`: levels stay below what anybody asks for. That is enough, because `NoDeadEnd` shows of any such levels that, where nothing can be advanced, the stores are full-grown (each next store fits into the present ones), so no price is in the way, and then each building and research is settled in the order of its prerequisites |
| `BattleTypeCorrect`: `TypeOK` of `Combat` | `BattleTypes`, `Accounted`: what is left and what is lost of a kind are what came |
| `HomeworldsTypeCorrect`: `TypeOK` of `Homeworlds` | `HomeTypes` |
| `RolesTypeCorrect`, `UpdaterTypeCorrect`, `LevelsTypeCorrect`: `TypeOK` of `Roles`, `Updater`, `Progress` | parts of the invariants above; no level passes twenty |
| `EconomyTypeCorrect`: `TypeOK` of `Economy`, and `StoresHold`: no stockpile ever exceeds its store | `EconomyInv`: the stockpile is inside the stores, which only grow, and what is under way could be begun and still can |
| `EconomyFollowsTables`: `Economy` implements `AnyLevel` of `Progress` | `EconomyInv`: what was paid came from a stockpile inside the stores, so the price fits into them. A blacked-out planet's first solar plant may be paid with less, but its full price fits too |
| `EconomyParentFirst`: `ParentFirst` of the levels of a planet with its production | the refinement, and that `AnyLevel` keeps it |
| `NobodyOvercreditedHolds`: `NobodyOvercredited` | `EconomyInv`: what an order has read is no older than the planet's row, and inside the stores. `AfterMonotone`: more time or a fuller stock never yields less |
| `OnlyLevelsAndOrdersMisprice`: while a planet is exact, what it holds after an update is what its levels yielded; only raising a level, or paying an order later than its refresh credited, ends that, and such an order loses at most the yield of the time between | `Exact` speaks of the planet and of the order that holds its lock. `WindowsCompose`: at fixed levels, two windows credited one after the other are one window, full stores included. Together the two bound what `economy_windows` finds: looking seldom alone does no harm |

Their assumptions: `CombatConstantsOK` (finite sides of catalog units, levels and
counts that are natural numbers, a product that falls short was not zero),
`UpdaterConstantsOK` (the two directories are directories; no release is tagged with a
mark of the model), `OneAttempt` (a join makes at least one attempt) and `StorageGoalAssumption`
(stores are worth nine to thirteen levels: below nine some prices never fit, and
the table of `StorageCapacity` ends at thirteen) and `SettingsOK` (levels up to
thirteen for the same reason, speeds and bonuses not negative, no planet as hot as 340
degrees, where a synthesizer would yield less than nothing).

The formulas of `Economy` raise numbers to levels. The provers unfold `^` for fixed
exponents only, so `Power` is a recursive function, and a recursive function is
a `CHOOSE`. `PowerUnfolds` shows that there is something to choose: for every n the
first n powers exist and are unique (by well-founded induction on the naturals), and
glued together they satisfy the recursion.

Only model-checked:

- Liveness (`DueOrdersResolve`, `DueFleetsMove`, `LoginEnds`, `JoinEnds`): under
  fairness, out of the prover's reach.
- `TypesOK`, the conjunction that `MCParts` checks in one run. The type invariant of
  every component in it is a theorem above.

## Plan

Done: every component above with its runs, and a proof of every safety property that holds,
the refinements of `FleetLedger` and of `AnyLevel` included. What is left is
liveness, which the provers cannot do.

## Not modelled

Messages and reports are single statements; presence is a map under a mutex; the
read models, HTML and terminal rendering hold no state; migrations, flags
and start-up are input and output; the websocket hub drops its events. Flight
times, fuel and cargo capacity, the random attributes of a planet and build times
are data of the models: no property depends on their values.
