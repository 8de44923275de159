# RateCore, specified

TLA+ models of the parts of RateCore where timing matters: the price caches and
provider routing of the Go API (`src/internal`), and the scheduler, the admin
panel, the user's handlers and the menus of the Python bot (`src/ratecore_bot`).
TLC checks each model on a small instance; TLAPS proves all of the safety that
holds of them for every instance.

    tlc -workers 2 -config MCAutoPost.cfg MCAutoPost     # any MC*.cfg
    tlapm AutoPostProofs.tla                             # any *Proofs.tla

`PROJECT.json` says for every definition which lines of the source it models,
for every property which bug in that code it would catch (the `X_Wrong`
definitions, each of which breaks the property it is listed with), and lists the
hazards the properties were written for.

## The system

Two programs. The **API** (Go) serves `/price/{symbol}` and `/prices/batch`;
each request is a goroutine. The **bot** (Python, aiogram and SQLAlchemy over
SQLite) handles every Telegram update in a task of its own and runs a scheduler
in one more task. The bot is a client of the API.

| part | state | operations | meets others through | what makes it correct |
|---|---|---|---|---|
| USD/IRR converter (`conversion.go`) | rate, expiry | `USDToIRR` | shared by all requests, locks released around the provider call | no rate is served past its age; a refresh done is a refresh shared |
| price service, one symbol (`service.go`) | price cache | `GetPrice` | cache and converter shared by requests | bounded staleness with two caches stacked; failures leave the cache alone |
| price service, batches (`service.go`) | one call's result map | `GetPricesBatch` | the same cache; upstreams come and go | nothing is lost that `GetPrice` would find; hits survive failures |
| routing (`service.go`, `wiring`, `adapters`) | none | `detectKind`, `providersForKind` | - | a symbol reaches the providers that have it |
| scheduler, auto-posts (`scheduler.py`) | a pass: list, session, write lock | `process_auto_posts` | the database rows the admin writes | switching off takes effect; the record tells the truth; a pass ends |
| scheduler, alerts (`scheduler.py`) | a pass: rows read, prices | `process_alerts` | alert rows written by other sessions; the API | told once, off stays off, alerts fire |
| admin panel (`handlers/admin.py`) | the panel message, one row snapshot per handler | add, toggle, cycle, remove, cancel | other handlers, `/start`, `/ping` on the same rows | what the admin was told holds |
| menu anchors (`ui/anchor.py`, the picker of `handlers/admin.py`) | message ids per chat, the prompt remembered | `/start`, `/restart`, `/admin`, add, share | concurrent updates; people who delete messages | the menu in the chat is the one whose id is stored; no prompt stays behind |
| maintenance (`GlobalSettings`) | one switch, whose row is made by its first reader | panel, toggle, gates of the user handlers | scheduler, handlers | who comes to a gate after the switch is kept out |
| favorites and user screens (`handlers/user.py`) | rows of users and favorites | add, remove, show, price | other handlers of the same user | a button says what pressing it will do |
| views, client, start-up, scripts | little or none | | | |

What is hard here: callers that read under a lock, wait for the network and
write under another; two caches on top of each other; one result map shared by
kinds visited in random order; a database transaction held open through a series
of sends to the network; one commit at the end of a pass, and crashes before it;
handlers that decide on rows they read before another handler wrote them; rows
made by whoever looks first; labels and menus in a chat that outlive what they
were made from; a remote side that does what it was asked and whose answer is
lost.

## Modules

| module | models | with |
|---|---|---|
| `BoundedStaleness` | what a cache promises its clients | abstract, implemented by the next two |
| `FXConverter` | `CachedFXConverter` | instantiates `BoundedStaleness` as `Promise` |
| `PriceService` | `GetPrice`, the price cache | composes `FXConverter` (`FX`), instantiates `BoundedStaleness` |
| `Routing` | `detectKind`, `providersForKind`, the wiring, the adapters' tables | pure operators |
| `BatchPrices` | one `GetPricesBatch` call | extends `Routing` |
| `AutoPost` | `process_auto_posts` against the admin's writes | |
| `Alerts` | `process_alerts` against other sessions | extends `Routing` |
| `ManagedChats` | the admin's chat handlers against each other and `/start`, `/ping` | |
| `UserHandlers` | the handlers behind the maintenance switch, favorites, the admin's switch | |
| `MenuAnchors` | the menus of a chat and the ids stored, the picker's prompts | |
| `FXConverterProofs`, `BatchPricesProofs`, `AutoPostProofs`, `AlertsProofs`, `ManagedChatsProofs`, `UserHandlersProofs`, `MenuAnchorsProofs` | theorems about the module of that name | TLAPS |
| `PriceServiceProofs` | theorems about `PriceService` | instantiates `FXConverterProofs` as `FXP` |
| `ManagedChatsProofs`, last part | the panel's handlers and the scheduler on one database (`Together`) | extends `ManagedChats`, instantiates `AutoPostProofs` as `P` |
| `MC*` | instances for TLC | |

How state and actions correspond to the code:

* **FXConverter.** `lastRate` and `expires` are the fields of that name; `pc`
  and `since` stand for a goroutine between the two locks. A rate *is* the
  instant at which the provider quoted it, so its age is a difference of
  instants and "older" is `<`. `CacheHit` is the branch under the read lock,
  `CallProvider` the fall-through, `Store` and `ProviderFails` the return of the
  provider call. `MayTick` is the HTTP client's timeout: the clock stops for a
  call that has reached it.
* **PriceService.** `cache` is the map, `req` the locals of each `GetPrice`. The
  converter's steps are `FX`'s, taken by a request that is converting. A price
  is a pair of instants: quoted, and when the rate it was multiplied by was
  quoted.
* **BatchPrices.** `sink` is `resultBySymbol`; `kind`, `nth` and `left` say
  where the two loops of `fetchBatchForKind` stand; `\E k \in todo` is the
  random order of a Go map. `Flap` changes which upstreams answer, between any
  two calls. `steady` says that none has changed since the call began:
  properties that compare the answer with what `GetPrice` would return need it,
  the others do not. The reading of a repeated or an empty symbol is left out.
* **AutoPost.** `chat` holds the columns the pass and the admin share, as
  committed. The rows a pass has flushed are `dirty` until `Commit`. `locked` is
  SQLite's write lock, taken by the first flush; admin writes wait for it. Time
  is in polls of sixty seconds, intervals too. A turn of the pass is an edit of
  the last dashboard (`EditOk`, `EditFails`, `EditReplyLost`) or a new message
  (`SendOk`, `SendFails`, `SendReplyLost`), and an edit that raises, though it
  may have been made, falls back to a new message; so dashboards are counted by
  the way they came. `send_mode` is left open: wherever there is a message to
  edit, either may come first. `FlushFails` is the flush in the `except` clause
  raising too; `Crash` the process being restarted. A handler is one step that
  reads and writes; what comes of reading first and writing later is proved
  (`OpenSpec`, `Together`).
* **Alerts.** Prices are the set of alerts whose condition they meet (`met`, and
  `hit` for the ones fetched). The answer of the API may lack any price while
  something is down (`healthy` is false from `Outage` to `Recovery`), and those
  no provider has always; `Poisoned` and `Spoils` say when the batch call fails
  with everything up. `id` gives new alerts the ids SQLite would, the id of the
  last row deleted again included; what the pass writes goes to the row that has
  the id of the alert it read (`Heir`), and `StaleRow` is a row deleted during
  the fetch with no heir. `SendFails` also stands for reading `alert.chat`,
  which the query does not load: with the pinned SQLAlchemy that read raises in
  an async session and the exception is swallowed, so today every send takes
  that branch; the properties are checked with both. No handler calls the
  functions that create, switch off or delete alerts yet; they are modelled as
  the repository offers them.
* **ManagedChats.** A handler is a task that reads the chat, then its settings,
  then writes, then edits the panel. What the ORM writes are the columns that
  differ from what was *read*, whatever is in the row by then: hence
  `Deactivated(row, seen)` and `Reactivated(c, seenActive)`. From flush to
  commit the handler holds the write lock, so the write is one step. `/start` on
  an unknown chat is a creation and, separately, a reactivation. `Crash` ends
  every handler where it stands; the panel keeps what it shows.
* **UserHandlers.** A handler is a task that goes through the steps of its
  update: `gate` is `_is_bot_enabled_for_user`, `look` and `insert` the two
  halves of `get_or_create_global_settings`, `sync` is `sync_user_and_chat`,
  `session` the read of the user and the favorite, `write` the change, `tell`
  the reply that carries a label. `rows` are the rows of `global_settings` in
  the order of their ids: `LIMIT 1` without an order reads the first. `favorite`
  holds the id of the row, because `remove_favorite_symbol` deletes by the id it
  read and SQLite gives the id of the last row again once it is deleted. `Fails`
  stands for the API not answering, the lock not being had and the uniqueness
  constraint being violated.
* **MenuAnchors.** `stored` is the pair of ids in `ChatSettings`, `menus` and
  `prompts` what is really in the chat. `Edit` and `EditFails` are the two
  outcomes of `edit_message_text`, "message is not modified" being the first;
  `Send`, `SendLost`, `Store` and `StoreFails` the fall-through. `RowOf` gives
  each chat its internal id: the functions that look a chat up by one id or by
  either are modelled by what they find (`WithRow`, `Found`). `CleanUp` is the
  deletion two minutes later, after which the handler remembers the prompt;
  `PromptLost` a prompt that is sent without the bot being told. `others` are
  the two messages with a Back button that are no menus, the list of `/alerts`
  and the word that a chat was added; `Back` edits them into a menu (`turned`),
  whose id is not stored.

Variables under "what has happened, which the program does not know"
(`lastPass`, `lost`, `acked`, `stale`, `barred`, `shown`, `calm`, `due`...)
record the outside world for the properties; no guard reads them.

## Runs

| run | instance | states | properties |
|---|---|---|---|
| `MCFXConverter` | 2 callers, TTL 3, timeout 2, clock to 9 | 4 thousand | expiry follows the quote, no fetch while fresh, regressions bounded, implements `BoundedStaleness` |
| `MCPriceService` | 2 requests, a dollar-quoted symbol and one without providers, both caches expire in the horizon of 8 | 127 thousand | entries are young, quote and rate are close, no needless asks, regressions bounded, implements `BoundedStaleness`, requests are answered |
| `MCBatchPrices` | all batches of up to 3 of 8 symbols, all caches, all upstreams up or down and flapping | 173 thousand | hits keep the batch, alone like `GetPrice`, dropped only behind static, order does not show, the call ends |
| `MCBatchSalvage` | the same | violated | "salvage partial data" |
| `MCAutoPost` | 2 chats, intervals 1 and 2, clock to 3 | 1.7 million | late posts are bounded, after a removal and after power off; the record matches the world; spacing; passes end |
| `MCAlerts` | 3 alerts, one on a symbol no provider has, one failed pass, any number of outages | 569 thousand | told once, at most one late alert, off stays off, alerts fire |
| `MCManagedChats` | 1 chat, 2 handlers, 2 intervals | 1.8 million | removed is off, acknowledgements hold, the panel is truthful |
| `MCManagedChatsRemoval` | the same | violated | "Removing a chat hides it from the list" |
| `MCUserHandlers` | 2 handlers, the admin and a user, 1 symbol, no row of the switch yet | 1.4 million | gates hold, labels are truthful |
| `MCUserHandlersOff` | the same | violated | "user commands/features disabled" |
| `MCMenuAnchors` | 1 chat, 2 handlers, 3 messages | 1.4 million | one menu per anchor, prompts are timed |
| `MCMenuAnchorsPrompt` | the same | violated | "Track last prompt message" |

**Why the bounds are enough.** The clocks end after at least two refreshes of
each cache and, in `AutoPost`, after every interval has gone by once: nothing in
those models depends on an instant, only on differences. Races in the converter
and the panel are between two; a third caller or handler only adds more pairs.
Two chats are the least that lets a pass wait on one send while another chat's
row is already flushed; two alerts plus a poisonous one the least that lets a
pass fail after one was told. Chats do not share rows, so one is enough for
`ManagedChats`; the same goes for the anchors of chats, and the admin and one
user are the least that tell whom a gate lets through. Two handlers make two
rows of the switch, or two menus; three messages are enough for a menu, its
orphan and the one that follows, for a menu and two prompts, or for a menu
beside one that was something else. Row ids of favorites go up to `MaxRow`,
which lets one come again. `MaxFaults` keeps "not every pass fails", without
which alerts need not fire, to a finite number of failures; outages need no
bound. Three alerts are enough for one to be deleted and its id to go to another
while a third keeps the pass busy.

**What the runs show of the code as it is.**

* With both caches stacked, a served price can rest on data as old as the price
  cache's TTL plus one rate fetch plus the rate's TTL (or one provider call, if
  that is longer): with the defaults about 60 seconds, and not the 25 of the
  price cache. `Freshness` in `PriceService` states the bound for `GetPrice`
  traffic, which is what the model has. A batch normalizes its prices one after
  another (`service.go:244-252`), each perhaps waiting for a rate of its own,
  and stores into the same cache: what it stores can be older than that.
* Overlapping fetches may replace a value by an older one; the loss is bounded
  by one call (`RegressionBounded`).
* A batch can fail although a symbol in it can be had, depending on the order in
  which Go visits the kinds (`SalvagesPartialData`); among the calls that do not
  fail the order never shows (`OrderDoesNotShow`). What a batch lacks that
  `GetPrice` would find, it lacks because static was asked for it together with
  a symbol of the same kind that it has (`DroppedOnlyBehindStatic`).
* Removing a chat, or turning the bot off, lets at most one turn of a pass
  through per chat: one edit and one message at most (`LatePostsBounded`,
  `PowerOffBounded`). Both come when the edit is made and its reply is lost.
  After a crash or a failed flush the dashboards of a pass are sent again: the
  record is never ahead of the world, but it can be behind
  (`RecordMatchesWorld`).
* The interval of a chat is kept from the start of one pass to the start of
  another (`SpacingRespected`). A dashboard that comes late in its pass, the
  sends before it having taken long, may have the next one sooner than the
  interval.
* One active alert on a symbol without providers keeps all others from firing,
  and so can one that no provider has, if its kind is visited first:
  `AlertsFire` holds only while there is none, and only once the API and its
  upstreams stay up. Static's prices are no exception: in dollars, they need the
  USD/IRR rate.
* A new alert that is given the id of a deleted one during a fetch is switched
  off in its place, untold, if the old one triggers.
* `/start` in a removed chat manages it again (`RemovalIsKept`). Two overlapping
  handlers can lose an update: the acknowledgement "removed" or "added" is then
  wrong, and a removed chat may keep auto-post on, to resume when it is added
  again. `RemovedIsOff` and `AcksHold` say exactly when (`stale`).
* Two first readers of the switch may leave two rows of it. That is harmless:
  `set_bot_enabled` looks for the row once more and turns the one that everybody
  reads, so no gate opens while the bot is off (`GatesHold`). Handlers admitted
  before go on, and those of favorites and alerts have no gate, whatever the
  documents say of a bot that is off (`OffMeansOff`, violated).
* A button under a price, and the admin's switch, say what pressing them will do
  as long as the handler that showed them had no company (`LabelsTruthful`); two
  overlapping presses can leave either wrong.
* A chat keeps one menu of each kind, the one that is stored, if its handlers do
  not overlap and nothing is lost (`OneMenu`, `calm`). Two overlapping `/start`,
  a lost reply, a failed store, or a restart between sending and storing leave
  an orphan; `/restart` always leaves the old menu. Without any of that, Back
  under the list of `/alerts` or under the word that a chat was added makes a
  second menu of that message, while docs/ADMIN.md:5 says that callbacks keep
  editing the same anchor; `OneMenu` says that nothing else does.
* `on_admin_chat_shared` looks for the admin's menu under a Telegram id where an
  internal id is expected. It finds nothing, and the menu stays; that no chat's
  row is found by accident rests on Telegram's ids being larger than any row's
  (`ChatsAssumption`).
* The prompt of the picker is remembered only once its handler has tried to
  delete it, so sharing a chat does not delete the prompt it answers, which the
  comments of `admin.py` intend (`PromptIsKnown`, violated). A restart within
  the two minutes, or a lost reply, leaves it for good (`PromptsAreTimed`,
  `kept`).

Seen in the source and in the models as it is there, without a run of its own:
`process_alerts` does not read `bot_enabled`, while docs/ARCHITECTURE.md:51 says
that the scheduler skips alerts too; every code of three letters goes to the
forex chain, `XAG` included, which no provider of that chain has
(docs/ARCHITECTURE.md:34 gives metals to providers of their own).

**Fairness.** Weak fairness of the steps a goroutine or task takes by itself
once it runs: every network call either returns or times out (the `Timeout` of
each `http.Client`, aiohttp's and aiogram's timeouts), and the runtimes schedule
what is runnable. Nothing is assumed of the clock, of users or of upstreams;
`AlertsFire` is about what follows once they stay up, and says so in its own
premise (`<>[]healthy`). `FXConverter` alone, `ManagedChats`, `UserHandlers` and
`MenuAnchors` claim no liveness: that a rate call returns is in
`RequestsAnswered`, and a bot's handler may raise at most of its steps, and then
its update is lost.

## Proofs

TLAPS 1.4.5 checks the theorems below for every value of the constants, assuming
of them only what the `ASSUME`s in the models say (positive TTL and clock bound,
intervals closed under `NextInterval`, `NoChat` not a chat).

* **FXConverterProofs**: `TypeCorrect`, `ExpiryCorrect`, `FetchesStopWhenFresh`,
  `RegressionIsBounded`, `ImplementsBoundedStaleness`. None of the properties is
  inductive. That the expiry follows the quote needs every fetch in flight to be
  younger than its timeout (`FetchesAreYoung`), which in turn is what `MayTick`
  grants when the clock moves. With that, each action preserves `IInv`, and each
  step of the converter is a step or a stutter of `BoundedStaleness`: `CacheHit`
  and `Store` map to `Serve`, where `IInv` supplies the age bound.
* **AutoPostProofs**: `TypeCorrect`, `LatePostsAreBounded`, `PowerOffIsBounded`,
  `RecordIsTruthful`, `LockBelongsToPass`, `SpacingHolds`. The bound on late
  posts needs an account of where a chat that got one of a way can be: off the
  list, and not at its fallback if it was a message (`LateInv`, `ToCome`), and
  off the list for as long as it is unwanted, because a new list is made only of
  wanted chats. For the power switch the argument needs the step between reading
  the switch and reading the list too (`PowerInv`). The record needs
  `RecordInv`: what a pass will stamp on a chat is the pass in which it was sent
  to or edited, and nothing is later than the pass under way. `PassShape` ties
  the locals of a pass together. All of it is proved of `OpenSpec`, in which
  anything may be written, at any time the lock is free, to the columns the pass
  does not write (`SetRow`); `Spec` is one such environment. So the bounds do
  not rest on the handlers being one step, nor on what they do
  (`WhateverIsWritten`).
* **PriceServiceProofs**: `TypeCorrect`, `EntriesAreYoung`, `SkewIsBounded`,
  `AsksStopWhileCached`, `RegressionIsBounded`, `ImplementsBoundedStaleness`.
  The converter is not proved again: every step of the service is a step of the
  converter or leaves it alone (`StepOfConverter`), so `FXP!IInv` holds of the
  composition. What is added says how old the quote in a request's hands is at
  each stage of its conversion (`ConvertingInv`): one provider call until a
  fetch begins, one fetch more when it ends. `StoreKeepsCache` turns that into
  the bounds on what is cached.
* **BatchPricesProofs**: `TypeCorrect`, `HitsAreKept`, `AloneIsLikeGetPrice`,
  `KindsInAnyOrder`, `DroppedBehindStatic`, `CallsAreBounded`, for batches of
  any size. `CallInv` traces every kind of a call to a missing symbol.
  `AloneInv` is the invariant of the loop over a chain: the providers already
  asked are no sources of the symbol. `KindResult(k)` is what kind `k` amounts
  to on its own, a function of the upstreams; `OrderInv` says that, while they
  stay, the sink holds exactly that of each kind done, nothing of a kind to
  come, and of the kind under way what the providers asked so far account for.
  What a returned call lacks is then a matter of one chain (`LeftOut`): the
  first provider to answer did not return the symbol, for had it done so without
  a rate to convert it, one before it that needs no rate would have answered
  first; and of the providers only static leaves out a part (`AllOrNothing`).
  That there is a first is the least number principle for a set between 1 and
  some n (`LeastElement`), from the library's theorem on finite sets.
  `CallsLeft` counts the provider calls a batch may still make; each call lowers
  it, beginning a kind moves calls from the kinds to come to the kind under way,
  and nothing raises it, so a batch of m missing symbols of n kinds makes at
  most 3(m + n) calls, one after another (forex has the longest chain, of
  three). That is `BatchEnds` without its fairness; cardinalities make it a
  matter of linear arithmetic once the catalogue is known to be finite.
  `ChainAssumption` is no condition on a parameter but three facts about
  `Routing`, which TLC evaluates at every run: each chain is a sequence of
  providers, none is longer than that of forex, and the one that quotes in rials
  stands last.
* **AlertsProofs**: `TypeCorrect`, `TellsOnce`, `LateAlertsAreBounded`,
  `OffStaysOff`. `ToldInv` says where an alert that was told can be: off the
  list of the pass, and marked or switched off, unless a pass was rolled back.
  `LateInv` says the same of one that was told late, which is off and stays off.
  `IdInv` says that an alert told, listed or stored has been made, so that none is
  made twice: a pass may mark another alert's row, but tells none anew.
* **ManagedChatsProofs**: `TypeCorrect`, `RemovedChatsAreOff`, `AcksAreKept`,
  `PanelShowsTheRow`. A handler that writes on the strength of rows that changed
  marks its chat `stale`, so `RemovedIsOff` and `AcksHold` need little more than
  the shape of the locals (`TaskInv`, `RowsInv`). The panel needs `AloneInv`,
  that a handler which has had no company knows the row it writes and shows, and
  `PanelInv`, that a panel is out of date only while one has still to edit it.
* **ManagedChatsProofs, the two together**: `Together` interleaves the panel's
  handlers with the steps of the scheduler over one database: a handler writes
  only while no pass holds the lock, the pass sees each chat through `PostRow`,
  and a crash ends both. It has no steps of the panel's but those of
  `ManagedChats`; `TogetherIsAutoPost` shows that it refines `AutoPost` too, by
  mapping a handler's stale write to `SetRow`: so every invariant proved of
  either holds of the whole. Neither model can state what follows: a chat the
  admin was told is removed is wanted by no pass, gets at most one more edit and
  one more message (`RemovedChatsFallSilent`) and is put on no list again
  (`RemovedChatsAreNotListed`), unless a handler decided on rows that another
  was changing (`stale`). `TogetherAssumption` is what `AutoPost` assumes of its
  constants. No run checks `Together`: its smallest instance has several million
  states, and the two models it refines are checked.
* **UserHandlersProofs**: `TypeCorrect`, `GatesAreShut`, `LabelsHold`.
  `SwitchInv`: the row that is read is what the last toggle committed, whatever
  was inserted behind it. `KnowsInv`: a handler that has been alone knows what
  is in the database about its thing; `ShownInv`: a label is right unless a
  handler is about to replace it.
* **MenuAnchorsProofs**: `TypeCorrect`, `OneMenuPerAnchor`,
  `PromptsAreCleanedUp`. A calm anchor has at most one handler at work
  (`CalmInv`), and where it stands says what is in the chat (`StageInv`); that
  prompts have a handler waiting for them is inductive as it stands.

Only model-checked: liveness (`RequestsAnswered`, `BatchEnds`, `PassEnds`,
`AlertsFire`), which this prover does not do, nor `ENABLED`. Every invariant and
every action property of a passing run is the statement of a theorem. The four
violated properties are refuted by TLC's counterexamples.

## Not modelled

* The values of prices, their formatting, the display currency; HTTP and JSON.
* The bot's timeout against the API's provider timeouts: what the API caches for
  a caller that has left is what any other request would cache, and no state
  hangs on that caller. In the models a call of the API answers or fails, at any
  time. How many provider calls a batch can come to is `CallsAreBounded`.
* The API server and its configuration, logging, the bot's reading of its
  environment and its registration of commands: no state a step could disturb.
* Deleting commands and notices from a chat: best effort, and nothing follows.
* Shell scripts and Docker files.

## Plan

Done, in this order: converter, price service, routing and batches, auto-posts,
alerts, managed chats; user handlers and maintenance; menu anchors; proofs of
the safety of each; the panel and the scheduler together.

Left, most important first:

1. The scheduler's two passes in one model: today each meets the other only
   through the write lock and the sleep between polls.
2. Concurrent batches over one cache with ages, composing `BatchPrices` with
   `PriceService`.
3. Variants of the scheduler's loops, as `CallsLeft` is for a batch: the part of
   the liveness properties that needs no fairness.
