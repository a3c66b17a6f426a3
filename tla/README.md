# MarzbanSudo in TLA+

MarzbanSudo sells VPN accounts over Telegram. A user charges a wallet, buys a
plan, and the bot provisions an account on a Marzban panel; admins moderate
top-ups and orders, and a worker process reminds users and cancels old orders.
This directory models the parts of it where several actors meet, checks the
models with TLC on small instances, and proves every invariant and action
property for every instance with TLAPS.

Paths below are relative to `src/app/`. `PROJECT.json` lists for every
definition the lines it stands for, for every property a mutation of the code
that breaks it, and every hazard with its line.

## 1. The system

Two containers share one MariaDB 10.11: the **bot** (one asyncio process,
`main.py`) and the **worker** (`services/scheduler.py`). Both call the
**Marzban panel** over HTTP and **Telegram**.

| component | state | operations | interacts with |
|---|---|---|---|
| wallet (`bot/handlers/wallet.py`) | `users.balance`, `wallet_topups` | submit a receipt, approve, reject (button, with reason), manual credit (two button flows, two commands, user page) | purchases and extra volume write the same column |
| purchases (`bot/handlers/plans.py`) | `orders`, `users.balance`, `user_services` | `_do_purchase`: one transaction around the panel calls | wallet, orders, panel |
| extra volume (`bot/handlers/account.py`) | `_EXTRA_GB_PENDING` in memory, balance | ask, cancel, confirm | wallet, panel |
| orders (`orders.py`, `admin_orders.py`, `job_autocancel_orders`) | `orders` | buy, attach and replace a receipt, approve, reject, auto-cancel | plans, panel; bot against worker |
| plans (`admin_manage.py`, `scripts/sync_plans.py`) | `plans` | create, edit, toggle, delete, sync templates | orders hold foreign keys |
| ban gate (`bot/middlewares/ban_gate.py`, `admin_users.py`) | two settings rows, two caches with a TTL, `users.status`, account status | every update; two ban switches | panel |
| panel client (`marzban/client.py`) | token, lock | requests with retries and re-login | everything that calls the panel |
| notices (`services/scheduler.py`) | two marks per user | two periodic jobs | panel, Telegram |
| services (`provisioning.py`, `trial.py`, `account.py`, `admin_users.py`) | `user_services`, `users.marzban_username`, trial and rename marks | provision, trial, rename, delete | database and panel, without a common transaction |
| accounts (`services/marzban_ops.py`, `admin_manage.py`) | volume, expiry and existence of accounts on the panel | provision, set, add, extend, delete, delete what has expired | purchases, grants, admins |
| dialogs (`utils/intent_store.py`, dictionaries in handlers) | settings rows, memory | pass a choice or a question from one update to the next | wallet, purchases, plans, users, trials |
| dispatch (`main.py`, `start.py`) | none: the order of the routers and their filters | which handler gets a text | every dialog that asks for one |
| sessions (`db/session.py`) | connection pool | `session_scope`, also inside another one | everything; the worker's row locks |

**What is hard here.** Each `await` lets other handlers run, so every database
statement and every HTTP call is a point where two updates interleave.
Transactions run at REPEATABLE READ: a SELECT reads a snapshot, an UPDATE the
latest row, and a value computed from the first and stored by the second undoes
what was committed in between. Some transactions stay open across panel calls.
The panel takes part in no transaction: a call can fail before or after its
effect, and some flows commit first and call later. Caches are filled after an
`await`. Handlers open a session inside a session. Dialogs live in rows, in
memory and in buttons that stay pressable; a text has no address but the order
in which handlers are tried. The worker commits once per run, after it has already written to
users. Requests are retried although they may have been carried out.

**What makes each component correct** is listed with its module below, and as
`hazards` in `PROJECT.json`.

## 2. Modules

| module | models | checked by | proofs |
|---|---|---|---|
| `WalletLedger` | what the shop promises about money (abstract) | as property `Transactions` of `wallet_core` | `WalletProofs` |
| `Wallet` | balance, top-ups, purchases' money, extra volume | `MCWallet`, `wallet_core`, `wallet_ledger` | `WalletProofs` |
| `OrderLifecycle` | what the shop promises about an order (abstract) | as property `Lifecycle` of `orders_core` | `OrdersProofs` |
| `Orders` | orders, plans, provisioning, auto-cancel | `MCOrders`, `orders_core` | `OrdersProofs` |
| `BanGate` | ban gate, caches, ban switches, accounts | `MCBanGate`, `ban_core` | `BanGateProofs` |
| `MarzbanClient` | token, lock, retries | `client_core` | `MarzbanClientProofs` |
| `Notices` | the two notification jobs | `notices_core` | `NoticesProofs` |
| `Services` | services, trials, renames | `MCServices`, `services_core` | `ServicesProofs` |
| `Pool` | connections, nested sessions, row locks of bot and worker | `pool_core` | `PoolProofs` |
| `TextRouting` | questions of all dialogs, dispatch of texts, restarts | `routing_core`, `routing_swallow` | `PurchaseProofs` |
| `PlanDialog` | the buttons of a purchase and what they store | through `Purchase` | `PurchaseProofs` |
| `Accounts` | volume and expiry of accounts under concurrent flows | through `Purchase` | `PurchaseProofs` |
| `Purchase` | `PlanDialog` and `Accounts` composed | `MCPurchase`, `purchase_core`, `purchase_renewal` | `PurchaseProofs` |

A handler is a *task* with a program counter `pc[k]` and its locals `loc[k]`.
An action is one statement, one panel call or one COMMIT, with all Python code
up to the next `await`. Handlers not started yet, and those that returned, are
`idle`; a handler that returns without COMMIT loses what it wrote, as
`session_scope` does. An early return that changes nothing is left out unless
other steps depend on it.

### Wallet and WalletLedger

`approve_*`, `reject_*`, `add_*`, `buy_*` and `extra_*` are the statements of
`cb_wallet_approve`, `cb_wallet_reject`, the manual credits, `_do_purchase` and
`cb_account_buy_gb_ok`. Six handlers credit by hand with the same three
statements; they are the one family `AddRead`, `AddWrite`, `AddCommit`, and
rejecting with a reason is `RejectRead`, `RejectMark`, `RejectCommit` too. The
map names one handler for each family: `admin_wallet_manual_add_amount` for the
credits, and for rejections `cb_wallet_reject`, but for `RejectRead`, which is
the reading of the handler with a reason. Uncommitted writes live in
`loc`; row locks are derived from program counters (`HoldsUser`, `SharesUser`,
`HoldsTopUp`), and a blocked statement is an action that is not enabled. A
purchase takes the share lock that its `INSERT INTO orders` takes through the
foreign key, then the exclusive one: that is how `BuyDeadlock` comes about.
`orders`, `granted`, `gbPaid`, `gbAdded` count sales and what the panel did;
`ledger`, `credits`, `overtaken`, `lowered` are history variables that only
properties read.

Properties: a top-up is credited once and only if approved (`CreditedOnce`); a
decision is final (`DecisionFinal`: proved; for TLC it is part of
`Transactions`); balances are the sum of what was committed unless a commit fell between another handler's read and write (`LedgerExact`);
no overdraft or overflow (`BalanceInRange`); every plan sold was provisioned and
no volume was given away (`SoldIsGranted`); handlers do not block each other for
ever (`HandlersReturn`); and the interleaved statements implement `WalletLedger`
(`Transactions`).

`WalletLedger` knows no handlers, statements or locks: a request, an approval, a
rejection, a credit by hand, a sale, a charge for extra volume happen at once, and
the panel's two answers (`Grant`, `AddVolume`) are the only other steps. The
variables are those of `Wallet` that outlive a handler, and `raced` is
`overtaken`. An approval adds to the balance there is, always, because the
database adds; the other four compute with a reading, which is the balance
unless the user is `raced`. What a lost update can do is thus part of the
promise and nothing else is: even then a sale needs a reading of at least the
price, a plan on the panel, and at most one decision per request.

### Orders and OrderLifecycle

An approval reads order and plan, marks the row (`UPDATE ... WHERE status =
'pending'`, which locks it), calls the panel three times (create, expiry,
volume), commits. A sale (`SellStart`) provisions first and inserts its order at
the end; a purchase holds the plan's row by then (foreign key), a grant of the
admin panel does not, so its order may have no plan left to point to. The
auto-cancel job locks row after row and commits at the end. Plans change and
are deleted meanwhile. "paid" exists only inside the approving transaction:
nobody ever reads it, and the abstract lifecycle does without it. The columns of
an order that repeat its plan (`plan_template_id`, `plan_title`,
`plan_price`, ...) are left out: no decision reads them.

Properties: `Lifecycle` - the orders implement `OrderLifecycle` with its
fairness: one decision each, final, and reached in the end; `WorkIsExclusive` -
nobody decides about an order, or provisions for it, while somebody provisions
for it; `AccountMatchesLast` - expiry and volume of an account are of one plan,
the last committed one, unless a provisioning failed midway or met another
(`disturbed`); `PlansExist` - no order points to a deleted plan.

### BanGate

One user, because handlers share nothing between users. A gate looks into its
cache and on a miss reads the row and stores the answer in another step. A
callback of the ban switch opens its snapshot with the reading of the user, and
what it finds of the marker `RBK_SENT` is of that snapshot too (`BanRead`; the
reading may fail, which the code ignores); it commits what it has found, drops
the cache entries, reads the list of services and sets one account after the
other. An unban deletes the marker only if it has seen it: one that a gate
commits after the snapshot stays. A restart empties the caches and drops what
was under way.

`crossed` and `strayed` record the races and failures the code does not handle:
a gate that stores in its cache what it had read before a switch (`"fill"`), a
gate on its way to the marker while a switch commits, or one that stores the
marker while an unban is at work, or a message Telegram refused (`"marker"`), an
unban that could not read the marker (`"unread"`), two callbacks at once
(`"admin"`). The properties say that nothing else goes wrong: `CacheFollows`,
`KeyboardRemoved` (also in a second ban), `ServicesFollow`.

### MarzbanClient

`_request`, `_ensure_token`, `_login`. A token has no identity but a standing:
good or stale. `asyncio.Lock` is first-come-first-served, so it is a queue whose
head holds it. Properties: a handler sees 401 only if tokens expired after its
own login (`UnauthorizedOnlyIfExpired`), the panel carries a call out at most
once per attempt and at least once if it succeeds (`EffectsPerAttempt`), every
call ends (`CallsEnd`), so nobody leaves with the lock.

### Notices

Both jobs have one shape - load the users, ask the panel about each, store what
is about to be said, say it, commit at the end - and are one family of actions
over `j \in Jobs`. Usage is the number of thresholds reached; days count down
for everybody; a run that crosses midnight keeps counting by the day it started.
An extension between the panel's answer and the message makes the message an
outdated one (`Outdated`): it names a day of the term before, and does not count
as said in the new one.
Properties: nothing is said twice (`OncePerThreshold`, `OncePerDay`, except for
users a lost run had told), and usage that stays above a threshold is announced
(`UsageAnnounced`).

### Services

Rows of `user_services`, `users.marzban_username` and the names of the accounts
on the panel. Every panel call may fail before or after its effect. A trial
whose settings cannot be read goes on unchecked, as in the code, and so does one
while `TRIAL_ONE_PER_USER` is off; an admin can reset a user's mark
(`TrialReset`). A rename is a button of any age, a check of the last rename in a
session of its own, a commit, a deletion whose errors are ignored, and a new
account. `Week` makes the last rename old. `doomed` names the accounts a rename
or an admin has set out to delete, `slipped` the users whose trial was not
checked or marked or ran beside another, `hasty` those with two renames checked
before either was made: these are the races the code does not prevent.
Properties: a listed service has its account (`RowHasAccount`), one trial per
user and reset (`TrialOnce`), one rename per week (`RenameWeekly`).

### Pool

An update passes the ban gate, which may ask the database in a session of its
own, and then runs one of three shapes of handler: `"write"` changes a row of
`users` and commits, `"ask"` stores an intent from inside its session (most
dialogs), `"buy"` is `_do_purchase`, which does so twice, the second time with
the user's row locked, and clears its intents after its commit. The notification
job has connections of its own process but the same rows. `main` and `second`
are the connections of a handler's session and of the session inside it.
Any waiting update may have the next free connection, which covers whatever
order the pool serves them in.
Properties: no connection is lost or shared (`NoConnectionLost`); a standstill
that only a timeout can end always has an update in it that waits for a second
connection with one in hand, and all connections are then held by such updates
or by waits for a row (`StallNeedsNesting`); every update ends (`UpdatesEnd`).

### TextRouting

One person, who is an admin as well as a customer, because the dialogs of one
person are all that can get into each other's way. `dialogs` holds every
question that waits for a text: keys of the intent store, which survive a
restart, and entries of dictionaries, which do not; a manual credit is in both.
`Order` and `Matches` are the routers of `main.py` with their filters up to
`msg_trial_admin_set`, which takes everything that gets to it. A text is not put
together: it is one of nine kinds that the filters and parsers tell apart.
`ok` is whether a handler accepts the value or its panel call succeeds,
`arrives` whether its reply can be sent, since an exception inside the numeric
bridge is swallowed and the next handler tried. Buttons are those that open or
close a question.
Properties: a text is heard by one question, except for the overlaps named there
(`TextCountsOnce`); a manual credit survives any number of restarts and whatever
else is open (`CreditSurvives`): its amount is heard by it if it gets to the
bridge (`AmountHeard`; that is less than three digits, or with commas - longer
ones are taken for a telegram id by the first filter of `start.py`, which is
`routing_swallow`), and no text closes it before it has a user and a unit,
whatever earlier credits have left in memory (the number that sets a limit of
top-ups does, because the menu it brings up closes the credit). `wallet.py` has
two handlers that look for an amount in arbitrary text, and no text gets to them;
`AnswerReachesDialog` has that too. Names are `RoutingSpec`, `RoutingTypeOK` and the like
because the module is proved about beside `Purchase`.

### PlanDialog, Accounts and Purchase

`PlanDialog` has the choices of a purchase, which are rows of the intent store
(`mode`, `sel`, `ext`), against the plan and service in the buttons. Every
keyboard stays, so any earlier one can be pressed: a press is allowed for every
keyboard that can ever have been shown. A write of a choice, and each deletion
of one, may fail, which the handlers swallow; of three keys to delete any first
part may be gone. A press that stores or deletes choices is one step, the reads
and writes of the confirmation are not. Buttons no handler shows any more
(`plan:uname:use`, `plan:confirm`) are left out.

A confirmation is `_do_purchase`, and `selling` has one entry for each that is
worked on, two at once if it is pressed twice. It goes through the stages of the
code:

1. `"pressed"`: the button carries the plan only;
2. `"mode"`: the session has its snapshot and has read the kind of purchase
   (`plans.py:694`);
3. `"panel"`: it has flushed the balance (`:720`), for which it waits until no
   other purchase of the person holds the row (`HasRow`), has read service or
   name (`:723`, `:739`), and provisions;
4. `"clear"`: it has committed, and still has to delete the choices
   (`:766-769`), whichever dialog they are of by then.

Buttons are pressed between any two of these. `screen` remembers the latest
keyboard as long as the dialog went without old keyboards, failures and the end
of a purchase that deleted choices, and `shown` the name on the confirmation
that was pressed on it - until a choice is changed before the purchase has read
all of them, after which `shown` is no promise any more. A confirmation takes
one of the `MaxEvents`, as does what an admin begins; the other buttons do not.

`Accounts` has what the flows of `marzban_ops.py` do to volume and expiry: the
three calls of `provision_for_plan`, `/admin_set`, creation, deletion, GET and
PUT of additions to either, and both ways to delete what has expired. A call is
done, not done, or done and answered with an error. A plan may have no volume or
no days, which is no limit and no expiry. `owed` is what accounts would have if
every flow had its turn; an account is `overtaken` when a sum is written that
was computed from something else than is there, which midnight between the GET
and the PUT can do as well to an account that has no expiry of its own.

`Purchase` joins them: a purchase starts its flow when it knows the account, and
commits when the last call has been answered. Properties:
`ConfirmedIsDelivered` - the account a confirmation names has volume and expiry
of the plan when the purchase commits, whatever earlier dialogs have left behind
and whatever is pressed meanwhile, unless the dialog was disturbed as above, a
choice was changed between the press and its reading, or another flow has
changed the account; `AdditionsKept` - adding to an account loses nothing, and
undoes nothing, unless the account is `overtaken`. The exceptions are what the code does, not what it should: if a
choice is changed in between, the plan goes to an account the confirmation did
not name, most often the one with the user's own name.

## 3. Runs

| run | bounds | states | shows |
|---|---|---|---|
| `wallet_core` | 2 users, 2 top-ups, 3 handlers, 4 updates, balance up to 3 | 109,360 | the wallet's properties, and that it implements `WalletLedger` |
| `orders_core` | 2 orders of one user, 1 plan, 2 contents, 2 handlers, 4 events | 171,231 | the orders' properties and the lifecycle |
| `ban_core` | 2 updates, 2 callbacks, 2 services, 5 events | 1,165,864 | the ban properties |
| `client_core` | 2 calls, 3 attempts | 23,385 | the client's properties, with any number of expiries |
| `notices_core` | 1 user, both jobs, 2 thresholds, 3 days before the expiry, 2 renewals, 1 lost run | 299,697 | the notices' properties |
| `services_core` | 2 users, 3 names, 2 handlers, 4 updates | 882,350 | the services' properties |
| `pool_core` | 2 connections, 3 updates, 2 users, the job | 371,228 | the pool's properties |
| `routing_core` | 3 open questions, 9 kinds of text | 20,074 | the properties of dispatch |
| `purchase_core` | 2 plans, 2 accounts, two purchases at once and an admin, 3 days, 2 events | 503,911 | the properties of dialog and accounts |

Why these bounds suffice for the question. A race of this program needs two
handlers on one row, and a third to get past the locks of both (`wallet_core`).
Two orders of *one* user are the most that two provisionings can share; orders
of different users share nothing but their plan. Four events are two handlers
and two changes under them. With `MaxBalance = 3` and amounts of 2 the second
credit already overflows. `MaxAttempts = 3` is the code's own value. Two
thresholds are enough for one to be skipped, two renewals for one to fall
before and one after a run, and three days are one more than an extension needs
to make the day a run is about to announce another one than the user has left. With two connections and three updates all
connections can be held by updates that wait for another while a third waits
for its first. Three names are one for each user and one both
want. Three open questions are two that get into each other's way and
the one that was asked last. Two plans are a choice and a leftover, and two accounts a name that was
made up and the one the person has anyway, with or without an account of an
earlier sale. Two events are a confirmation pressed twice, one after another that
has been committed, or one beside an admin, who adds to the account, sets it or
deletes it; two admins at once are left to the theorem. Three days are enough for
what was sold to expire. Symmetry is used only for safety, over interchangeable
handlers, updates, callbacks, plans and confirmations.

The bounds `MaxUpdates`, `MaxEvents`, `MaxRenewals`, `MaxLosses`, `MaxVolume`,
`MaxDay`, `MaxOpen` count what the environment may do. In `Wallet` and `Services` nothing is left
to do once the bound is used up and every handler has returned, so deadlock
checking is off in their runs and only there; whether handlers get stuck on each other
is a property of its own (`HandlersReturn`).

Three more runs each show a claim of the repository's documents or comments
violated by what the code does:

| run | property | the claim, and what happens |
|---|---|---|
| `wallet_ledger` | `LedgerAlwaysExact` | the roadmap asks for locks by user or order; a purchase or manual credit overwrites a concurrent credit |
| `routing_swallow` | `AnswerReachesDialog` | numeric messages are routed to the right flow, amounts are found in arbitrary text, handlers do not swallow what is not theirs; the first filter of `start.py` takes every longer number and every name, its fallback every text with digits, and `admin_trial.py` all that is left |
| `purchase_renewal` | `RenewalAddsVolume` | the roadmap says a renewal adds volume; it overwrites volume and expiry |

### Fairness

`Wallet`, `Orders`, `MarzbanClient`: weak fairness of the steps of handlers that
have been started. The event loop resumes every coroutine whose I/O is complete;
statements end by result or lock timeout and HTTP calls by their timeout. No
handler is assumed to be started, and no user or admin to do anything. `Orders`
adds that hours pass (`Age`) and that the worker runs its job again and again
(`periodic` in `run_scheduler` catches every exception of a job); a run may fail
only as often as the bound on events allows. `Notices`: the same for its jobs,
and strong fairness of `Answer`: about no user does the panel fail to answer
every single time; without it no notice can be promised. `Pool`: weak fairness
of every started update: its statements and HTTP calls end, and so do its waits,
by the pool's timeout (30 s by default) and `innodb_lock_wait_timeout`; the job may hold its
rows for ever. `MarzbanClient` lets
tokens expire without any fairness or bound: `CallsEnd` holds because a second
401 ends the call and attempts are counted.

## 4. Proofs

Every proof module extends one module of the model (`PurchaseProofs` those of a
person's dialogs: the three of a purchase and `TextRouting`), defines an
inductive invariant `IInv` (`RoutingIInv`) as a conjunction of named parts, proves
with one lemma per part, and in it one step per action, that every step keeps it,
and derives the theorems. TLC has checked each `IInv` on an
instance of the component. The theorems hold for every value of the constants
that satisfies the module's assumptions: any sets of users, handlers, orders,
plans and accounts, any prices, thresholds and bounds, infinite sets included.
The assumptions say of what kind the constants are, and that `None` is none of
the values it stands beside. Three components need more: `Pool`, that there is a
connection and a user; `Services`, that users differ in their default names;
`Purchase`, that the dialog and the panel speak of the same names.

| module | theorems | the invariant, and why the property alone is not inductive |
|---|---|---|
| `WalletProofs` | `TypeCorrect`, `TopUpCreditedOnce`, `LedgerKept`, `RangeKept`, `DecisionKept` (an action property), `SoldGranted`, `TransactionsAtomic` (refinement) | below |
| `OrdersProofs` | `TypeCorrect`, `WorkExclusive`, `PlansKept`, `AccountMatches`, `LifecycleRefined` (refinement) | below |
| `ServicesProofs` | `TypeCorrect`, `RowsHaveAccounts`, `OneTrial`, `OneRenameAWeek` | each property is about what is committed, and a step has to know what flows in between have done: a flow about to insert a row has made its account (`FlowsKnow`); who has been given a trial that is not marked yet (`TrialsAccounted`), or allowed a rename that is not stored yet (`RenamesAccounted`) |
| `PoolProofs` | `TypeCorrect`, `ConnectionsKept`, `StallExplained` | at which point an update has which sessions open (`SessionsOK`), that their connections and the free ones are a partition (`Partition`), and who can have a row (`RowsOK`); a standstill is then explained state by state |
| `MarzbanClientProofs` | `TypeCorrect`, `LockKept`, `UnauthorizedExplained`, `EffectsCounted` | the queue of the lock and the places of the calls say the same (`LockOK`), a token sent after a login was good then (`ResentOK`), and the attempt under way has not had its effect (`EarlierAttempts`). `LockKept` says of the lock that at most one call logs in and that no call that has ended is in the queue |
| `BanGateProofs` | `TypeCorrect`, `GateFollowsBan`, `KeyboardGone`, `AccountsFollowBan` | while nothing has crossed a ban, one callback is at work and what it read is what it changes (`AdminsOK`); caches and gates hold what is true or what this callback still has to drop (`CacheOK`, `MarkerOK`), and one that lifts a ban has seen the marker if there is one; an account differs from the ban only if it is still to be set (`AccountsOK`) |
| `NoticesProofs` | `TypeCorrect`, `ThresholdSaidOnce`, `DaySaidOnce` | what has been said bounds the committed mark and the one in the run's session, from below for thresholds and from above for days (`MarksOK`), so that what is said next is new |
| `PurchaseProofs` | `TypeCorrect`, `AdditionsAddUp`, `Delivered` (an action property); of `TextRouting`: `RoutingTypeCorrect`, `TextsCountOnce`, `CreditKept` | below |

**Wallet.** `CreditedOnce` needs to know that a handler that has marked a top-up
holds its lock alone and that the committed row is still pending; `LedgerExact`
that nobody else commits to a row somebody has locked, and that a snapshot
nobody has overtaken is still the committed balance; `BalanceInRange` that a
handler on its way to debit read enough. `SoldIsGranted` rests on the same locks
on the side of plans: of one user there is one purchase between the panel's
answer and the COMMIT, and it has one plan more than there are orders
(`PlanSales`). Extra volume holds no lock while the panel is asked, so any
number of handlers can be there at once, and the proof counts them: volumes
added and handlers that still have to add one are together no more than what was
charged (`VolumeSales`, with the library's theorems about finite sets; that
the handlers at that point are finitely many is part of the invariant).

`TransactionsAtomic` maps each step of a handler to a step of `WalletLedger` or to
none. COMMITs are the steps that count: `ApproveMaps`, `RejectMaps`, `AddMaps`,
`BuyMaps` and `ChargeMaps` show that what a COMMIT stores is the effect of one
whole transaction, `PanelMaps` does so for the panel's answers, and `StepMaps`
puts them together. They need `IInv` (the locks keep the request pending and the
uncommitted balance true; the snapshot is a reading, `SnapshotIsReading`; a sale
is covered by a plan, `SalesKept`) and one more part, `PurposeOK`: what a handler
holds in its locals is for its purpose, so that the amount it commits is the
price, the cost of a volume, a correction an admin has typed, or that of the
request itself.

**Orders.** The invariant adds to `WorkIsExclusive` that a handler past its first
statement has an order and a plan (`OrderNamed`), that what the job has marked
is pending and locked by nobody else (`MarkedPending`), that a sale in progress
is the only one with its order (`SaleIsPrivate`), `PlansExist`, and, for
`AccountMatchesLast`, what an undisturbed account carries halfway through its
only provisioning (`AccountsFollow`). `LifecycleRefined` is the safety half of
`Lifecycle`: each step of the handlers and the job maps to one step of
`OrderLifecycle` or to a stutter.

**Purchase.** Four parts. Of the dialog (`ScreenOK`): as long as a keyboard is
the latest one of an undisturbed dialog, the choices it relies on are the ones
that are stored - for a confirmation both the kind of purchase and the name. Of
each purchase (`SalesOK`): what it has read, and what it has still to read, is
what its confirmation has shown (`shown`); what there is to say differs from
stage to stage (`Means`). Of the flows (`AccountsOK`): the locals
of a flow are of use where it is, and a flow nobody has crossed finds the
account as it has left it, which is what `AdditionsKept` and the delivery need.
Of both (`BuyersOK`): a purchase has a flow while it is with the panel, and it is
about the account the purchase has read. `Delivered` follows from the last call
of the flow and these four. `AsideKeeps` is the heart of it: a press that changes
a choice takes the promise from every purchase that has still to read one, and
all others have read what they need. The lemmas `Moves`, `Writes`, `Calls` and `Ends` say once
what a flow that goes on, writes, calls the panel or ends does to everybody else,
and every action is an instance of one of them.

**TextRouting.** Which handler has a text is the first match in a sequence, so the
proofs begin with `FirstPosition` and `Dispatch`: numbers, names and words never
get past the first filter of `start.py`, and only what is left of the texts with
a digit gets to the bridge. `BridgeHears` says of the bridge, which runs up to four
handlers in a row, who can hear a text and when. With these,
`TextCountsOnce` and the first half of `CreditSurvives` hold in
every state whatever, reachable or not, which is more than the invariants say:
beyond the overlaps named, no combination of open questions makes a text count
twice. The second half of `CreditSurvives` is not of this kind. It needs
`CopiesAgree`, the inductive part of `RoutingIInv`: of the two copies of a manual credit, the one in
memory may be missing, and may outlive the one in the store, but never says
something else - otherwise a number would reach `ManualAmount` while the store
still waits for a user, and close the credit (`*Sound` are the lemmas that each
handler keeps it, `RoutingNextIInv` that every question, button and restart does).
Neither the bound on open questions nor the set `Late` matters to any of them.

The proofs changed the models in two places. `OncePerDay` held on the instance
TLC had checked (one day of warning) and could not be proved: with more than
one, an extension between the panel's answer and the message lets the message
name a day that comes again. The notice then belongs to the term that has ended;
`Say` tells it apart (`Outdated`), and the run has three days of warning now.
And `PlanDialog` had not assumed that `None` differs from a stored choice.

Only model-checked is liveness: `HandlersReturn`, the fair half of `Lifecycle`,
`CallsEnd`, `UsageAnnounced` and `UpdatesEnd`. It is out of the prover's reach
together with ENABLED. The three properties of the runs in which a claim of the
documents fails are of course not theorems.

## 5. What is not modelled

* **Parts of dialogs**: the 15 minutes a top-up request lives, the values of
  limits and prices, the pages of lists, what handlers behind `admin_trial.py`
  would do with texts that never get to them (the wizard of coupons among them),
  and a name of one's own on its way into a purchase.
* **Resetting and revoking accounts** in `Accounts` (neither changes volume or
  expiry; a reset is in `Notices`), switching plans and trials on and off.
* **Coupons and the discount engine**: no purchase uses them yet.
* **Channel gate, rate limit, correlation, capabilities, audit, phone check**:
  they decide whether a handler runs, not what it does.
* **Rendering, QR codes, logging, configuration, migrations**: no behaviour
  properties could be about. Unique indexes and foreign keys of the schema are
  part of the modules that rely on them.

Amounts, volumes and times are small numbers; messages to users exist only
where a property is about them. A restart of the bot is the abort of all its
handlers.

What the models reproduce because the code does it, without a property that
forbids it:

* extra volume is charged before the panel is asked and not given back
  (`account.py:634`);
* an order is provisioned with its plan as it is at approval, not as it was
  bought (`admin_orders.py:223`);
* the older ban switch sets neither the ban nor all services, and sends the same
  message (`admin_users.py:271`);
* thresholds passed again after a reset are never announced
  (`scheduler.py:58`), and the last day is announced by every run
  (`scheduler.py:97`);
* a rename deletes the old account and creates one without limits
  (`marzban_ops.py:158`);
* a confirmation pressed twice is two purchases, and the second takes the user's
  own name if the first has cleared the choices by then (`plans.py:738`); so
  does one that a cancel, or a new dialog, overtakes between its two readings
  (`:694` and `:739`);
* an unban leaves the marker of a removed keyboard if a gate stores it after the
  unban's snapshot (`admin_users.py:329`), and the next ban then keeps it;
* a new name is compared with `users.marzban_username` only (`plans.py:413`,
  `account.py:952`), so it may be a second service of somebody else, whose account
  is changed before the unique index refuses the row;
* adding volume to an unlimited account limits it (`marzban_ops.py:149`), adding
  days to one that has expired may leave it expired (`:195`), and one renewed
  after the list of expired accounts was read is deleted (`:239`);
* asking for an amount to credit a user does not close the question for a
  service's volume, which then gets the number (`admin_users.py:401`); one short
  number can set both limits of a top-up and its amount (`start.py:333`).

## 6. Plan

1. A name of one's own in `PlanDialog`, and the catalogue's on/off switch in
   `Orders`, with the proofs they touch.
2. A larger instance of the fair half of `Lifecycle` (two users), which stays with
   TLC.
