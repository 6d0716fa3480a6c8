# DineFlow in TLA+

DineFlow is a restaurant backend of seven services (order, kitchen, menu, cart,
auth, notification, AI), each a Django or FastAPI application with its own
PostgreSQL schema per tenant. They talk over Kafka and, to create a restaurant,
over HTTP; Redis holds idempotency keys, carts and caches; nginx is the gateway.
This directory models the parts in which concurrency, failure and ordering decide
whether the system works, checks them with TLC and proves the central facts with
TLAPS. `PROJECT.json` relates every definition to the lines it is translated from.

Contents: 1 inventory, 2 deployment facts, 3 modules, 4 runs, 5 where the
properties stop, 6 fairness, 7 proofs, 8 what is not modelled, 9 plan.

## 1. Inventory

Paths are relative to `src/`.

### Order service (`orderService/orders`)

- **State.** `orders_order` (status, user, session, payment status),
  `orders_tablesession` (ACTIVE or CLOSED, one ACTIVE per table by a partial unique
  index), Redis `idempotency:<user>:<key>`, snapshots of dishes, tables and the
  restaurant fed by Kafka.
- **Operations.** Creation by a customer or a waiter (`OrderCreateView.post`);
  `Order.update_status` and its callers: cancel, administrator, waiter's accept,
  kitchen consumer; payment update; `CloseTableSessionView`; the hourly Celery task
  `close_idle_sessions`; the bill of a table
  (`WaiterTableCheckoutDetailView`, `AdminTableCheckoutDetailView`), which asks three times. Events go out in `transaction.on_commit` callbacks.
- **Hard.** Several gunicorn workers, consumers and a Celery worker run these on
  the same rows; some callers lock the row, others save a stale copy of all its
  columns; whether a session is done is decided by one statement and acted on by
  another; the key is stored before the commit; on_commit outside a transaction runs
  at once; a callback dies with its process.
- **Correct when.** A table has one ACTIVE session and one session one user; an
  order joins only an ACTIVE session; statuses follow the table of moves; sessions
  close when their last order is done, and not before; nothing is announced that
  was not committed; a key names an order that exists; requests do not block each other.

### Kitchen service (`kitchenService/tickets`)

- **State.** `tickets_kitchenticket` (order, status), no unique index on the order;
  a dead letter queue.
- **Operations.** Consumer of `orders.placed` and `orders.cancelled`; staff views
  accept, start, ready, cancel; each publishes a `kitchen.ticket.*` event that the
  order service's kitchen consumer turns into `update_status`. Two management
  commands replay the dead letters of either side.
- **Hard.** Topics overtake each other; a failed message is produced again at the
  end of its topic; look-then-insert; read-then-save; replays while the consumer runs.
- **Correct when.** One ticket per order; an order is never ahead of its ticket; a
  ready ticket reaches its order; no ticket of a cancelled order is left to cook;
  the two services stop answering each other.

### Tables and sessions (`authService/restaurant`, `authService/kafka`, AI service)

- **State.** The table's row (enabled, occupied, by whom, version), the order
  service's snapshot, the AI service's copy.
- **Operations.** Session events (`table.session.started`, `.closed`), an
  administrator's edit and the `restaurant.table.upsert` that follows it.
- **Hard.** Two topics; the start and the end of a session in either order; a
  full-row save over what session events wrote; lost callbacks.
- **Correct when.** Occupied exactly while a session is ACTIVE, by its guest.

### Menu (`menuService/dishes`, `categories`, `dish_reviews`)

- **State.** Dishes with a version each, reviews with an average on the dish,
  cached lists in Redis under a version key. Snapshots in order, cart and AI service.
- **Operations.** Create, update, delete, review; `menu.item.*` events after commit.
- **Hard.** The version is read, incremented and written without a lock; three
  topics; three consumers with three version guards, each read in one statement and acted on in
  another; a category that takes its dishes with it and announces nothing; a list that is stored under a
  version key after the key has moved on; averages computed in each reviewer's own
  transaction, and overwritten by an administrator's save.
- **Correct when.** A snapshot ends at the last save, and a deleted dish is not on
  offer; who asks after an edit sees it; a rating is that of
  the reviews.

### Cart (`cartService/cart`)

- **State.** A JSON value per user in Redis, for a day; a snapshot of the dishes.
- **Operations.** Get, add, update, remove, clear, once for the page and once for the
  AI agent, whose views check less.
- **Hard.** The value is read, changed and written back whole: two requests of one
  user lose one change; a dish may leave the menu between the check and the read.
- **Correct when.** Each request changes the cart as it is at that moment.

### Auth: restaurants and tenants (`authService/restaurant`)

- **State.** Restaurant and its administrator; a schema per tenant in five services.
- **Operations.** Creation in one transaction that calls `provision` of every
  service by HTTP, and on an error the deletion of what was made;
  `restaurant.created`, taken by the order service into the tenant's schema.
- **Hard.** Timeouts with the callee still at work, failing migrations, failing
  undo, a killed worker, an event that is ahead of its schema.
- **Correct when.** Committed means provisioned everywhere; failed means undone;
  once the event is consumed the order service knows the restaurant.

### Auth: accounts, tokens, tables as they are shown

- **State.** Users (active, password, role), one-time codes in Redis, refresh tokens
  in a cookie and a blacklist, addresses, reservations.
- **Operations.** Registration with Firebase, entry of staff, profiles, blocking,
  deletion, passwords with codes that last ten minutes, addresses; login, refresh, logout; the lists of
  tables for waiters, and the scan of a table's code by a guest.
- **Hard.** Nearly every request saves the whole row it read without a lock; a code
  is compared, used and deleted in separate calls; a refresh checks the blacklist before
  it writes to it; the same question about a table is asked in three places.
- **Correct when.** A block, a password or a deletion holds until somebody changes
  it; a code serves once; one address is the default; a login ends when it is ended; waiters and guests are told
  the same.

### Notification service

- **State.** Notification rows, registered devices (at most one active per user, one
  user per device); Celery tasks; WebSocket groups, which keep nothing.
- **Operations.** Consumers that write a row, queue pushes and send to groups, with
  retries, a dead letter queue and its replay; registration and removal of devices;
  pushes that turn off the devices Firebase refuses; broadcasts; welcome e-mails.
- **Hard.** A failure between two effects makes a retry repeat the first; a device
  that registers while a push to it is refused.
- **Correct when.** A committed event has its effects; duplicates only after a failure
  behind the effect; a user is notified on the device registered last.

### AI service

- **State.** Dishes, tables, profiles and order history in PostgreSQL with embeddings;
  profiles in an `lru_cache`, conversations in Redis, caches of four other services'
  answers, a guest's location in the process.
- **Operations.** Ingestion from seventeen topics with retries, dead letters and a replay;
  a conversation's turn; the agent's tools, which call cart and order service;
  recommendations.
- **Hard.** Events are handled again, late and in any order; two messages of one guest
  overlap; a call that timed out may still be carried out; caches are dropped before
  the change they are dropped for.
- **Correct when.** What is stored is the newest announced; what is told is what is
  stored; what is in a cart is ordered once; recommendations follow the guest.

### Kafka loops and dead letters

Every consumer is one of two loops: *skip* (log the error, go on, no commit) and
*requeue* (produce again with `retry_count + 1`, then commit; after MAX_RETRIES to
the dead letter queue). Correct when no message is given up that did not have its
effect.

### Interactions

    customer, waiter --> order --orders.placed/cancelled--> kitchen
                         order <--kitchen.ticket.*--------- kitchen
    order --table.session.*--> auth, AI        (both kinds also to notification)
    auth --restaurant.table.upsert, restaurant.created/updated--> order, AI
    menu --menu.item.*--> order, cart, AI
    AI ==HTTP==> cart, order, menu     (for a guest, by the agent or to recommend)
    auth --user.*--> notification, AI
    auth ==HTTP provision/delete==> order, menu, kitchen, cart, notification

## 2. Deployment facts the models use

From `k8s/`, the Dockerfiles and `create-topics.sh`: a service has several gunicorn
workers (three) with the default timeout of 30 s (a worker that takes longer is killed), and
one replica or more (`k8s/production/hpa.yaml`: auth, kitchen, notification and ai-service
up to three, cart and menu four, order five). A consumer is one process or, under load, two or three
(kitchen-order and cart-menu two; order-kitchen, order-menu and order-table three).
Every topic has one partition, so a topic is read by one process of a
group at a time, but different topics may be read by different ones, and a replay
command is a group of its own. Where two topics change one row, the models
either take them apart (MenuSnapshots looks and writes in two steps per topic), or each
event can be taken to happen at one statement: in Tables and AssistantMemory it is the
update under a row lock, or the read that finds nothing to do or the write that sets
what the event says whatever was read. OrderKitchen
takes the kitchen's consumer as one process. All modules take it that a topic is not read
by two processes at once, which may happen while a group is being rebalanced. PostgreSQL
runs at READ COMMITTED and `ATOMIC_REQUESTS` is off, so a statement outside
`transaction.atomic` commits on its own.

## 3. Modules

| module | models | state and code |
|---|---|---|
| OrderLifecycle | statuses and moves | the table `allowed` in `Order.update_status`, `KitchenStatus` the consumer's `TOPIC_TO_STATUS` |
| OrderService | order service | `order`, `session`: committed rows; `idem`: Redis; `sent`: published events; `pc[p]`: between which statements of its handler a process stands; `ctx[p]`: its locals, perhaps stale |
| OrderKitchen | orders and tickets over Kafka | `log[t]`: what the consumer of a topic has not committed; `dlq`, `pos`: dead letters and how far a replay is; `at[h]`: what a kitchen handler has read |
| Tables | a table in three services | `row`, `admin` (an edit under way), `topics`, `upserts`, `snapshot`, `ai`; `doubt`: who may have it wrong |
| MenuSnapshots | dishes and their replicas | `dish`, `writer`, `log` with the dead letters, `held`: topics whose handler has looked, `snap` |
| AtLeastOnce | what a consumer promises | abstract specification: `settled`, `gone` |
| ConsumerLoop | the two loops | `log`, `offset`, `next`, `buffer`; implements AtLeastOnce |
| TenantProvisioning | creation of a restaurant | `stage`, `count`, `job[i]`, `answer[i]`, `schema[i]`, `event`, `replica` |
| CartContract | what a cart is to its guest | abstract specification: `cart`; `torn` guests, for whom it promises nothing |
| Cart | the cart service | `cart`: Redis; `offer`: the dish snapshots; `request[p]`: what a request has read and will write; implements CartContract |
| DishLists | cached lists of dishes | `menu`: rows; `version`, `lists`: Redis; `desk`, `reader`: between which calls a request stands |
| DishReviews | reviews and ratings | `dish`, `reviews`: rows; `editing`, `post`: what an administrator or a review's transaction has read |
| Notifications | the effects of an event | `inbox`, `dead`: topic and dead letters; `at`, `given`: how far the replay has read past its offset, and what it gave up; `worker`: consumer and replay; `made`: how often each effect was had |
| Devices | devices and pushes | `device`: rows; `reg`, `push`: transactions and tasks under way |
| Accounts | users and codes | `account`, `code`: rows and Redis; `deskwork`: what requests have read; `meant`: the rows if each request had set its own columns only |
| Addresses | a guest's addresses | `addresses`, `marked`: rows and which is the default; `saver`: between unmarking the others and inserting |
| Tokens | refresh tokens | `standing`: users; `chain`: the tokens of a login and those void; `call`: requests that have verified one |
| TableViews | a table with reservations, as it is shown | the rows, whether the restaurant is open, and a clock; the questions are operators |
| Checkout | payments and bills | `orders`: rows; `opened`: what a request has read; `bill`: what the three queries found |
| Assistant | the agent that orders a cart | `basket`, `touching`: the cart, and what requests have read of it and will write; `placing`, `pending`: calls, and requests that outlive them; `home`, `located`: the processes of the calls, and which know where the guest is |
| AssistantMemory | what the AI service stores | `heard`, `noted`, `buried`: events read, committed, dead; `rows` |
| AssistantTalk | what it tells | `profile`: stored; `by`: the process of a message; `remembered`, `session`, `turn`: caches of each process, conversation, message |
| Signals | what it recommends from | `current`, `cached`: the source's last change and Redis; `lookup`, `teller`: requests under way |
| MCOrderService, MCOrderKitchen, MCMenuSnapshots, MCConsumerLoop, MCTenantProvisioning | instances for TLC | symmetry, named sets of handlers |
| MCStorefront, MCAuthService | ten and six modules side by side | `part`: which of them this behaviour is of; see section 4 |
| *_proofs | theorems | section 7 |

`ConsumerLoop` abstracts what processing does, so the other modules take a topic as
a queue whose head is consumed, or consumed and kept (a death before the commit).
`OrderService` models how requests interleave on rows and takes kitchen events from
anywhere; `OrderKitchen` models how the two services interleave over Kafka and takes
a request as one step. Both use OrderLifecycle. What `OrderService` lets a kitchen
event be includes all that `OrderKitchen` can send, so a safety property of the first
does not depend on the second.

**Locks.** `OrderService` has no lock variables. A row is locked when a process
stands at a step that holds its lock (`OrderLocked`, `SessionLocked`,
`TableReserved`), so a lock can neither be leaked nor forgotten at a rollback. A plain
`SELECT` waits for nobody; an `UPDATE` waits for the row. What a transaction wrote is
in `ctx` until it commits.

**Steps.** An action ends where other processes may come in between: at a statement
that reads or waits for shared rows, at an early Redis write, at the commit, at each
callback. Deciding to close a session (`SaveOrder`) and writing its row
(`CloseSession`) are separate, as in `models.py:476-495`.

`Checkout` looks at the orders of one table once more, for the columns OrderService
leaves out: a move of an order is a read and a save of the whole row there, and what
the move may be is OrderService's business.

**Data.** A dish is a content, an event a number, a portion of food an element: what
the properties tell apart, and no more. In `AssistantMemory` and `Signals` a stored
thing is the number of the event or change it shows. One of four `source`s is picked
in `Signals`, one of two `about`s in `AssistantMemory`, because the code differs.

**History variables.** They never enable or disable a step. They record that something
has happened for which the code has no answer, so that a property can say exactly when
it holds: `doubt` and `crowded` (Tables), `mishaps` (MenuSnapshots, DishLists), `exposed` (ConsumerLoop, Accounts,
Checkout), `outdated` and from it `torn` (Cart), `overlapped` (DishReviews), `broken`
and `given` (Notifications), `mingled` (Devices), `astray` (Assistant), `muddled` (AssistantMemory),
`doubtful` (Signals), `overwritten` (Accounts), `unsettled` (Addresses), `crossed` (Tokens), `stranded` (Checkout).
Where the code recovers, so do they: the next review, registration, store or payment that
meets nobody takes its dish, user, row or order out again. Section 5 says what
happens otherwise.

**Mutated forms.** A definition commented "Mutated form" is the code with a plausible
mistake: a lost lock, a dropped guard, a wrong order. `PROJECT.json` names, for each
property of each passing run, one that violates it. No specification uses them.

## 4. Runs

Nine runs pass. All turn deadlock checking off because ids, edits and messages come
from finite pools: when those are used up the model stops, the system would not.

| run | size | shows |
|---|---|---|
| OrderRace | 1.5 M states | Two processes race over one table with customers, cancels, administrators' completions, kitchen events, a session closer and deaths. One ACTIVE session per table, one user per session, orders join ACTIVE sessions, the kitchen moves an order legally from the committed row, an announced cancellation stays. |
| OrderSerial | 1 process | All handlers but deaths, forced closings and the expiry of keys, every target status. Sessions close with their last order and never under an order in progress (SessionsFollowOrders), and moves are legal. Both fail with two processes (section 5); here they show the logic itself is right. |
| OrderLive | 2 processes, fair | Every request ends (no deadlock between session, order and index locks), each closed session is announced, a key names an order that exists. |
| KitchenFaults | 3 staff requests, 2 waiters | Two waiters accept one order at once, consumers and views die, the database fails: one ticket, and the order not ahead of it. |
| KitchenLive | 280 000 states, fair, both replays, letters of another order | Traffic ends, a READY ticket arrives even through a dead letter queue if no other order's refused letter lies ahead of it there, and when all is quiet no ticket of a cancelled order waits. |
| Menu | 1.1 M states, 2 writers, 3 edits, 2 replicas, a replay | Snapshots are the last save in the end, with a deleted dish not on offer, although handlers look first and write later. |
| Loop | 3 messages, 1 retry, 1 death, both styles | ConsumerLoop implements AtLeastOnce; every message is settled or exposed. |
| Storefront | 590 000 states, 10 modules | A cart implements CartContract; lists are current once edits are through; ratings are those of the reviews; each event is notified once and once more per failure behind the effect, unless the replay gives it up; users are pushed to on their last device; a cart is ordered once; the AI service's answers follow what was announced, stored and changed; payments stay recorded; bills list the session's orders. |
| AuthService | 670 000 states, 6 modules | Occupancy and snapshot of a table follow its sessions and edits; accounts keep what was set and guests their default address (ProfilesKept), codes serve once, logins end; waiters and guests are told the same of a table; a committed restaurant is provisioned in five services and a failed one undone. |

**Modules side by side.** The parts of Storefront and AuthService share no variable, so
their product would add nothing but states. `MCStorefront` and `MCAuthService` conjoin
them with a variable `part` that stays: a behaviour moves one module and leaves the
others at their initial states, so that states add up. Each property
speaks of one module's variables and holds of it as it would in a run of its own. AnswersFollow is the
conjunction of MemoryFollows, TalkFollows and SignalsFollow of the three modules
about what the AI service knows, ProfilesKept that of AccountsKept and DefaultFollows. Sets that never meet have the same values in the
`.cfg`, which makes fewer permutations of the symmetry.

Three runs end in a violation, each a disagreement between the code and its own words:

- **OrderStale**: `MovesLegal` fails. `WaiterOrderAcceptView` reads an order, a customer
  cancels it, and the accept writes the whole row back: CANCELLED becomes ACCEPTED,
  although `update_status` refuses such a move.
- **LoopSkips**: `ComesAgain` fails. A loop of style skip does not commit a failed
  message "so Kafka will deliver it again" (`restaurant_consumer.py:182`), but its
  position is already past it and the next commit gives it up.
- **TenantUnknown**: `KnownToOrders` fails. `restaurant.created` is published before the
  order service has the tenant's schema; the event fails, is skipped as above, and the
  order service takes no orders for a restaurant that exists.

### Why the bounds are enough

- *Two processes* in OrderService: every race listed is between two requests; a
  third could only repeat one of them under a lock both already contend for. The
  session and table properties are also proved for any number.
- *Two orders, two sessions*: a session with two orders, and a second session after
  the first was closed, are the smallest states in which closing can go wrong.
- *One order, two ticket rows* in OrderKitchen: orders share the topics and the dead
  letter queues. In a topic another order's message is in the way until it is read, which
  is a delay; in the order service's dead letters one that is refused is in the way for
  good, and `OthersRefused` puts it there. A letter that will be taken delays only,
  and one refused letter blocks as much as many. The kitchen's replay can give a letter up
  when it commits another order's: with one order that is not in the run (section 5).
  A second ticket of the order is all OneTicketPerOrder must exclude. Three
  requests of the staff are the ACCEPTED, PREPARING, READY a ticket needs; one
  retry (the code has more) reaches both "again" and "dead letter".
- *One death*: with it a message is delivered twice, the least that separates
  at-least-once from exactly-once. Each death makes one more copy of the same kind.
- *Menu*: two requests make the lost version, a third makes a later one (`Explored`: a
  death or a refused event takes the place of one); the order
  service and the AI service are the two kinds of version guard, the cart's is the
  order service's.
- *Loop*: three messages put a failed one before and behind one that succeeds.
- *Cart*: two requests of one guest (guests share nothing) on two dishes; quantities
  0 and 1 add, remove and reach the bound; one offer is a discount, one is not. Any
  number of guests, dishes and requests is proved.
- *DishLists*, *DishReviews*, *Devices*, *Assistant*: two requests at a time, since each
  property is about one that meets another; two edits, so that one is stale; two users
  and three devices, so that a device changes hands and a user changes devices.
- *Notifications*: two events, one behind the other; one retry; five breaks: two letters
  take four, and the fifth is the replay's failure that lets the second commit give the
  first up.
- *Assistant*: two requests that write the cart and two calls in one process, which may die;
  what a second process adds is a place that calls do not share, and is proved.
- *AssistantMemory*, *Signals*: three events or changes: an old one, one that overtakes
  it, and one that makes it right again. *AssistantTalk*: two processes, two messages, two
  writes: one process may have been told of the first and the other of none.
- *Checkout*: two orders and one request that holds a stale row; a bill of a session
  of two, or of one of each session. Any number is proved.
- *Accounts*: one login, because no request writes another's row; two requests, two
  rows under one name (a deleted guest registers again), two codes. With
  *overwritten* accounts, of which AccountsKept says nothing, a second code is cut off.
- *Addresses*: three, so that a third can set right what two at once have spoiled.
- *Tokens*: two users log in by turns in one chain of three tokens.
- *TableViews*: every pair of reservations on a clock of three ticks: before, during and
  after; the restaurant opens and closes at any of them.
- *Tables*: two sessions of two guests give every overtaking of started and closed
  events. `Explored` cuts what only multiplies: with a second session there is an edit,
  a death or a double closing, not two of them, and with an edit one service in doubt and
  one event on its way; two edits come without sessions and deaths. The proof has no
  such bounds.
- *Tenant*: five is the number of the deployment.

## 5. Where the properties stop

What the code does *not* do, found while modelling. Passing properties are
conditioned on its absence; the actions that cause it are in the models.

**Orders**

- Two concurrent cancellations each see the other's order as active and leave the
  session open; a creation between deciding to close and closing ends up in a
  CLOSED session (`models.py:481-495`). So OrderSerial has one process.
- Two requests with one idempotency key make two orders (`views.py:135`, `:239`); no
  property claims otherwise. After a rollback the key names no order; so KeysAreBacked
  runs without "crash".
- A stale full-row save revives a cancelled order (OrderStale), undoes the kitchen's
  progress, or loses a payment (`exposed` in Checkout); so OrderRace has no "accept",
  its administrators only complete, and OneUserPerSession is proved under
  `TerminalWrites`.
- An order left in a closed session, or revived in one, is on the bill of whoever sits
  at the table next, since the bill asks for the table and the status only (`stranded`).

**Kitchen and Kafka**

- A consumer and a replay at once make two tickets (`handlers.py:10`); so
  KitchenFaults has no replay.
- A replay that skips a letter it cannot process and commits a later one loses the
  first ("message retained", `replay_kitchen_order_dlq.py:66-79`). It takes two orders'
  letters, so the runs do not contain it.
- A staff view saves over a ticket the consumer cancelled meanwhile
  (`kitchenService/tickets/models.py:79`); CancelledNotQueued speaks of tickets nobody
  has touched, RECEIVED.
- The replay of the order service ends at the first letter that is refused, and begins
  there again (`replay_order_kitchen_dlq.py:50`). All orders share the queue: a refused
  letter of another order keeps a READY behind it waiting for ever, which ReadyArrives
  excepts (`Stuck`; without it TLC finds the violation). With the accept view or a failing
  database the order's own letters may do so, and ReadyArrives is checked without those.
- A copy produced again is in a buffer when the original is committed, and a dead
  letter that cannot be sent is dropped and committed: `exposed` in ConsumerLoop.

**Tables, menu, tenants**

- A closed event read before its started leaves the table occupied by a guest who
  has gone (`table_session_consumer.py:121`), an edit that overlaps a session event
  writes the old occupancy back (`restaurant/views.py:293`), and a callback lost with
  its process is never repeated. Each puts the services it touches in `doubt`, until
  they hear of the closing of the last session with nothing older still to come:
  OccupancyFollows says that this puts the table right. Events of several sessions
  on their way at once put nobody in doubt by themselves.
- A table is published after it was saved, and the producer only logs a failure
  (`restaurant/views.py:292-294`, `table_producer.py:8-17`): the order service then keeps the
  old state until the next edit that is announced (`doubt`). Two edits that overlap may
  get one version, and the order service then drops the second (`crowded`).
- Two saves of a dish get one version and snapshots drop the second
  (`dishes/models.py:88`): "overlap". A replica whose handler found an event newer and wrote
  it when it no longer was, with another topic's process or a replay in between
  (`menu_consumer.py:102-150`), goes back to an older version, and one that reads a deletion
  before the creation leaves a dish on offer: SnapshotsAgree excepts that replica for
  that dish. The AI service drops every deletion, whose version is not newer.
- Dishes that go with their category (`categories/views.py:40`, `dishes/models.py:21`)
  announce nothing: order, cart and AI service go on offering them (DropCategory;
  SnapshotsAgree promises nothing of a dish that is "swept"). They leave the cached lists as they
  are, as does a save whose event cannot be produced: "unbumped". A version key that was
  evicted starts again at 1, and two requests that miss it set it back: "evicted", "reset".
- Reviews that commit at once each leave the other out of the average, and an
  administrator's save writes the old average back: `overlapped`.
- A service that failed while migrating keeps its schema, although the answer says
  "Changes rolled back." (`restaurant/views.py:125`, `:138`); FailureIsUndone excepts it.

**Guests and staff**

- Two requests on one cart lose one change: `torn`.
- Profile, employee and password views save rows they read before: a block or a new
  password is undone (`overwritten`). The code of a password is deleted after the save, by
  e-mail address, so two confirmations at once both succeed (`exposed` in Accounts).
  `auth_version` is raised "to invalidate all existing tokens" (`views.py:789`) and read by
  nothing.
- Two additions at once leave two default addresses, one that fails halfway none.
- A refresh and a logout of one login at once leave a token that works: `crossed`.
- `exclude` with two conditions on reservations (`restaurant/views.py:422`) is met by two
  different ones, so the waiters' list hides a table that can be booked; SeatsAgree says
  exactly when. The lists do not ask whether the restaurant is open, and the scan does
  (`accounts/serializers.py:93`): of a closed one they offer tables that nobody may scan.

**Notifications**

- A failure behind an effect repeats the effect with the retry: `broken` counts both.
- Two registrations of one user at once leave two devices on, or none: `mingled`.
- The replay goes on after a letter it cannot process, without a commit and with the words
  "DO NOT commit → message stays in DLQ" (`replay_notification_dlq.py:81`); the next letter it
  commits gives it up (`given`). NotifiedOnce says that such an event was had only as far
  as its last attempt went.
- The replay imports a module that the image does not have
  (`replay_notification_dlq.py:9`); it is modelled as it is written.

**AI service**

- `place_order` makes up an idempotency key per call and gives up after ten seconds,
  when the order may still be made; the guest asks again and has two. Calls that overlap
  order the same cart. A request that read the cart before and writes all of it after brings
  back what was ordered meanwhile (`cart/services.py:28-36`): `astray`.
- The consumer goes on after an error that may pass, and the next asynchronous commit gives
  the event up; no handler asks how old an event is; an order announced again has
  several rows: `muddled`.
- "Real-time context injection" (`agent.py:20`) reads metadata that an `lru_cache`
  keeps for the life of each process, a missing one included. There are up to three, so a
  guest may be told of a newer restaurant and then of an older one. TalkFollows says how
  old an answer may be: as old as the oldest process that runs when the conversation begins.
- The agent drops the cached cart before it changes the cart, so that a lookup in between
  brings the old one back for 45 seconds; orders and menus are not dropped at all; views are
  queried without `ConsistentRead` (`dynamo.py:58`): `doubtful`. Two views in one second have
  one key there, and the later replaces the other, before any cache is asked.

## 6. Fairness

- *OrderService*: strong fairness of `Continue(p)` for each process. A worker goes on
  with its request, and PostgreSQL grants a lock in the order it was asked for, so a
  step that is enabled again and again is taken. New requests are never forced.
- *OrderKitchen*: weak fairness of both consumers (they loop), of the saves of a view
  that has started, and of the order service's replay, which an operator has to run
  again and again: ReadyArrives depends on it and says so. Nothing forces the staff.
- *ConsumerLoop*: weak fairness of the loop and of the client's sending thread.

The other modules have no liveness. Their properties speak of quiet states, or of
states in which nobody stands in between, and the waiting of their requests is that
of OrderService and ConsumerLoop.

## 7. Proofs

TLAPS checks eight modules. Constants are arbitrary: the theorems hold for any
number of processes, users, orders, tickets, tables, dishes, requests, retries and deaths,
under the named assumptions on constants in the modules (kinds of handlers and
faults, that "no value" is none, bounds are naturals, the orders of a table are finitely
many). A theorem whose hypothesis is more than the specification is marked, and the
hypotheses are below the table.

| module | theorem | argument |
|---|---|---|
| OrderService_proofs | TypeCorrect | `TypeInv`: types, and that what a process holds fits its `pc` (it has an order, the row it will write is a row, ids drawn are exclusive). Every later proof of the order service rests on it. |
| OrderSessions_proofs | SessionsUnique, JoinsActive | `TableInv`: who holds a new session of a table is the only one and no ACTIVE one is committed; who holds an old one finds it ACTIVE to the end, because closers wait for its lock. OneActiveSessionPerTable alone is not inductive: it does not exclude an insert about to commit. |
| | SessionsFollow (1), OneByOne | `FollowInv`: a session is ACTIVE exactly while one of its orders is in progress, and what an update has decided about its session is still true when it commits. |
| OrderMoves_proofs | KitchenIsLegal | `LockInv`: nobody else is past the row's lock, so the status the kitchen consumer is about to write is allowed from the committed one, whatever stale views do meanwhile. |
| | SessionsHaveOneUser (2), CancellationsHold (2) | `UserInv`: who holds a session for an order finds no other user's active order in it, and nothing that was read without a lock is written back active. `CancelInv`: an announced cancellation, and one about to be announced, is committed. |
| | MovesAreLegal (3), KeysLeadToOrders (4) | `MoveInv`: what a request is about to write is allowed from the committed status.  `BackedInv`: the order a key names exists or is in the hands of a transaction that will commit. |
| OrderKitchen_proofs | KitchenTypes | `KitchenInv`: types, sorted letters, and that the message a handler works on is still where it found it, although others append and produce again. |
| | OneTicket (5) | `SoleInv`: the consumer has seen every ticket its order has. |
| | KitchenLeads (6) | `LeadInv`: wherever a status is told of (a row, a message, a letter, a save under way), the ticket has or had it. It is about every place a status can be in, which the property does not mention. |
| | CancellationsArrive (7) | `CancelInv`: a cancelled order has its cancellation on the way to the kitchen, or a ticket that somebody has touched; with `SoleInv` that ticket is its only one. |
| MenuSnapshots_proofs | MenuTypes, SnapshotsDoAgree | `AgreeInv`, for dishes whose requests did not overlap: no replica is ahead of the menu (`Bounded`), whatever it shows or has yet to read that is out of date is overtaken by something that is not (`Latest`, by `Best`), and one that does not show a deletion has it on the way (`Withdrawn`). What a handler has found newer is so still when it writes, or its replica is excepted. It is inductive although topics are read in any order and twice. |
| ConsumerLoop_proofs | LoopsDeliver | Refinement of AtLeastOnce. `LoopInv`: what lies between the offset and the loop is settled or exposed, what the loop is about to commit is settled or comes again (further on, or in the buffer), and what is gone is settled; with it each step maps to a step or a stutter. |
| Storefront_proofs | CartsAreAtomic | Refinement of CartContract. `CartInv`: what a request will write is the change it was asked for, of the cart as it is *now* (`Follows`), or the request is outdated. CartContract sees only the moment of the write, so the invariant has to carry the change across every other request's step: a write, or a cart that vanishes, puts its readers among the outdated. |
| | CheckoutTypes, PaymentsAreKept, BillsAreRight | `TypeInv` counts: a session has its own first order, so its number is a number of orders (FiniteSetTheorems). `PayInv`: a row that a request holds carries the recorded payment or its order is exposed; PaymentsKept alone says nothing of rows in hand. `BillInv`: an order at the table is of the active session or of one left with orders, which is why a query by status alone lists the session's orders. |
| | ListsTypes, ListsAreCurrent | `ListsBound`: the version and the bumps still to come never pass the edits made. `CurrentInv`: what is kept under the current version, or was queried for it by a reader that has yet to store it, is the menu, or an edit has yet to raise the version; nothing is kept under a version to come. |
| | RatingsFollow | `ReviewsInv`: two requests on one dish have met (`Met`); who has met nobody holds the rating as it is, or will leave the one of the reviews it sees. |
| | DevicesAreRight | `DevicesInv`: a registration that has met nobody is about to turn off all of the user's other devices, and nobody else holds their rows. |
| | EventsNotifyOnce | `NotifyInv`: an effect was had as often as handling broke behind it, and once more by the worker that is past it or by the one that completed the event, which waits in one place or was given up (`OnePlace`). |
| | WaiterOrdersOnce | `AssistantInv`: a portion that is not astray is claimed by one call at most, and every call that has looked while it was in the cart has seen it (`PortionInv`); with `HandsInv`, that requests have read nothing that was not put in the cart and each puts another portion there, a whole cart that is written changes only portions of the request's own, or sends them astray. |
| | CartTypes | With `CartInv`: only what a request will write can be stored, and its quantities are integers. |
| | MemoriesFollow | `MemoryInv`: unless muddled, all rows show the newest event handled and nothing newer was read, so an event that comes again is not older than the rows; the handler's cases are one lemma (`HandlerKept`) for reading and replaying. |
| | TalksFollow | `TalkInv`: what a process remembers of the restaurant was stored in its life, and while a guest is talked with all that any process may remember is among the conversation's profiles. TalkFollows is about what was told already and does not say what the next message may be told. |
| | SignalsAreCurrent | `SignalsInv`: unless in doubt, what lookups have queried is as current as what is cached; SignalsFollow does not mention lookups, and any of them may store what it has. |
| | StorefrontTyped, AnswersDoFollow, StorefrontKeeps | The specification that TLC runs implies that of each part (`PartsRun`), and with it the part's theorems. |
| AuthService_proofs | TablesTyped, SnapshotsFollow, TablesFollow | `SnapshotInv`: unless crowded, edits take turns (`Editors`), versions tell them apart (`Versions`), what is saved is newer than all that was announced (`Newest`), and the last one is in the snapshot or on its way unless it is in doubt (`Latest`). `OccupancyInv`: a service that is not in doubt shows the table as it was at some moment of its life, nothing older is on its way to it and all that came later is (`Heard`). |
| | AccountsAreKept, DefaultsFollow, ProfilesAreKept | `KeptInv`: a row in hand differs from the committed one only by the change that is meant, or the account is overwritten. `AddressInv`: requests that are halfway together have met, and one that has met nobody found the mark taken from all. |
| | CodesChangeOnce | `CodesInv`: unless it is exposed, a code is held by one confirmation at most, and once it has changed a password that one is about to delete it, or it is not cached any more. |
| | LoginsDoEnd | `TokensInv`: unless it is noted, a login has one request under way at most, with its last token, and no other token works (`ChainInv`). |
| | SeatsDoAgree | `RowsInv`: a table has two reservations at most, which is what `exclude` needs to go wrong. |
| | TenantTypes, CommitsAreProvisioned, FailuresAreUndone | `ViewInv`: the services counted are complete and left alone until the view gives up; `UndoInv`: those the rollback is past have dropped their schema, are about to, or could not, and those after the failed one were never called. |
| | PartsAreTyped, AuthKeeps | The specification that TLC runs implies that of each part (`PartsRun`), and with it the part's theorems. |

**Hypotheses.** Each is where section 5 says the code breaks the property; each run
that checks the property meets it.

1. `NoClosers` (no view or task closes sessions by force) and, in the behaviour at hand,
   `SerialSessions`: no two processes work on one session. OrderSerial has one process.
2. `TerminalWrites`: no waiter accept view, and administrators set no active status. OrderRace.
3. `SerialUpdates`: no two processes have read one order in order to update it. With OrderStale,
   which violates it, the lock is known to be all that is missing.
4. No transaction dies after the key is stored. OrderLive.
5. `ConsumerAlone`: the order placement does not fail into the dead letter queue, or
   is not replayed from there. KitchenFaults.
6. `OneCook`: one view of the kitchen saves at a time, and administrators do not set
   PREPARING or READY. KitchenFaults, KitchenLive.
7. `Calm`: nothing but consumers fails, and a replay finds letters of one order that is followed.
   KitchenLive.

(1) and (3) are about behaviours and not about constants: `Spec /\ []SerialUpdates`
holds of every behaviour in which requests for one order happen to be spread in time, with
any number of processes at work on other orders. For one process it is a fact, which
OneByOne states: the two theorems then need no hypothesis about behaviours, as in the
run OrderSerial.

**Only model-checked.** Liveness (RequestsEnd, ClosedIsAnnounced, TrafficEnds,
ReadyArrives, EverythingSettles), which is out of the prover's reach with its
fairness and ENABLED. Every other property of a passing run is a theorem, some of
them under the hypotheses above.
No module uses a RECURSIVE operator.

## 8. What is not modelled

- *Data without influence on control*: items, prices, totals, addresses' text and
  timestamps; read-only views other than the bill, the dish lists and the tables;
  validation that refuses before anything changes; reports (sales, top dishes, statistics).
- *Order service*: updates of the restaurant's replica (one topic, one partition).
- *Kitchen*: the status of a ticket's items, which no event and no other status depends on.
- *Menu*: fields of a dish one by one, images (but whether a creation is announced);
  writers of the menu that die before announcing (the outbox loss is in Tables, the
  missing bump in DishLists).
- *Tables*: deletion of a table, several tables at once, zones. No view creates a
  reservation, so TableViews takes every set of them as given.
- *Cart*: the sums of its answer.
- *Accounts*: Firebase, taken at its word; `UpdateMobileWithFirebaseView`, which ends in
  an error, since its serializer gets no account to update; the names that are made
  of other columns at the first save.
- *Notifications*: rows of a broadcast, the mark that a row is read, the tasks that
  delete old rows, WebSocket groups (no state, errors swallowed), the
  welcome e-mails (automatic commits and a task; the rest is text).
- *AI*: embeddings, ranking and the result it caches for five minutes, prompts, what the model
  says, the text of e-mails. Tools are called at any time, by anybody. In AssistantTalk a
  session is read and first saved in one step.
- *Dead letter replays* of menu and table events: the same loop around their
  consumer's handler, whose events MenuSnapshots delivers in any order anyway.
- *Middleware, migrations of all tenants, gateway, settings and deployment*:
  configuration, used in section 2.

## 9. Plan

Written first, because everything else is around it: OrderService with
OrderLifecycle and its proofs; then OrderKitchen, ConsumerLoop with AtLeastOnce,
MenuSnapshots, Tables, TenantProvisioning; then what guests see (Cart with its contract,
DishLists, DishReviews, Notifications, Devices, the four modules of the AI service,
Checkout) and what the auth service keeps (Accounts, Addresses, Tokens, TableViews), and the
proofs. What would come next:

1. **Kitchen tickets against stale saves**: a property of `StaffSave` that says when a
   ticket the consumer cancelled may be overwritten, in the manner of `exposed`.
2. **Proofs** with weaker hypotheses: SessionsFollow and KeysLeadToOrders with forced closes
   and deaths, up to the moment they happen.
3. **Composition** of Assistant with Cart and OrderService: the agent's cart and order are
   the services' own, which Assistant takes as one step each.
4. **Replicas of the restaurant** and the remaining replays, as further instances of
   ConsumerLoop's contract.
