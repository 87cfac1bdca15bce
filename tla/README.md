# Veritix backend: formal specification

TLA+ specifications of the Veritix ticketing backend (NestJS, TypeORM, PostgreSQL,
Stellar payments), the TLC configurations that check them and the TLAPS proofs about
them. Paths below are relative to the repository; the code is under `src/`.

## The system

One NestJS process serves HTTP requests, a Stellar webhook and a batch job. All state is
in one PostgreSQL database; the process keeps none but a cache of statistics. JavaScript
runs one callback at a time, so what a handler does between two `await`s is atomic, and
between two `await`s any other call may run. Every query outside
`dataSource.transaction` is a transaction of its own; those inside it share one
connection at PostgreSQL's default level, READ COMMITTED.

| Component | State | Operations | Interacts with |
|---|---|---|---|
| Orders (`orders/orders.service.ts`) | `orders`, `order_items` | `create`, `cancel`, `retryPayment`; reads | ticket inventory in its transactions; waitlist after a cancellation |
| Order expiry (`orders/orders.scheduler.ts`) | – | `handleOrderExpiry` | orders, ticket inventory; nothing calls it |
| Ticket inventory (`ticket-types/`) | `ticket_types.soldQuantity`, `totalQuantity` | `reserveTickets`, `releaseTickets`; create, update and remove, which nothing calls | called by orders and expiry; `refundOrder` writes the counter itself |
| Payment confirmation (`stellar/stellar.service.ts`) | `orders.status`, `stellarTxHash` | `processConfirmedPayment`, from the webhook | orders; e-mail |
| Waitlist (`events/waitlist.service.ts`) | `event_waitlist` | `addToWaitlist`, `removeFromWaitlist`, `notifyNext` | `cancel` notifies one entry; e-mail |
| Event lifecycle (`events/events.service.ts`) | `events.status` and details | create, update, `changeStatus`, remove; approval by an administrator | ticket types, administration |
| Tickets and check-in (`tickets/`, `verification/`) | `tickets.status`, verification log | `verifyTicket`, `transfer`, `refundTicket` | events; a socket gateway |
| Refunds (`admin/admin.service.ts`) | `orders.status`, `refundTxHash` | `refundOrder`, `sendStellarRefund` | Stellar network, orders, tickets, ticket inventory |
| Accounts and sessions (`auth/`) | `users` (role, token version, reset code, suspension, deletion, OAuth identity) | register, OAuth login, logout, reset, delete | every guarded route, through `JwtStrategy` |
| Administration (`admin/`) | roles, suspension, audit log, cached statistics | `updateRole`, `suspendUser`, `approveEvent`, … | users, events, orders |
| HTTP layer, gateways, e-mail, storage, configuration, health, migrations | – | routing, formatting, I/O | – |

The behaviours that are hard, and that the models are about:

* **Decisions on stale reads.** `cancel`, `handleOrderExpiry`, `retryPayment` and
  `processConfirmedPayment` read an order, decide, and write after one or more awaits.
  The write names the row by id and does not look at what it has become.
* **Saves that compare and then write.** Outside a transaction TypeORM's `save(entity)` first
  SELECTs the row, computes the columns in which the entity differs from it, and UPDATEs these
  after an await (or INSERTs the entity when the row is gone). So a save writes back columns
  that its caller only read, when another call has changed them in between. Each such save is
  two actions, a comparison and a write. Saves inside a transaction follow a FOR UPDATE lock on
  the row, and what they compare cannot change.
* **Row locks.** `reserveTickets` and `releaseTickets` lock the ticket type with
  `FOR UPDATE` and check again; inserting `order_items` locks it `FOR KEY SHARE` for the
  foreign key. Waits can form cycles; PostgreSQL breaks them by failing a statement.
* **Partial failure.** A transaction that throws at its second line must give back what the
  first reserved; the expiry job must go on after an order that fails and report it.
* **No transaction.** `refundOrder`, check-in, the waitlist, events and accounts use none: what
  a call has written stays when a later statement fails, and the call is made again.
* **Unreliable delivery.** The payment webhook may report a payment twice, late, or after
  the order was cancelled. The answer of the Stellar network to a refund may be lost. The process
  may stop at any await.

For each component, what makes it correct:

* inventory: never above `totalQuantity` or below zero; moves only with an order, by its
  basket, all lines or none; nothing reserved for nobody;
* orders: an order is cancelled once and only while it is PENDING; a hash pays for its order;
  a memo names one order; every call is answered;
* expiry: each order found is expired, no longer PENDING, or reported;
* waitlist: entries are notified in order of arrival, and once;
* event lifecycle: only the transitions of `event-transitions.ts`; terminal states are final;
  what the audit log and the mails say of an event is true;
* check-in: a ticket admits once; nobody is refused as having used a ticket that was not used;
  the owner of a ticket is the last link of its recorded transfers;
* refunds: each ticket is given back to the counter once, and an order is REFUNDED, and money
  leaves, only when all of its tickets are back;
* accounts: a token does not outlive a suspension, reset or deletion; a reset code works once; no
  administrator is suspended; a suspension is in the audit log.

## Modules

| Module | Models |
|---|---|
| `Inventory` | What `TicketTypesService` promises about `soldQuantity`: whole baskets, all or nothing, within bounds. No rows, locks or calls. |
| `Orders` | Orders, their expiry and payment, and the counters, as concurrent calls in transactions on rows and locks. Implements `Inventory`. |
| `Queue` | What `WaitlistService` promises of the waitlist: who applies is behind those on it, and is notified in turn. No calls, reads or saves. |
| `CheckIn` | The tickets of one event under concurrent `verifyTicket`, `transfer`, `refundTicket` and the tickets `refundOrder` cancels. |
| `Waitlist` | The waitlist of one event under concurrent `addToWaitlist`, `removeFromWaitlist`, `notifyNext`. Implements `Queue`. |
| `EventLifecycle` | One event under concurrent create, edit, `changeStatus`, `remove`, `approveEvent` and `rejectEvent`, with the audit log and the mails. |
| `Accounts` | The users under concurrent logins, registration, password reset, deletion, changes of role and suspensions, and the tokens that are accepted. |
| `Refunds` | `refundOrder` under failures and retries, next to `cancel` and payments of the same orders and to the sales of others. |
| `MCOrders`, `MCCheckIn`, `MCWaitlist`, `MCEventLifecycle`, `MCAccounts`, `MCRefunds` | The instances TLC checks. |
| `OrdersProofs`, `CheckInProofs`, `WaitlistProofs`, `EventLifecycleProofs`, `AccountsProofs`, `RefundsProofs` | Theorems for every value of the constants. |

### How `Orders` corresponds to the code

The committed tables are `sold` (`ticket_types.soldQuantity`), `orders` (an order's status,
items, owner, `cancelledReason`, `stellarTxHash`) and `due` (the orders whose `expiresAt` has
passed). `share` and `excl` are PostgreSQL's row locks on ticket types. `draft` is what the
transaction of a call has written and not committed. `pc`, `req`, `left`, `want` are the local
state of a call, `found`, `todo` and `failed` those of a run of the expiry job. `late` is a history
variable, which no guard reads: the orders cancelled again, or paid, once they were CANCELLED.

| Code | Actions |
|---|---|
| `create`, `retryPayment` → `createOrderRecord` | `StartCreate` / `StartRetry`, `CheckAvailability` per line (no lock), `InsertOrder` (unique memo), `InsertItem` per line (FOR KEY SHARE), `Reserve` per line (FOR UPDATE, check, write), `CommitCreate` |
| `cancel` | `StartCancel` (read and guards), `Release` per line, `CommitCancel` (UPDATE and COMMIT), `Notify` |
| `handleOrderExpiry` | `StartExpiry` (the list), `PickExpired`, `Release` per line, `CommitCancel`, `Abort` to the next order when a transaction throws |
| `processConfirmedPayment` | `StartWebhook` (read and guards), `ComparePayment` and `SavePayment` (save) |
| PostgreSQL, clock, process | `DeadlockVictim`, `DeadlinePasses`, `Restart` |

`Goto`, `LineDone`, `EndTransaction`, `Finish`, `Abort` and `Write` are the steps these
actions share. `Blockers(c)` says whom a statement waits for.

What the model abstracts, and why nothing that the properties see is lost:

* A call is a slot of `Calls`, used again when its call has ended. A request that the entry
  guards refuse changes nothing, so the guards are those of the `Start` actions and a refused
  call is a stutter.
* `randomUUID` draws an id no row and no call has. The memo is the first eight characters of
  the id: `MemoOf`, which need not be injective. The id is drawn at the start of a call rather
  than after the inventory check; nothing reads it before.
* Lines of one order for the same ticket type are merged and lines are taken in any order
  (the code uses the order of the caller; `Promise.all` interleaves the reads of the check).
  The code checks two lines of one type separately before the transaction, so it refuses such
  an order in `reserveTickets` rather than before: the outcome is the same.
* The UPDATE of an order and the COMMIT after it are one action: the lock on the order row
  delays other writers of that row only in between.
* Prices are fixed: `Cost` gives the total of a basket.
* `notifyNext` only succeeds or throws; sending tickets by e-mail, logging and the response
  are left out. Services are called with a `User`, as the unit tests do.
* `orders.status` also has FAILED, which no code sets, and REFUNDED, which only `refundOrder`
  sets. The properties of `Orders` are about a system without refunds; `Refunds` puts them in.
* The table `orders` has two entity classes. The one `processConfirmedPayment` saves
  (`orders/entities/orders.entity.ts`) has no `cancelledReason`, so its save compares and writes the
  status and the hash (`Columns`), and leaves the reason that a cancellation has written.

### How `CheckIn` corresponds to the code

`status` and `owner` are columns of `tickets`, `transfers` and `log` the rows of
`ticket_transfers` and `verification_logs`, `event` the row of the event the tickets belong to.
None of the three operations opens a transaction: each reads one row (`seen`), decides on it
and writes after one or more awaits, and what it wrote stays when a later statement throws.
Three history variables tell what came first: `marked`, the tickets a check-in has written USED on,
`late`, the calls that read their ticket after that, and `crossed`, the transfers that were under way
at that moment.

| Code | Actions |
|---|---|
| `verifyTicket` | `Scan` / `ScanUnknown` (the read), `Decide` (the early returns on the row read and the time it is), `Mark` (`update` by id, whatever the ticket is now; then the gateway), `Log` |
| `transfer` | `StartTransfer` (read and guards), `Record` (the COMPLETED transfer), `Compare` and `Write` (save) |
| `refundTicket` | `StartRefund`, `Compare` and `Write` (save) |
| `refundOrder`, for one ticket | `RefundOrder` (`update` by id, whatever the ticket is) |
| a statement or the gateway throws, the process stops | `Fails` |
| the organizer, the clock | `EventChanges`, `Tick` |

* `totalScanned`, which the gateway emits after `Mark`, is read from the tickets and kept
  nowhere. A resale price above the cap is refused before any write: a stutter.
* No code in the repository inserts tickets, so `Issued` and `Holder` are given. Nor does a
  controller call `transfer` or `refundTicket`; they are modelled as the services they are.
* A call is made once, so that properties can tell what it decided.
* `verifyTicket` refuses only USED, so a CANCELLED or REFUNDED ticket is VALID, and the save of a
  transfer that read ACTIVE puts ACTIVE back over both.

### How `Waitlist` corresponds to the code

`entry` and `place` are the rows of `event_waitlist` for one event. `joinedAt` is the time at
which the transaction of the INSERT starts, and the row is seen at its COMMIT; so `Insert` and
`CommitInsert` are two actions. Times differ: `clock` counts insertions. `ahead` is a history
variable: who was on the list when an entry was made. So are `mailed` and `unsaved`, the entries
that have been mailed and those whose call failed between the mail and the save, and `shared`, the
entries of a call's batch that an overlapping call had picked too. `deleted` are the users `deleteAccount`
has soft-deleted: TypeORM leaves them out of the `user` relation, so they get no mail.

| Code | Actions |
|---|---|
| `addToWaitlist` | `StartJoin` (the check), `Insert`, `CommitInsert` |
| `removeFromWaitlist` | `StartLeave` (findOne), `Remove` |
| `notifyNext` | `StartNotify` (the oldest `count`); per entry `SendMail`, then the save: `CompareEntry` and `UpdateEntry`, `UpdateNothing` or `RestoreEntry`; `EndNotify` |
| mail or statement fails, process stops | `Fails` |

### How `EventLifecycle` corresponds to the code

`event` is the row (`status`, `isArchived`), `audit` the entry each call has logged and `mailed` the
calls whose mail was accepted. `been`, the rows the event has been, `author`, the call that
gave it the status it has, and `stale`, the calls that
loaded the event before another call changed its status, are history variables. No
operation opens a transaction: each loads the row, checks it, changes the entity and saves it.
An edit may be of any column but these two (`UpdateEventDto` omits `status`), and yet saves both.

| Code | Actions |
|---|---|
| `createEvent` | `Create`: with any status the request names |
| `update`, `uploadImage` | `StartEdit`, `Compare`, `Write` |
| `changeStatus` | `StartMove` (checks `EVENT_TRANSITIONS`), `Compare`, `Write`, `SendMail` or `SkipMail` |
| `remove` | `StartArchive`, `Compare`, `Write` |
| `approveEvent`, `rejectEvent` | `StartApprove` / `StartReject`, `Compare`, `Write`, `Log`, `SendMail` |
| a statement, upload or mail throws, the process stops | `Fails` |

* A call is made once, so that properties can tell what became of it; one that its guards refuse
  is a stutter.
* The roles of users do not change; `Accounts` has the operations that change them.

### How `Accounts` corresponds to the code

`row` is the table `users`, `audit` the calls that have an entry in `audit_logs`, `expired` the reset
codes past `passwordResetCodeExpiresAt`. A call has the row it read (`seen`), the row it means to leave
(`entity`) and the columns it writes (`cols`): fixed for an UPDATE, found by comparison for a save.
`revoked` and `lost` are history: the logins that read their account before its sessions ended, and the
accounts on which a call wrote a column that had changed since the call read it.

| Code | Actions |
|---|---|
| `handleOAuthLogin` | `StartLogin` and `Write` (link the identity), or `StartFirstLogin` and `Insert` |
| `register`, `registerOrganizer` | `StartRegister`, `Insert` (the unique indexes) |
| `requestPasswordReset`, `resetPassword`, `deleteAccount` | `StartRequest` / `StartReset` / `StartDelete` (read and guards), `Write` (UPDATE by id) |
| `updateRole`, `suspendUser`, `unsuspendUser` | `StartUpdateRole` / `StartSuspend` / `StartUnsuspend`, `Compare`, `Write`, `Log` |
| `JwtStrategy.validate` | `Accepted` |
| a statement or the log throws, the process stops | `Fails`, `LogFails` |
| the clock | `CodeExpires` |

* A token is not a state of the server: that login `c` has one is `HasToken(c)`, and that it is
  accepted now is `Accepted(c)`. A login of a suspended account gets a token too, as in the code.
* `googleId` and `githubId` behave alike and are one identity, `link`. The look-up by identity and the
  one by address after it are one step; nothing is decided in between.
* A reset code is named by the call that drew it, so two draws differ (two equal draws of six digits are
  left out), and `suspendedAt` by the call that set it. The caller knows the code, the password and has
  the permission; a call that lacks one is a stutter.
* Passwords, names and `isVerified` are not modelled: a stale save restores a password exactly as
  it restores the code next to it. Mails come after the last write and change nothing.
* `logout` is left out: it clears `currentRefreshTokenHash`, which no code sets or reads, so
  the access token is accepted afterwards (`test/auth.e2e-spec.ts` expects otherwise). `uploadAvatar`
  writes a column that nothing decides on.

### How `Refunds` corresponds to the code

`orders` is the row of each order (status, `stellarTxHash`, `refundTxHash`), `cancelled` the tickets made
CANCELLED, `sold` the counter, `lock` and `draft` the FOR UPDATE lock of a cancellation and what it has
written under it. A refund has `tickets`, those it still has to treat, and `at`, the one it treats.
`returns` (which call gave back which ticket), `others` (what other orders took, less what they gave
back) and `sent` (the refunds whose payment the network took) are history.

| Code | Actions |
|---|---|
| `refundOrder` | `StartRefund` (read with all tickets, guard), per ticket `CancelTicket` and `CountDown` (the increment by -1, one UPDATE), `EndTickets`, `Send`, `MarkRefunded` (UPDATE by id) |
| `sendStellarRefund` | `Send`, with what became of the payment as its input |
| `cancel` | `StartCancel`, `Release` per line, `CommitCancel` |
| `processConfirmedPayment` | `StartPay`, `ComparePay`, `SavePay` |
| `reserveTickets`, `releaseTickets` of other orders | `OthersReserve`, `OthersRelease`: one ticket, atomically, within the bounds they check. An order cancelled twice gives its tickets back twice, so `OthersRelease` does not ask whether they are held |
| a statement throws, a deadlock, the process stops | `Fails` |

* The relation `tickets` of an order has all of its tickets, so a refund that is tried again gives
  back those that were given back before.
* Replies of the network: the hash, a payment taken whose answer is lost, or none. A user without a
  wallet, a missing key and a refusal are all `none`. PostgreSQL returns `totalAmountXLM` as a text, so
  `amount.toFixed` throws and is caught: with the code as it stands only `none` happens. The instance
  has all three, and the properties hold with any of them.
* The entity that a payment saves maps `refundTxHash` too, so its save compares the status and the
  refund with what it read, and writes those that differ, next to its own hash.
* A call is made once; a retry is another call. `paidAt`, `cancelledReason` and the entry in the
  waitlist are left out.

## Runs

| Run | Question | Instance |
|---|---|---|
| `payments` | Bounds, no leaks, counters follow orders and match those held, a hash pays for its order, the expiry job accounts for its orders; the inductive invariant | 1 ticket type with 2 of 3 tickets left, baskets of 1 and 2, 2 users (one ADMIN), 2 orders, 2 payments to one memo, of which one covers the smaller basket and the other carries an amount that cannot be read, 2 calls |
| `types` | `Orders` implements `Inventory`; unique memos; some call can always go on, and every call is answered | 2 ticket types (one free ticket each), 3 order ids of which two share a memo, 2 calls, fairness |
| `oversell` | The documentation says that reserving prevents overselling | 1 ticket type with 2 of 3 tickets left, baskets of 1 and 2, 1 user, 3 orders, no payments, 2 calls |
| `door` | Custody of a ticket; nobody refused without a check-in; nobody admitted who comes after one, unless the check-in is taken back; the inductive invariant | 1 ticket and an unknown id, 3 users, 3 calls of any kind, an event that opens at 1 and closes at 1 or never and may be cancelled, time up to 2 |
| `double` | A test says a double scan is rejected | as `door` |
| `fifo` | Entries are notified in order; no second mail but by overlapping calls or after a failure; `Waitlist` implements `Queue`; the inductive invariant | 2 users, 3 entries, 2 calls at a time, each asking for 1 or 2 entries |
| `saves` | The status is that of a call that asked for it, logged if it is a verdict; what is told was so; a legal past; illegal changes of status only by overlapping calls; the inductive invariant | 2 users (the organizer and an administrator), 4 calls of any kind, one of which creates the event with any status |
| `terminal` | `EVENT_TRANSITIONS` leaves CANCELLED and COMPLETED by nothing | as `saves` |
| `accounts` | Sessions end, codes are used once, administrators are not suspended, suspensions are logged; the inductive invariant | 2 accounts (one row or none at the start, of any role, with or without an old code and an identity), 1 address, 1 identity, 3 calls of any kind |
| `sessions` | A comment says an incremented version ends a session | as `accounts` |
| `refunds` | No update of the counter is lost; it is below zero only when a ticket came back twice or others gave back more than they held; REFUNDED only after all tickets are back; the inductive invariant | 1 order, PENDING or PAID, of 3 tickets of 2 types which are sold out, 3 calls, each reply of the network |
| `zero` | A comment guards the counter against going below zero | as `refunds` |

`oversell` needs a third order: two for the tickets that came back twice, and the third to sell one
that is still held. The bounds of `Orders`: the ids bound the orders made in one behaviour, `Calls` the calls at one time.
Two calls suffice for each pair of operations to interleave at every await, with a deadlock
between them. Tickets are scarcer than
orders, so checks pass, fail before the transaction and fail under the lock. Two ticket types
give transactions that fail at their second line and lock orders that cross. TLC evaluates
the assumptions on the constants in each run. Calls are symmetric in the safety runs; the
run with fairness uses no symmetry.

`CheckIn`: its properties are about one ticket at a time, and tickets share no state but the
event, so one ticket is enough; three calls give a transfer and a refund that overlap a scan,
or a chain of three owners. The clock passes the opening and the closing. `Waitlist`: with two users and three
entries a user joins twice, or leaves and joins again, while two batches overlap. The run stops where
both accounts are deleted (`OneStays`): nobody can join or be mailed after that. It also stops at the
second entry whose mail was sent and never saved (`OneUnsaved`): each such entry is mailed again as the
first was. `EventLifecycle`:
three calls after the creation let a third change the row between the comparison and the write
of the first, or between two that overlap. `Accounts`: three calls give a login between two changes
that collide, and two accounts a conflict on an address or an identity. `Refunds`: three calls
give a refund that fails and two retries, or a refund and a cancellation that overlap with a
payment; two tickets of one type let a retry meet a counter that others have bought up again, and the
second type a cancellation that holds one row and waits for the other. Deadlock of the model is checked in `Orders`,
`CheckIn` and `Waitlist`: a new call, the clock or a change of the event can always go on.
It is not in `EventLifecycle`, `Accounts` and `Refunds`, which may stop when each of their calls
has been made and has ended.

### Fairness

`FairSpec` assumes: a call whose statement has returned goes on (`WF` on `FreeStep`: the event
loop runs every ready callback); a call whose row lock is free again and again gets it (`SF` on
`LockStep`: PostgreSQL queues waiters in order); PostgreSQL ends each deadlock (`WF` on
`DeadlockVictim`, `deadlock_timeout`). Nothing makes a request arrive, a deadline pass or the
process stop, and nothing makes the expiry job run, because nothing in the repository does.

### Where the code differs from what it says

Each of these is a run that TLC ends with a counterexample. What is left of each promise is an
invariant of a passing run, which says under what condition it still holds, and is proved:

* `oversell` (`HeldWithinCapacity`): `reserveTickets` never exceeds the counter, but the
  counter can be too low: an order cancelled twice returns its tickets twice, which is what the run
  shows. The other cause is a payment that comes after a cancellation, which makes the order PAID without
  tickets; the instance has no payments. There is no third cause (`CountersMatch`, `SpecNoOversell`).
* `double` (`SingleAdmission`): two scans that both read ACTIVE both answer VALID. A scan that begins
  after a check-in has marked the ticket admits only when a refund, or a transfer that was under way
  when it was marked, has written over it (`UsedStaysUsed`).
* `terminal` (`TerminalIsFinal`): `update` saves the status it read, over a CANCELLED that was
  written meanwhile; so does a second `changeStatus`. A call that overlaps no change of status makes
  only the transitions of the table, or is a rejection (`LegalSteps`).
* `sessions` (`RevokedStaysRevoked`): two calls that end the sessions of one account write the
  same version, and the save of a call that read the row before writes the old one back; a token
  of before is then accepted. Where no two changes of an account collide, a session that ended stays
  so (`SessionsEnd`).
* `zero` (`NeverBelowZero`): a refund that is tried again, or two that overlap, give the same tickets
  back twice, with no guard at zero. The property is about states in which other orders have given back only
  what they held. One order cancelled twice breaks that, and a refund then takes the counter below zero
  with no ticket of its own repeated. There is no third cause (`BelowZeroOnlyByRepeats`).

More that the models show and no run is spent on:

* the stale check of `cancel` also takes a PAID order to CANCELLED, which
  `orders.service.spec.ts:245` says is refused;
* two creates for one ticket type can fail each other with a deadlock: the foreign key check of
  their items shares the row that `reserveTickets` then locks for update;
* an entry that its user removes while `notifyNext` mails it is inserted again by the save;
* two overlapping refunds can each send the money; a payment saved late puts PAID over REFUNDED and
  erases the hash of the refund, so that the order can be refunded again; after a double refund the counter is too low, and the cancellation of another order can be refused;
* a deleted account keeps its `googleId` and `githubId`, so its user's next OAuth login finds
  nobody and fails on the unique index;
* an amount that `Number` cannot read is no underpayment and pays any order: of such an amount
  `PaidIsFunded` says only that its memo is the order's;
* two payments for one order, confirmed together, both find it without a hash, and the second
  hash replaces the first;
* `handleOrderExpiry` is neither scheduled nor called, so an order past its deadline stays
  PENDING and holds its tickets;
* two joins of one user that both find no entry make two entries, since `event_waitlist` has no
  unique constraint; an entry whose save fails after the mail is mailed again, and one that two overlapping
  calls have picked is mailed by both, even when nothing fails (`MailedOnce` says that there is no
  other way to a second mail);
* a stale edit brings DRAFT back over an approval, with no rejection in the log (`StatusAccounted` names
  rejections and stale saves as the only ways);
* two changes of one account that collide let one reset code serve twice and leave an administrator
  suspended: the invariants of `Accounts` but `SuspensionsAreLogged` leave such accounts out (`lost`);
* a check-in whose gateway or log fails after the mark has used the ticket up, though the scanner gets an
  error: `RefusedAfterAdmission` counts its verdict;
* a ticket that was refunded or cancelled is still VALID at the door;
* the save of an event that was loaded before `remove` takes `isArchived` back.

## Proofs

`OrdersProofs` proves, for any sets of types, users, baskets and payments and any finite sets of order
ids and calls that satisfy the assumptions of `Orders` (quantities are naturals, `Base <= Total`, a
basket asks for something, `None` is none of the values). Finiteness is that of a table and of the
connections of a pool; sums over orders and the waits between calls need it.

| Theorem | States |
|---|---|
| `SpecIInv` | the inductive invariant below |
| `SpecTypeOK` | every variable keeps its type |
| `SpecInventoryBounded` | `soldQuantity` stays in `0 .. totalQuantity` |
| `SpecMemoNamesOneOrder` | a memo names at most one order |
| `SpecSweepAccounted` | the expiry job accounts for every order it found |
| `SpecNothingLeaks` | what is counted as sold was sold before or belongs to an order that was never cancelled |
| `SpecCountersMatch` | the counters are exact until an order that is CANCELLED is cancelled again or paid |
| `SpecNoOversell` | until then the orders held fit in what was on sale, which is what the run `oversell` refutes without it |
| `SpecSomeoneCanGoOn` | when calls are under way, one waits for nobody or some wait in a cycle |
| `SpecCountersFollowOrders` | counters move only in the commit that creates or cancels an order, by its basket |
| `SpecImplementsInventory` | `Spec => INV!Spec`: the transactions implement the all-or-nothing inventory |
| `SpecPaidIsFunded` | a stored hash pays for its order |

The inductive invariant `IInv` has three layers, each of which uses the one before.

`CallsInv` is about calls and locks. A row is locked FOR UPDATE by one call, exactly by
those in a transaction that have treated its line (`LocksOK`); what such a call has written is
the *committed* counter plus or minus its line and lies within bounds (`DraftsOK`) - true when
it was written and still true at the commit, because nobody else can commit that row
meanwhile. Each call's request fits its phase: a create owns an id no row has, a cancellation
knows the basket of an order that exists (`RequestsOK`). The memo of an uncommitted order is
nobody else's (`InsertsOK`), and the expiry job works on orders that exist (`SweepsOK`). None of
these is preserved alone: bounds need drafts, drafts need locks, locks need requests.
`NextIInv` has one lemma per action; transactions that end without a commit share `FinishInv`
and `AbortInv`, lines share `WriteInv`.

`NothingLeaks` sums over the orders that were never cancelled (`Unreasoned`: every cancellation writes a
reason, and nothing takes it away). It is inductive on top of `CallsInv`: the commit of a create adds its
basket to both sides, that of a cancellation takes it from the counter and, unless the order was
cancelled before, from the sum, and a payment changes neither.

`CountersMatch` is exact: each commit adds to the sum, or takes from it, what it adds to the counter or
takes from it, unless it cancels a CANCELLED order or pays one, which puts the order in `late`.

A sum over orders is stated as the number of seats, the pairs of an order and a number up to the
quantity of its line: `Tickets(t, S) == Cardinality(Seats(t, S))`. So no induction over the set of
orders is needed: the lemmas `Places...` say what one more or one less order does to the seats, by
the library's facts about the cardinality of unions and products. TLC checks `IInv` in the run
`payments` too.

`SpecSomeoneCanGoOn` takes a smallest set of calls under way that is closed under waiting for each other (there is
one, since proper inclusion on finite sets is well-founded): if nobody in it can go on, each waits for
another in it, and it is a cycle in the sense of PostgreSQL's detector. That a lock is never held by a
call that has ended is what `LocksOK` says of `share` and `excl`.

The step lemmas `CreateEffect`, `CancelEffect` and `PaymentEffect` say what the three actions
that write the tables do to them under `CallsInv`; the action property, the refinement, the sums and
`PaidIsFunded` follow from them.

`CheckInProofs` proves `SpecTypeOK`, `SpecIInv`, `SpecCustody`, `SpecRefusedAfterAdmission` and `SpecUsedStaysUsed`. Custody is stated without
recursion: a set of users that holds the first owner and is closed under the recorded transfers
of the ticket also holds its owner. What makes it inductive is that the same is true of what
each call is about to write (`ChainsOK`): the owner it read, and, once its transfer is
recorded, the buyer. Later transfers only make fewer sets closed. `UsedOK` does the same for
ALREADY_USED: a used ticket has its check-in, also one that was used when it was read; saving
a status that was read cannot bring USED without one, since `transfer` reads ACTIVE. `MarksOK` follows
a ticket from its first mark on: it is USED, or something may have taken it back; a call that read it
later read it so; and a transfer that read it before is among those it crossed, so that its save
counts as taking back. A transfer that begins later finds USED and is refused, which closes the circle.

`WaitlistProofs` proves `SpecIInv`, `SpecFirstComeFirstServed`, `SpecMailedOnce` and `SpecImplementsQueue`. An entry's `ahead` joined earlier (`AheadOK`:
joinedAt is later than that of all rows seen), so a batch of the oldest that has an entry has
also those ahead of it that are waiting (`OldestFirst`), and keeps that while other calls notify, remove
or fail (`BatchesOK`). What two calls have picked is `shared` by both (`SharedOK`), and a mailed entry that still waits is in
the batch of a call that is saving it, or its call has failed (`MailsOK`); `notifyNext` picks only what
waits, so a mailed entry that it finds is shared or unsaved, which gives `MailedOnce`. A row
that is restored is notified at once and is never picked again. The refinement maps `place` and `deleted` to
themselves, and the user and `ahead` of an entry to the queue's; inserting is `Apply`, its commit is `Join`,
a save that writes or restores is `Notify`, and everything else a call does is a stutter. That whoever is saved may be
notified is what `BatchesOK` says of the entries that come before it (`SavedIsNext`).

`EventLifecycleProofs` proves `SpecIInv`, `SpecStatusAccounted`, `SpecNewsIsTrue`, `SpecLegalPast` and `SpecLegalSteps`. A stale save
can bring a status back, so no invariant of the row alone holds; what holds is about all the rows
the event has been. `SourceOK` says of each entity about to be saved where its columns come from:
what an edit read the event has been, what a change of status asks for a row it has been allows,
a rejection asks for DRAFT. `CallOK` adds what a save may leave out: a column that did not
differ when it was compared is one the event has had, which stays true because a past only
grows. That is why the audit entry and the mail, sent later, are true (`PastInv`). `FreshOK` says of a call
that is not stale what it checked is so still, so its write is a transition of the table, a
rejection, or changes no status (`StatusStep`). `StatusAccounted` follows `author` from the write that
changed the status on: a save that was not stale cannot have brought DRAFT but by a rejection, since no
transition leads there.

`AccountsProofs` proves `SpecIInv`, `SpecSessionsEnd`, `SpecAdminsNotSuspended`, `SpecCodeUsedOnce` and
`SpecSuspensionsAreLogged`. A write may bring back any column it has read, so nothing can be said of
accounts on which two changes collided (`lost`). Of the others, versions only grow and nobody becomes an
administrator, so what a call has read bounds what the row is now (`SeenOK`): a login that was
revoked read a smaller version than the row has, a reset that is done read a code that the row has no
more. `EntityOK` says what each operation makes of the row it read. `SpecSuspensionsAreLogged` needs no
such exception: a suspension brought back is one that its call made before. `OthersInv` has what a
step of one call leaves of the others, and each action a lemma.

`RefundsProofs` proves `SpecIInv`, `SpecCountersExact`, `SpecBelowZeroOnlyByRepeats` and `SpecRefundsSettle`, for
finitely many tickets.
A row of `ticket_types` is locked by the cancellation that has treated its line, whose draft is the
*committed* counter less that line (`LockOK`), since increments and other orders wait for the lock. A
refund has given back and cancelled exactly the tickets it has treated (`CallOK`). So each write of the
counter matches what `returns` gets: one ticket, or the line of an order, whose size
is that of the set it adds (`GivenByCardinality`). When other orders hold what they should, a counter below zero has
had more tickets of its type given back than these orders have, and the pigeonhole principle gives one
that came back twice.

Only model-checked: `EveryCallEnds`, liveness under fairness, which is out of reach of these provers (they
know nothing of `ENABLED`). `SpecSomeoneCanGoOn` is its safety half: no state is stuck. The
properties of the five runs that end in a counterexample are false, and nothing is proved of them but
the conditions above.

## Plan

In order of importance; each gets its MC module, runs and, where marked, proofs.

1. `Inventory`, `Orders`, `MCOrders`, `OrdersProofs` - done.
2. `CheckIn`, `MCCheckIn`, `CheckInProofs` - done.
3. `Waitlist`, `MCWaitlist`, `WaitlistProofs` - done. Composition with `cancel`, which calls
   `notifyNext`, is left.
4. `EventLifecycle`, `MCEventLifecycle`, `EventLifecycleProofs` - done.
5. `Refunds`, `MCRefunds`, `RefundsProofs` - done.
6. `Accounts`, `MCAccounts`, `AccountsProofs` - done.
7. Refinement of `Queue`; exact conditions for the promises that the code breaks - done.
8. Left: an inventory specification that refunds implement, composing `Refunds` with `Orders`;
   abstract specifications that `EventLifecycle`, `CheckIn` and `Accounts` implement; the
   statistics cache of `AdminService.getStats`.

## Not modelled

The HTTP layer (controllers, guards, pipes, filters, interceptors), the socket gateways, e-mail and
storage are routing, formatting and I/O with no state of their own. `getStats` keeps its last answer for a minute,
which only its own answers show. `create`, `update` and `remove` of `TicketTypesService` are single
statements that nothing in the repository calls. `logout` and `uploadAvatar` write columns that nothing
decides on. Configuration is read once
at start. Migrations are modelled by the constraints they create. Several files do not compile as
they stand (`admin.service.ts`, the header of `stellar.service.ts`, `tickets.service.ts` and parts of
`verification/` hold the two sides of a merge); they are read as the union of their bodies.
