# Verification of the ham-kharje backend

TLA+ models of the NestJS service in `src/src`: people share bills, pay them from
a wallet or through the Vandar gateway, send money to each other and withdraw it.
PostgreSQL (through TypeORM) holds the state; Vandar and other services are
called over HTTP in the middle of many handlers. Paths below are relative to the
repository.

* [Inventory](#inventory)
* [Modules](#modules)
* [WalletLedger](#walletledger)
* [RowLocks](#rowlocks)
* [Accounts](#accounts)
* [Social](#social)
* [UserRows](#userrows)
* [Invites](#invites)
* [GroupBills](#groupbills)
* [TokenCache](#tokencache)
* [Runs](#runs)
* [Proofs](#proofs)
* [Findings](#findings)
* [Plan](#plan)
* [Not modelled](#not-modelled)

## Inventory

Node runs one thread, but every `await` lets another request run, and several
processes may share the database: what is not in one database transaction, with
the rows locked, interleaves. Handlers call one another directly; there are no
queues, no timers that change state, and no retries but one: a token that can not be refreshed is
generated. `synchronize` makes the schema from the entities.

| part | state | operations | hard behaviour | correct when |
|---|---|---|---|---|
| wallet core `modules/wallet/wallet.service.ts` | `wallets`, `wallet_transactions`, `bill.paid/isPaid` | chargeWallet, payBill, handlePaymentCallback, transferWalletToWallet, withdrawToBank, history | handlers that wait for Vandar between two saves or inside a transaction; callbacks late, twice, in parallel; bigint columns that arrive as text | no credit twice or without payment, no overdraft, no bill paid above its amount, every balance change has its row |
| bills `modules/bills-management` | `bill` | create, delete (by batch `referenceId`), lists | deletion of a bill whose payment is under way, of a batch whose insertions are | a deleted bill takes no money and stays deleted |
| Vandar client `modules/wallet/infrastructure/vandar.service.ts` | none (remote: tokens, payouts) | createPaymentToken, verifyPayment, createSettlement | the effect may happen and its answer be lost | see wallet core |
| legacy gateway flow `wallet/application/use-cases`, `wallet/infrastructure/persistence`, `wallet/infrastructure/payment` | `wallet_transactions` | charge, verify | row read unlocked before the gateway is awaited | not reachable: no module provides it |
| manual transactions `wallet/application/services/wallet-transaction.service.ts` | `wallet_transactions` | createTransaction, history | rows with status SUCCESS that move nothing | |
| authentication `modules/authentication` | `user`, `phone_otp` | register, login, sendOtp, resendOtp, confirmOtp | user, wallet and OTP written in three statements; whole-row saves of rows read before an await; throttle by counting | only a verified phone registers, and whom it tells so may; a registration makes the wallet of its user |
| users `modules/users` | `user` | profile and password update, removal, search | read-then-write over unique columns; other handlers save whole rows | a change stays, a removed user stays removed |
| friendship `modules/friendship` | `friendship` | request, accept, reject, remove, by link | two rows per friendship, in two statements; check-then-insert | friendship is symmetric, one row per direction |
| groups `modules/groups` | `groups`, `group_membership` | create, members, by link, split of a bill, assignment of a bill | check-then-insert; insertions that run at once and fail one by one; whole-row saves of bills and of the group itself; division of an amount | one membership per person, the owner is one of them, shares add up, the answer tells what was created, payments are kept |
| invites `modules/invite` | `invite`, in-memory rate table | create, read, accept | awaits between the membership check and the insert; boundaries of the limiter's windows | only members invite; the limiter refuses the busy and nobody else |
| push `src/push` | `user.subscription` | subscribe, send, clean-up on 404/410 | the row is read, the push awaited, the row written back | clean-up does not erase a newer subscription |
| Jibit `modules/transfer-money/jibit` | cached tokens, in memory | get, refresh, transfer | concurrent refreshes, answers late, lost or in another order, calls without a timeout | no order with an expired token, no transfer given up for another's refresh |
| upload, JWT guard, SMS | none | one remote call each | | |

The documentation differs from the code in three places that no property is about:
`docs/wallet-payment-vandar-api.md:28` says that the callback needs a JWT, while
`wallet.controller.ts:30` marks it `@Public`; and line 583 says that a bill
payment moves no money between wallets, while `payBill` and
`finalizeBillGatewayCallback` both credit the creditor; and the constraints on the
fields of request bodies (lines 141, 258, 309) are decorators that only the invite
routes evaluate, through a `ValidationPipe`.

## Modules

| module | what it is |
|---|---|
| `WalletLedger` | the wallet core with the bill rows, Vandar and the customer at its page |
| `GatewayPayment` | what a gateway payment promises; `WalletLedger` implements it |
| `BillAccount` | what a bill promises to those who pay it; `WalletLedger` and `GroupBills` implement it |
| `MCWalletLedger` | instances for TLC |
| `RowLocks`, `MCRowLocks` | the row locks behind the actions of `WalletLedger`, one at a time |
| `Accounts`, `MCAccounts` | one-time passwords, registration, the wallet a registration makes |
| `AccountsProofs` | theorems about `Accounts` |
| `Social`, `MCSocial` | friendships in two rows, by request and by link; groups and their members |
| `SocialProofs` | theorems about `Social` |
| `UserRows`, `MCUserRows` | columns of a user written by name, and rows written back whole by push subscriptions and links |
| `UserRowsProofs` | theorems about `UserRows` |
| `Invites`, `MCInvites` | invites to a group, and the limiter of their creation |
| `FixedWindow` | what the limiter promises; `Invites` implements it |
| `InvitesProofs` | theorems about `Invites` |
| `GroupBills`, `MCGroupBills` | bills split among debtors by insertions that run at once, assigned to groups, deleted by batch, paid |
| `GroupBillsProofs` | theorems about `GroupBills` |
| `TokenCache`, `MCTokenCache` | Jibit's tokens in the memory of the process, under concurrent transfers |
| `TokenCacheProofs` | theorems about `TokenCache` |
| `RowLocksProofs` | the theorems that they are taken in order and make a transaction one step |
| `WalletLedgerProofs` | theorems about `WalletLedger` |

## WalletLedger

One identifier of `Ids` stands for one money request: the UUID of the row it
inserts, the reference it makes up and the token Vandar gives it. An identifier is
used once, so a behaviour may come to rest when all are used; this is why the
configurations do not check for deadlock. That no *handler* comes to rest in the
middle is `HandlerEnds`.

**State.** `owners` and `balance` are the rows of `wallets`; `bill` is the bill
table; `tx` holds, for every request, the row of `wallet_transactions` it inserts
first, and `credits` how often a wallet was credited under its reference (the
CREDIT row that payBill, transfers and gateway bill payments insert, or the
increment of a top-up). `payment`, `declined`, `verified` and `accepted` are the
remote side: what became of a token, tokens with a refused attempt, payments the
gateway has verified and keeps, payout orders taken. `stage` and `req` say where
a handler is and what it carries in local variables; `callbacks` counts the
callback handlers of a token between `verifyPayment` and their transaction.
`collected` and `dropped` are history variables. `collected` is what the settled payments of a bill
add up to, as sums and not as the code's arithmetic. `dropped` has the requests for which the gateway or the
settlement API had acted when a transaction that should have recorded it failed, or
the process died in it.

**Actions.** A `dataSource.transaction` callback locks every row it changes with
`pessimistic_write` before it reads it, so a callback that awaits nothing but the
database is one action. The handlers are cut at every other await:

| handler | actions |
|---|---|
| chargeWallet | `ChargeRequestToken`, `SaveCharge` |
| payBill | `PayBillFromWallet`, or `PayBillByGateway`, `IssueToken`, `SaveToken`; failures: `GatewayCallFails`, `SaveTokenUnacknowledged`, `SaveFailed` (the catch block) |
| transferWalletToWallet | `Transfer` |
| withdrawToBank | `OpenWithdraw`, `ProviderAccepts`, `CommitWithdraw` |
| any of them, when it throws with nothing more written | `HandlerThrows` |
| handlePaymentCallback | `VerifyCallback`, then `SettleCharge`, `SettleBill`, `AlreadyProcessed` or `CallbackRolledBack`; `FailCallback` for a refused attempt |
| createForUser, createBill, deleteBill | `CreateForUser`, `CreateBill`, `DeleteBill` |
| the customer at the page; the process | `Pay`, `Decline`; `Crash` |

**Decisions a reader should know.**

* *Text.* `wallets.balance` and `wallet_transactions.amount` are bigint columns
  without a transformer, and `pg` returns bigint as text. `-=`, `<` and `>=` turn
  text into a number; `+=` appends. `Append10(n, a)` is that conversion: the
  digits of `a` after those of `n`. `bill.amount` and `bill.paid` have a
  transformer and are numbers, so `paid += dto.amount` adds in the wallet path
  and `paid += transaction.amount` appends in the gateway path (and is read back
  as a decimal). Amounts are positive whole units, as the API document and the DTOs
  state for what is charged, transferred and withdrawn. No validation pipe is installed
  for these routes, so that is an assumption about the clients
  (`AmountsAssumption`).
* *Withdrawal.* The transaction of `withdrawToBank` stays open while the
  settlement API is called. Its writes are visible from `CommitWithdraw` on only,
  and until then it holds the user's row and wallet: `Unlocked` is a guard of
  everything that would lock one of them (a foreign-key check of an INSERT locks
  the user row too). The locks of the other transactions are taken at once.
* *Deleting a bill* clears `billId` of its payments (`ON DELETE SET NULL`); a
  handler that still holds the row with the old `billId` can not save it any
  more (`RowSavable`).
* *Failures.* Any remote call may fail before or after it took effect, a commit
  may succeed and its acknowledgement be lost, and the process may die between
  any two actions. A callback is delivered any number of times, `MaxCallbacks` of
  one token at once.
* *A body of `POST /bills`* may state `paid` and `isPaid`; the constant
  `BillOffers` may contain such bodies, and the theorems cover them.
* Users are never deleted here. No code deletes a wallet, and `wallets.userId` refers to no table: a wallet
  outlives its user.
* *The row of a token.* A callback finds its payment by `referenceId`, which is not unique. Here it finds the row of
  the request: the CREDIT row of a settled payment states the same reference, but also the same status; and
  no row of `createTransaction`, whose caller may state any reference, is assumed to state a gateway token.
* *Bills change only by payments and deletion.* `assignBillToGroup` saves a whole bill
  that it read before, and can take a payment back from `paid`; it is in
  [GroupBills](#groupbills). `CollectedWithinBill` and its theorem are about
  bills that nobody assigns while they are paid.

**What it implements.** `GatewayPayment` is about payments and `BillAccount` about bills: `none`, `open`,
`closed`, `gone`. Both leave out how the code gets there. `BillsAreAccounts` maps the amount of a bill to `due`
as long as its row is live, and `collected` to itself, not `bill.paid`: what the code compares
with is the abstract module's business as little as how it adds. Several bills may move in a step of
`BillAccount`, since a batch is deleted at once; `void` is for bills that somebody overwrites, and no bill of
`WalletLedger` is ever void.

`RemoteEffectsAreKept` bounds what the findings below can do: what the gateway captured or the provider took is in
the ledger, or a transaction is still at work on it, or its reference is in `dropped`.

**Fairness.** `FairSpec` adds weak fairness of `Proceed(id)`, the next step of a
handler that has started. Each of these steps is the end of an await of an HTTP
call or a statement. Node's `fetch` gives up when no headers come in five
minutes, and a lost database connection rejects the statement, so each await is
settled, one way or the other. Nothing is assumed of the customer, of the gateway's
callbacks or of which outcome an await has; in particular not that a failed
attempt ever succeeds.

## RowLocks

`WalletLedger` makes a database transaction one action because its row locks keep
others from what it reads and writes. `RowLocks` opens these actions up: a transaction
is a sequence of statements. A statement (`Reads`, `Writes`, `Refers`, `Deletes`) names the rows that it reads with
`pessimistic_write`, the rows it writes, and its locks, which it takes one by one
in any order (`Take`); everything is released at the end (`Commit`,
`RollBack`). `PayBill`, `Transfer`, `Withdraw`, `SettleBill` and so on list the locks
in the order of the code, those of the foreign-key checks of an INSERT included.
What PostgreSQL does is external: `Conflict` is the part of its table of row locks that
these modes need.

`NoLedgerDeadlock` says that no transactions wait for each other in a circle whose rows are all
bills and wallets. It holds because a bill is locked before any wallet, and
`findWalletPairForUpdate` sorts by user. It is *not* true of all rows: a
joined `FOR UPDATE` (`findBillForUpdate`) and `withdrawToBank` lock whole user rows, and
the foreign keys of a `wallet_transactions` row take a key-share lock of them
after the wallets are locked. Two users who each pay a bill of the other, or a
payment and a transfer among the same people, can wait for each other there, and
so can a deletion of a bill and the callback of its payment. PostgreSQL then
rolls one of them back, which `WalletLedger` has as a handler that throws.

`TransactionsAreAtomic` is the ground on which `WalletLedger` stands: what an open transaction has read nobody else
has written since, and it writes no wallet or bill that it has not read so. A `findOne` without its lock, or a
wallet that is saved and was not locked, breaks it. Payments are left out of the second part: `SavePayment` saves a row that
`payBill` holds in memory, without a lock, and `WalletLedger` has that save as an action of
its own.

The programs are the transactions of the ledger, `deleteBill` and the save of a payment. The removal of a user or of a group, which
cascades to bills, and the save of `assignBillToGroup` are not among them; both theorems are about databases
in which these do not run at the same time.

Assumed: a joined `FOR UPDATE` locks its tables in the order of the query, and
concurrent scans meet the bills of one batch in the same order
(`BatchesAssumption`). The order in which a *statement* without a stated order
takes its locks is left open.

## Accounts

`otp` is the table `phone_otps`, `user` the users by id, each with its phone, `wallets` the `userId`s that have a
wallet. A request is used once and names what it makes, so `user[r]` is the phone of the user
that request `r` created, as long as there is one, and `otp[p].code` the request whose code is valid.
`WalletLedger!CreateForUser` is what `CreateWallet` is here.

Nothing is locked and nothing is in a transaction, so each handler is cut at each
await: `SendOtp` or `ConfirmOtp` read the row and compute the new one, then
`save()` selects the row again by its id (`SaveSelect`), and updates the columns that
differ from what it selected (`SaveUpdate`) or inserts the row if there is none
(`SaveInsert`), a row that was deleted meanwhile included. `Register`,
`CreateUser`, `FindUser`, `CreateWallet`, `DeleteOtp` are the steps of a
registration; `Throws` ends a handler at any of them, with what it has written
left in place. A process that dies is every handler throwing.

Two columns that are always written together are one: `code` stands for
`codeHash` and `expiresAt`, `until` for `registerAllowedUntil` and `verifiedAt`.
Time is `late`: what has expired. The throttle by IP address, and the checks of the
e-mail, refuse a request before it writes anything, as `Throws` does. Whether a
code is right is left open.

Phones change hands. `PUT /users/:id` gives a user another phone (`UpdateUser`), which nobody confirms; `RemoveUser` frees
one, `PostUser` takes one, and a link of friends that has read a user before the removal inserts it again with the phone
it had (`RestoreUser`, with what may have been read in `had`; how it comes to that is in [UserRows](#userrows)). All of it can happen between the
steps of a registration, which creates its user and then looks it up by the phone.

`RegisteredWasVerified` is the promise that stale copies put at risk. It is about the phone at the time of the registration
(`registered`): the phone that a user moves to later was perhaps never confirmed.
`WalletUnlessDisplaced` relates the user that was created to the one that is looked
up by phone afterwards: with a unique column the two are the same unless PUT or DELETE came between
(`displaced`), and then the wallet is made for whoever has the phone, or the registration breaks off.
`VerifiedMayRegister` is the other side of the promise: whom
`confirmOtp` told that the phone is verified can register. The code does break this when two
confirmations cross, so the property names the excuse: `crossed` holds the handlers during
which somebody else wrote the row that they have in hand, and `told` is only set
by a handler that has crossed nobody. `confirmed` and `brokenOff` are history variables too. No property is about how many
guesses count: wrong ones in parallel count once, and nothing in the repository promises more than the bound of the counter.

## Social

`row` is the table `friendship`, by its unique pair `<<user, friend>>`; `owner` and
`members` are the groups and `group_membership`. Two people are friends when both
directions are accepted, and every handler writes the two in separate statements:

| handler | actions |
|---|---|
| sendFriendRequest, deleteRequest | `SendFriendRequest`, `DeleteRequest`: the lookup before the write changes nothing that the unique pair or the id does not decide |
| acceptRequest | `AcceptRequest`, `InsertReverse`, `AcceptDirect` |
| addFriendByLink | `AddFriendByLink`, `FindDirect`, `SaveDirect`, `FindReverse`, `SaveReverse` |
| addGroupMemberByLink | `AddGroupMemberByLink` with its reads, `CommitJoin` with its writes: they are one transaction at READ COMMITTED, which reads the friendships late and the memberships early |
| create | `CreateGroup`, `AddMembers` |
| addFriendsToGroup | `AddFriendsToGroup` with its lookups, `AddMembers` |
| update | `UpdateGroup` reads the group and its owner, `SaveGroup` is the `save()` |
| remove; removeFriendFromGroup, leftFromGroup | `RemoveGroup`; `EndMembership` |
| any of them, when a statement fails or the process dies | `Throws` |

`Saves` is TypeORM's `save()` of a row that was read earlier: it selects the row by its id
and updates it, or inserts it again when it is gone, which fails if the pair has got
another row. `FriendshipIsMutual` says where one direction can be left alone: a
handler between its two rows, one that failed there, and a deleted row
(`deleteRequest` removes one direction of an established friendship too). That the handlers of
two crossing links, or an acceptance and a link, never leave one direction alone
otherwise is not visible in any of them. `OwnerIsMember` names the same mechanism for groups: the name or the image that
`update` changes is left out, but its `save()` inserts a group that was removed since it was read, with its owner and without
members (`revived`). `TwiceOnlyIfCrossed` says when a user can be a member
twice: `crossed` has a pair of group and user that was inserted while another handler, which had
found no membership, was about to insert it. `deleted`, `halfway`, `left` and `revived` are history variables.

The lookups of `addFriendsToGroup` are awaited one after the other; here they are
made at once, so a membership that appears between two lookups counts as appearing
after them. `users.friends`, an array of ids that links write back with the whole
user row, is read by nothing but these writes; the writes themselves are in `UserRows`. Users are not
removed here, so groups have owners.

## UserRows

`live` and `row` are the table of users, with three columns: the password, what a profile
consists of, and the push subscription. A column holds the request that wrote it, so what a
user finds there can be compared with what was last written on purpose (`last`).
`PUT /users/:id` and the change of a password name their columns (`Update`, `UpdatePassword`:
one statement writes, and the lookups before it only refuse). These write whole rows:

| handler | actions |
|---|---|
| subscribe, unsubscribe | `Subscribe`, `Unsubscribe` read the row, `StoreSubscription` is `update()` with all of it |
| send | `Send` reads the row and awaits the push service, `OnDeadSubscription` is its answer 404 or 410, `CleanUp` the `update()` |
| addFriendByLink, addGroupMemberByLink | `Link` for either of the two users, then `save()`: `SaveSelect`, and `SaveUpdate` of the columns that differ (`Merged`), or `SaveInsert` |
| any of them, when it is refused, fails or dies | `Returns` |

A link writes two rows; here each is a handler of its own, so the order of the two is left
open. The writes of a group link belong to a transaction that holds the row from the
UPDATE to the commit: `SaveUpdate` is that commit. `update()` of a removed user's id
writes nothing, `save()` inserts the row again.

The code does lose changes: nothing compares a row with what was read. The two
properties say exactly when. `overlapped` records the columns that were written while some other
handler held a copy of the row (for the removal of a user, while a link did), and everything else
must stay: a subscription that was dead when it was cleaned up is the only other thing that
goes. The mutants show that this has teeth: a clean-up on any error, or `save()` in the
place of `update()`, breaks it.

## Invites

`create` is cut at its awaits: `FindInviter`, `FindGroup`, `FindMembership`, `SaveInvite`.
`members`, `owner`, `groups` and `users` change between them (`Join`, `Leave`,
`RemoveGroup`, `RemoveUser`, from the groups and users services); the foreign keys refuse an
invite whose group or inviter is gone. `accept` is a transaction: `Accept` locks the invite's row, a
deletion waits for it (`Without`), and it always ends in `Conflict` or `UserNotFound`, because
line 170 tests an array. The code after it can not be reached, so no action stands for it, and
`used` is never true.

`store` is the `Map` of the limiter, by address and inviter, with the time its window ends.
`enforceCreateRateLimit` awaits nothing, so `Create` and `RefuseCreate` are one action with it.
`passes` and `refusals` are history, and `Restart` clears them with the map: a
limit across restarts is not promised. Time is a number that `Tick` increases up to `Horizon`;
15 minutes, 10 creations and 7 days are constants.

Nothing removes an entry from the map: one whose window has ended stays until the same pair creates again.
`FixedWindow` has no such entries: it counts down what is left of a window and forgets it at zero.
`LimiterForgets` says that the limiter is one. So an old entry decides nothing, and the
only thing that it costs is memory.

## GroupBills

A batch of `Batches` is a `referenceId`, and stands for the call of `createBillForGroupMembers`
that makes it up; a bill is `<<batch, position in debtorIds>>`. Amounts are counted in the
hundredths of `decimal(10, 2)`, of which `Unit` are a whole one; `Share` is the division and
the column's rounding, halves up. `POST /bills` is a batch of one bill (`CreateBill`).

| handler | actions |
|---|---|
| createBillForGroupMembers | `SplitBill` with its lookups; then, for each bill at once and in any order, `createBill`: `FindCreditor`, `FindGroup`, `FindDebtor`, `SaveBill`, or `InsertionFails` |
| Promise.all and the answer | `Answered`: `ok` with the last insertion, `errors` with the first failure, while the others go on |
| assignBillToGroup | `AssignBill` reads the bill; `save()` is `SaveSelect`, then `SaveUpdate` of the columns that differ or `SaveInsert` |
| deleteBill | `FindBatch`, `DeleteBatch` |
| payBill | `PayBill`: the part of its transaction that concerns the bill |
| removal of a group, of a user | `RemoveGroup`, `RemoveUser`, with `ON DELETE SET NULL` and `CASCADE` |
| an assignment or a deletion that is refused or fails | `Throws` |

The payments are those from a wallet, which add; what the gateway path does to `paid` is
in `WalletLedger`. The balance is a bigint, so a payment is a multiple of `Unit`. A process that dies is
every handler throwing. The two lookups of `assignBillToGroup` are one action, since only the
foreign key of the group depends on the first. Whether a group has members is left open, so are
the titles. Assumed (`SplitAssumption`): no share is so small that the column makes it zero, and the
body of `POST /bills` states neither `paid` nor `isPaid`.

Two things are lost here, both to the whole row that `assignBillToGroup` saves: a payment that was made
between its read and its save, and the deletion of the bill. `PaymentsAreKept` and
`DeletedStaysDeleted` say that nothing else is: `reverted` has the bills that were paid while an assignment held
another state of them, `returning` those of a deleted batch that somebody was still about to insert.
`BillsAreAccounts` maps exactly these bills (`InHandAtChange`) to the state `void` of `BillAccount`; every other bill
is an account, with its own share paid from the start, rounded shares and all.
`AnswerTellsAll` is about `Promise.all`: success means that every debtor has a bill, and errors that
some debtor has none *and gets none*, although other insertions are still under way then.

## TokenCache

`accessToken`, `refreshToken`, `expiresAt` are the fields of `JibitTokenService`; a caller is one
`transfer`. It is cut at its two or three calls to Jibit: `UseCached`, or `Ask`, then `TokenArrives`, or
`AfterFailure` of a call (`RefreshRefused`, `CallFails`); then the order, `OrderTaken` or
`OrderRefused`. The continuations of an answer await only promises that are settled, so
`setTokenData`, the return of the token and the sending of the order are one action. Jibit (`Issue`, the
expiry of a token) is external: a token lives for `Lifetime` from its issue, which the client does
not see; a refresh may be refused. An order that Jibit refuses for another reason is `OrderTaken`: the
process does the same. A caller that gave up may have left a token that Jibit did issue; a caller
that hangs keeps hanging. `Restart` empties the memory.

`RefusedOnlyWhenSlow` is what the margin of five minutes is for: the expiry is counted from
the arrival of the answer, and the order is checked when it arrives, so it relates four
points of time of two remote calls. `AsksOnlyWhenDue` is against answers in another order than the
requests: no call for a token begins, a generation after a refresh that failed included, while the caller could know of a good one. What it can
not know is a token that came while it was asking itself (`overtaken`): a transfer whose refresh token another has
used up generates one although the other's is good. `GivenUpOnlyInOutage` is against callers that use up each other's refresh token.

**Fairness.** `FairSpec` adds weak fairness of `Outcome(c)`, for the callers in `Answered` only: axios has
no timeout here, so nothing says that a call ends. `TransferEnds` is that such a caller ends although
the others may hang for ever: nobody waits for a caller, and nobody retries more than once.

## Runs

| run | instance | shows |
|---|---|---|
| `payments` | 2 users, 1 bill, 2 requests of any kind, 2 callbacks at once, crash, deletion, registration; fairness, no symmetry | `TypeOK`; `OneCreditPerReference`: callbacks in any number and order credit a reference once; `PaidLinkHasRow`: a link given to the customer has the row its callback looks up; `RemoteEffectsAreKept`; `PaymentsAreSettledOnce`, `BillsAreAccounts`: the refinements of `GatewayPayment` and `BillAccount`; `HandlerEnds` |
| `wallets` | 3 requests, amounts of one and two digits, a bill with room for one and a half payments, of another or of one's own | `NoOverdraft`; `CollectedWithinBill`, though payments are prepared before and settled after one another; `BalanceFollowsRows`: each change of a balance has its row, payments to oneself change nothing, and a credit is the amount if the wallet was empty, and more otherwise |
| `row_locks` | 3 users, 3 transactions, two bills of people who owe each other in one batch, a bill's payment and a top-up | `NoLedgerDeadlock`; `TransactionsAreAtomic`: the locks keep from a transaction what it has read |
| `registration` | two phones, 4 requests of any kind, users whose phones change | `TypeOK`, `RegisteredWasVerified`, `VerifiedMayRegister`, `WalletUnlessDisplaced` |
| `friendships` | 2 users, 4 requests of any kind | `TypeOK`, `FriendshipIsMutual`, `OwnerIsMember`, `TwiceOnlyIfCrossed` |
| `user_rows` | 1 user, 4 requests of any kind | `TypeOK`, `ChangesAreKept`, `RemovedStaysRemoved` |
| `invites` | 1 user, 1 group, 4 requests of any kind, two to a window of two units, 3 points of time | `TypeOK`; `NearlyTwiceAtMost`, `RefusesOnlyTheBusy`: the limiter counts right at its boundaries; `InviterBelonged`: who invites belonged to the group while the request ran; `LimiterForgets`: the refinement of `FixedWindow` |
| `group_bills` | 2 users, 1 group, a batch of up to 3 bills of a total that 3 can not share evenly, 2 assignments or deletions | `TypeOK`, `AnswerTellsAll`, `DeletedStaysDeleted`, `PaymentsAreKept`; `SharesAddUp`, `OpenBillsArePayable`: the rounded shares; `BillsAreAccounts`: the refinement of `BillAccount` |
| `transfers` | 3 transfers, one of which may never get an answer; lifetime 2, margin 1, 4 points of time | `TypeOK`, `RefusedOnlyWhenSlow`, `AsksOnlyWhenDue`, `GivenUpOnlyInOutage`, `TransferEnds` |
| `exact_credit`, `payout`, `conflict` | violations, see [Findings](#findings) | |

*Bounds.* A property of these fails, when it fails, through one payment and one
interfering request: two requests show every pair of handlers in every
interleaving, three are used where a third payment could matter (a bill that has
room for two but not three; a wallet emptied by two). Amounts of one and of two
digits make the appending differ from adding both ways. `MaxCallbacks = 2` is the
least number that runs callbacks in parallel; what a third could do, a second
can do after the first has ended. `MaxBigint` and `MaxDecimal` are small so that
the overflow of a column, an error that rolls the transaction back, happens too.
A circle of two or three transactions needs as many in `row_locks`; the theorem covers
longer ones. Users move between phones, so `registration` has two. A code, its
confirmation, the registration and another user who takes the phone are four requests; a stale confirmation that crosses a
fresh one needs no registration, and a changed phone needs no request. Longer stories are left to the theorems. A friendship is about two
people: in `friendships` a request, its acceptance and two links of the same two cross. Rows of
different users share nothing, so `user_rows` has one: a dead
subscription, its clean-up, a link and a change of a column are four requests. Two
windows of `invites` that meet hold four creations, one more than `NearlyTwiceAtMost`
allows, at three points of time. Batches share no rows, so `group_bills` has one; three bills are
the least whose shares of the total 4 are rounded (with two debtors they are exact), and two requests are an
assignment that crosses a deletion or another assignment. `Unit = 2` makes shares with and without a
fraction. Of three transfers two refresh the same token and the third finds it; a token can be issued, be
late by more than the margin and expire within the four points of time of `transfers`. Requests and
transactions are symmetric where the property is not a liveness property.

## Proofs

`WalletLedgerProofs` proves, for every set of users, bills, requests and amounts
that satisfies the named assumptions of `WalletLedger`:

| theorem | statement | argument |
|---|---|---|
| `AlwaysTyped`, `TypeCorrect` | `Spec => []Typed`, `Spec => []TypeOK` | `Typed` adds to the types what a handler has written at each stage (`StageShape`), that rows state an offered amount and a payer (`RowShape`), and that the customer acts on returned links (`TokenShape`). Types alone are not inductive: `CommitWithdraw` needs to know that `req` holds a user |
| `AlwaysLinked` | a row refers to live bills only | deletion clears the references in the same step |
| `NeverOvercollected` | `Spec => []CollectedWithinBill` | the code compares with `bill.paid`, not with the sum collected. `Covered` relates them: `collected <= paid` (appending a number yields at least the sum). It is here that the wrong arithmetic turns out to be on the safe side |
| `CreditedOnce` | `Spec => []OneCreditPerReference` | inductive with `Typed`: a step that credits makes the row final |
| `BalancesFollow` | `Spec => BalanceFollowsRows` | a loss is subtracted and a gain appended (`FollowedStep`, action by action); a number whose digits are appended to zero is itself, appended to anything else it is more than the sum, for `DecadesAssumption` gives it a digit (`AppendIsLarger`, `AppendIsExactOnZero`) |
| `RemoteEffectsKept` | `Spec => []RemoteEffectsAreKept` | `Told`, below, says which rows a callback can meet; with it the property is inductive: a final row stays final, and a handler that holds an accepted payout, or a callback, can end only by recording it or by joining `dropped` |
| `BillsImplement` | `Spec => BillsAreAccounts` | a step per action and bill (`AccountStep`); the payments need `Covered`: what is left of the amount by `paid`, which the code checks, is really left. A deleted bill is not found by `findBillForUpdate`, nor referred to (`AlwaysLinked`): each alone keeps a callback from paying it |
| `LinksAreBacked` | `Spec => []PaidLinkHasRow` | the token is written before the link is returned, and kept |
| `PaymentsImplement` | `Spec => PaymentsAreSettledOnce` | the refinement of `GatewayPayment`: `Init` maps to its `Init`, and each action to a step or a stutter (`SimulationStep`). `Told` adds what the abstract payments see and `Typed` does not say: which statuses a gateway row can have, and that a callback in flight was verified |
| `NeverOverdrawn` | `Spec => []NoOverdraft` | `Held`: while a withdrawal is in flight its user's balance covers it, and no two hold the same user: this is what the locks are for |

`RowLocksProofs` proves `LedgerNeverDeadlocks`, `Spec => []NoLedgerDeadlock`, for any
number of users, bills, payments and transactions. Bills and wallets get a `Rank`; each
program is shown to lock them in ascending rank (`Orderly`, a lemma per
program). Its invariant `LockInv` says that a transaction holds what its
statements so far ask for, and that no two hold conflicting locks. Of the rows that a circle
waits for, the one of highest rank (`LargestNumber`, from the library's
well-foundedness of the numbers) would be held by someone who waits for a higher one. Its
assumptions are `IdsAssumption` (serial ids have a largest one),
`RowsAssumption` (the foreign keys) and `BatchesAssumption`.

`LedgerIsSerialized` proves `TransactionsAreAtomic` from the same invariant. A statement that reads a row asks for its strongest
lock and one that writes it for a conflicting one (`StatementGuards`), so of two transactions that have finished
such statements one would hold a lock that conflicts with the other's. That a row is read
before it is written is a fact about each program (`ProgramsAreGuarded`).

`AccountsProofs` proves the four invariants of `registration`. `Confirmed` says
that a phone counts as verified, in its row, in a copy that some handler will write
back, or in a registration under way, only if its code has been given; without the
copies it is not inductive. `Owned` says that phones are unique and that a registration goes on with
the user it made, or is in `displaced`; a user that comes back (`RestoreUser`) or moves is refused a phone that is taken. `Trusted` says what each copy in hand may write back: the right guess itself, a
new code, or a wrong guess that leaves the verification as somebody was told it is, unless the
handler is in `crossed`. Assumptions: `AttemptsAssumption`, `NullAssumption`.

`UserRowsProofs` proves the three invariants of `user_rows`. `Safe` extends `ChangesAreKept` to
the copies that handlers hold, since they will be written back; `Quiet` and `Alone` are the two
ways in which a step keeps it for a column: nothing new reaches the row or a copy, or the
column was just written and nobody holds a copy. `Gone` says that no link that could insert a removed row
holds one. Assumption: `NullAssumption`.

`InvitesProofs` proves the four invariants of `invites`, for any length of a window and any
maximum. `Window` relates the entry of a bucket to what has passed: it opened with an attempt, its count is
the number of attempts since (a cardinality, with the library's theorems on finite sets), and
*fewer than the maximum* came in a window's length before it. The last part is what the bound of
`NearlyTwiceAtMost` rests on, and it holds because the attempt that opened the previous
window is too old to be among them. `Recorded` says that a creation that has read an owner, or
is past the check, was recorded to belong. Assumptions: `InviteAssumption`, `NullAssumption`.
`StaleEntriesDoNothing` is the refinement of `FixedWindow`. A tick of the clock is the step to look at: a window with
one unit left ends in it, and the entry that stays is one that the code will overwrite; an entry
that is not yet to be overwritten shows what is left of its window, which is never nothing. `ShownFull` says that a refusal looks at no more than this shows.

`SocialProofs` proves the four invariants of `friendships`. `Half` is what makes
mutuality inductive: a handler about to write its last row knows the other
direction to be accepted, or deleted since. `MutualKept` then reduces each action to
three questions: does it lose a friend (`Kept`), is what it accepts accepted back
or on its way (`NewOnesExcused`), does a handler abandon what it owed (`Lawful`).
`OwnersAreMembers` needs `Creation`: a group is named after the request that makes
it, whose next step adds the owner, and every copy of a group that is going to be saved has that owner too. `OneMembershipEach` rests on what a handler that is about to insert
knows: that its users are no members, or crossed.

`GroupBillsProofs` proves the six invariants and the refinement of `group_bills`, for any number of debtors, batches and
totals. `SharesOfTotal` is integer arithmetic: a rounded quotient times the divisor
differs from the dividend by half the divisor at most. `Told` relates an answer to the insertions of
its batch (after `errors` one
of them has failed, and stays failed), `Dead` is `DeletedStaysDeleted` with the copies that would be
inserted, and `Paid` says that every row, and every copy that might be written back, tells what was
collected, or is in `reverted`. Assumptions: `SplitAssumption`, `NullAssumption`.
`BatchBillsImplement` is the refinement of `BillAccount`. A payment is a step of it because `Paid` makes the row's
`paid` the sum collected; an assignment's save is a stutter, because a copy that tells another sum than the row
belongs to a bill in `reverted`, or brings a bill back that is in `returning`.

`TokenCacheProofs` proves the four safety properties of `transfers`, for any number of callers and
any times. Its first invariant has three parts besides the types: `Clocked` (a token arrived after it was issued,
and no time lies ahead), `Cached` (the cached token is one that came, and `expiresAt` is its arrival
plus the lifetime, and no token that came since the start arrived later) and `Callings` (an order was
sent while its token had more than the margin left, counted from its arrival). `AskedWhenDue` adds `Known`: a token that came before a
caller began to ask was due then, and time only goes on. Assumptions:
`TimesAssumption`, `NullAssumption`.

The assumptions of `WalletLedger` are `BoundsAssumption`, `AmountsAssumption` (amounts are positive and fit
the column), `OpeningAssumption`, `OffersAssumption`, `NullsAssumption`
and `DecadesAssumption` (each amount has a number of digits). TLC evaluates them
in every run.

Every invariant, every action property and every refinement of the passing runs is proved. Only model-checked are
the two liveness properties, `HandlerEnds` and
`TransferEnds`: liveness under fairness, and ENABLED, are beyond the prover. The three violations are
behaviours that TLC exhibits; nothing is proved of them.

## Findings

* `exact_credit`: credits of a wallet that holds something append instead of adding
  (`wallet.service.ts:345`, also 163, 526 and 593). The API document says that
  the transfer "moves balance". `bill.paid` grows the same way on the gateway path (line 655),
  which closes bills early. `BalanceFollowsRows` states its exact extent: only the credit of an empty wallet is right.
* `payout`: the API document says that the balance is reduced before the
  settlement is requested; both are in one transaction that commits afterwards,
  and a failure after the provider's acceptance undoes the debit. `RemoteEffectsAreKept` says that nothing else does.
* `conflict`: `accept` tells everybody to be a member already (`invite.service.ts:170`),
  and no invite is ever used.

Three more are not runs of their own: an invariant states them as its only exception.

* A wrong code, handled at the same time as the right one, takes back the verification that was
  just confirmed: `confirmOtp` saves the row it read before `bcrypt.compare`
  (`authentication.service.ts:150`). `VerifiedMayRegister` excuses a verification
  that another handler has crossed.
* Two requests at once make a user a member of a group twice (`groups.service.ts:117`, under the comment
  "Check if already member"): there is neither a lock nor a unique constraint, and a removal
  then takes one row away. `TwiceOnlyIfCrossed` says that nothing else does.
* `assignBillToGroup` saves the whole bill that it has read (`groups.service.ts:301`): a payment between
  the read and the save is taken back from `paid`, so that the debtor can be asked for it again,
  and a bill that was deleted meanwhile is inserted again. The excuses are in `PaymentsAreKept` and
  `DeletedStaysDeleted`.

A share of a split bill that is not a whole amount leaves a rest below one unit, which no payment from a
bigint balance can pay: such a bill stays open for ever. `OpenBillsArePayable` is about the others.

A registration that fails after it has created its user, and `POST /users`, leave a user
without a wallet, and nothing makes one later; so does a change of its phone between the two statements, after which the
wallet can be another user's. `WalletUnlessDisplaced` has these as exceptions. A group that is removed while somebody updates it comes
back without members (`groups.service.ts:67`), and `OwnerIsMember` has that as one. A captured payment whose transaction fails (`CallbackRolledBack`) is credited by
nobody unless the gateway calls again; no document promises more, so it is
behaviour of the model and not a finding. `RemoteEffectsAreKept` has it as an exception, and no other.

## Plan

In this order; each module gets its runs, the mutants that show that its
properties bite, and theorems where there is an invariant worth a proof.

1. `WalletLedger`, `GatewayPayment`, `BillAccount`: done, both refinements proved. To do: the safety half of `HandlerEnds` as
   a theorem (a handler's stage never goes back); the removal of users, which
   cascades to bills and payments, though not to wallets, and which `GroupBills` has.
2. `RowLocks`: done, deadlock and atomicity proved. To do: that every wait of a circle outside the ledger is for a user's row or a
   payment's.
3. `Social`: done. To do: the refinement of a mutual friendship as one set of pairs by the two
   rows, and its proof; the removal of users.
4. `GroupBills`: done, the refinement proved. To do: its composition with `WalletLedger`, in which an assignment
   takes back what a payment of the ledger has collected.
5. `TokenCache`: done. To do: the safety half of `TransferEnds`.
6. `Invites`: done, the refinement proved. To do: the order in which `accept` and a deletion lock rows.
7. `Accounts`, `UserRows`: done. To do: an abstract registration; the unique columns of a profile.

## Not modelled

Uploads, SMS and the JWT guard are one remote call each and keep no state. The
migration runs once, before the service starts; its columns are those of the
entities. Read operations (balances, histories, lists) change nothing. Wordings,
DTO validation other than the ranges of amounts, and HTTP status codes are
abstracted.

`createGropuBill`, `recordBillPayment` and `removeFriend` are reached by no route. The legacy gateway flow
(`wallet/application/use-cases`, `presentation/payment.controller.ts`, `infrastructure/payment`)
can not run: no module provides its use cases and `wallet.module.ts` registers no controller of it, so a
model of it would state properties of code that has no behaviour. `createTransaction` of the manual
transactions is one INSERT of a row with status SUCCESS; it moves no money. The
history reads it, and so could the lookup of a callback by reference, if the row states a gateway token; that it does not is assumed.
