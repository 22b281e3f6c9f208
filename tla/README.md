# AstraFlow in TLA+

AstraFlow is a milestone escrow: a Soroban contract (`contracts/escrow`) that
holds a funder's tokens against a schedule of deliveries, an SDK
(`packages/sdk`) that builds calls and watches events, a server (`apps/server`)
that indexes escrows and authenticates wallets, and a web client
(`apps/client`).  This directory holds TLA+ modules translated from that code,
TLC configurations that check them on small instances, and theorems that TLAPS
proves for every instance.

## Inventory

| Part | State | Operations | Talks to |
|---|---|---|---|
| Contract: `lib.rs`, `storage.rs`, `access.rs` | one escrow: parties, total, state, milestones and their order, balance book, lock time, pause flag | `initialize`, `deposit_funds`, `submit_milestone_proof`, `approve_milestone`, `claim_timeout_refund`, `emergency_pause/unpause` | the asset's contract, the ledger clock |
| Contract: `vesting.rs`, `penalty.rs`, `fees.rs`, `token.rs`, `math.rs` | `streamed`, `late_penalty_applied`, fee and treasury | `stream_milestone_payout`, `set_/apply_late_penalty`, `configure_protocol_fee`, rounding | the asset's contract |
| Contract: `dispute.rs`, `multisig.rs` | dispute record, evidence docket, committee | `raise_dispute`, `append_dispute_evidence`, `resolve_dispute`, `settle_dispute_quorum`, `configure_arbitrators` | |
| Contract: `milestone.rs` | the pending amendment | `request_milestone_amendment`, `approve_amendment` | |
| Contract: `reentrancy.rs`, `ttl.rs` | guard flag, lifetimes of storage entries | around every entrypoint that moves tokens | the host |
| SDK: `events.ts` | cursor, start ledger, timer, handlers | `start`, `stop`, `poll` | RPC `getEvents`; calls handlers |
| SDK: `client.ts`, `errors.ts`, `multisig.ts`, `retry.ts` | the envelope of a request, the attempts | `assembleTransaction`, `submit`, `withExponentialBackoff` | the RPC and, through it, the ledger |
| SDK: `builders/escrow.ts`, `builders/dispute.ts`, `converters.ts` | the fields set so far | setters, `addMilestone`, `settleWithQuorum`, `compile`, `toParams` | the contract decodes what they build |
| SDK: `cache.ts` | LRU entries with expiry | `get`, `set`, `wrap`, `delete`, `clear` | the producers it awaits |
| SDK: `stream.ts`, `models/state.ts` | none | `interpolateStream`, `projectEscrow`: what a snapshot of the contract means | |
| Server: `services/indexer.ts` | escrow rows and timeline in SQLite, the watcher | `applyEvent`, `recordProof`, `startIndexer`, `stopIndexer` | the watcher, the webhooks |
| Server: `middleware/auth.ts` | the table of challenges | issue, verify, prune | the wallets, over HTTP |
| Server: `routes/escrows.ts` | none; a client's place in the pages | `GET /api/escrows` | the table of the indexer |
| Server: `config/database.ts` | pool singleton, transaction depth | `transaction`, `query` | Postgres or SQLite |
| Client: `WalletProvider.tsx` | wallet session | `connect`, `disconnect`, `setNetwork`, `refresh`, silent reconnect | Freighter, xBull, `localStorage` |
| Client: `page.tsx`, `MilestoneTimeline.tsx` | milestones, clicks whose delay runs, the dialog's copy | approve, submit, dispute, inspect | |
| Client: `CreateEscrowForm.tsx`, `CreateEscrowModal.tsx` | section, values, validations and submissions under way | Next, Back, submit, close | the SDK's client, the wallet |

What is hard in it:

* **Long sequences of legal calls** (contract).  The host runs one invocation at
  a time and rolls back the ones that fail, so the contract has no
  interleavings, but fourteen entrypoints write the same balance book, and what
  is left in it must always be what the milestones say: approvals promise, streams
  pay, penalties cut, disputes freeze, settlements split, the timeout takes the
  rest.  Rounding happens in four places.
* **Stale state** (contract): an amendment is proposed in one state and signed
  in another; a committee is replaced before a dispute.
* **Overlapping asynchronous calls, redelivery and restarts** (watcher, indexer,
  cache, wallet, pages and forms): state read before an `await` and used after it.
* **Lost calls and answers, and retries** (submission): whether a request whose
  answer was lost is on the ledger, and what its next attempt does.
* **One rule written twice** (builders, projections, topics, struct fields): in Rust
  and in TypeScript, with nothing that compares them.
* **Clocks at their edges**: vesting, lock window, deadlines, challenge lifetimes.

`PROJECT.json` lists each hazard at its line with the properties that cover it.

## Plan

Ordered by importance; all steps but the last are done.

1. `EscrowMath`, `Escrow`: the whole contract but its guard and lifetimes.
2. `Custody` and `EscrowCustody`: what the contract promises about the money,
   and that it implements it.  `EscrowSigned`: on whose signature.
   `EscrowClaims`: what a comment says and it does not do.
3. `EscrowProofs`: types and solvency, for every instance.
4. `EventWatcher`, `Indexer`, `IndexerProofs`: overlapping polls, restarts,
   redelivery, against the log of what the chain emitted.
5. `AuthChallenge` with `AuthChallengeProofs`, `WalletSession` with
   `WalletSessionProofs`, `EscrowProjections`.
6. `Submission`: a request from the SDK to the ledger.  `LruCache`, `EscrowBuilder`,
   `DisputeBuilder`, `EscrowListing`, `Dashboard`, `CreateEscrowForm`: the smaller parts
   of SDK, server and client.  `SdkAndAppsProofs` for all of these.
7. `EscrowBookProofs`, `EscrowViewsProofs`, `EscrowSignedProofs`: the book, the order,
   the freezes, the count, the vesting, the refinement, the projections and the
   signatures, for every instance.
8. Left: a process that is killed between the row and its entry of the timeline.

## Modules

* `EscrowMath` - `math.rs`, and `SumTo`, the fold behind the total and the
  obligation.  A recursive function, so that proofs can use it.
* `Escrow` - one action per entrypoint that changes state, named after it.
  A parameter `auth` is the set of addresses whose authorization the invocation
  carries: `require_auth(a)` succeeds when `a` is in it.  The guards are the checks
  of the entrypoint; a call that fails one returns an error, is rolled back by the
  host, and is a stuttering step.  `CloseLedger` advances the close time.  Each
  variable is one storage key, but `tokens` (the asset's ledger) and `now`.
  Data that no entrypoint reads back is left out: proof and description hashes, the
  asset's address after the validation, the raiser and the shares in the dispute
  record, who submitted a piece of evidence.  Milestone ids are `1..N`, which is
  what `initialize` enforces.  `milestones` is read in the order of `order` only
  where the code walks the list.
* `Custody` - an abstract pot: unfunded, held, frozen or closed; and the part of
  it that is promised.  `EscrowCustody` defines the mapping: the pot is
  `Locked`, the promise is `UnstreamedObligation` until a settlement.
* `EscrowSigned` - `Escrow` with a history variable, the signatures of the last
  invocation, for properties on who may cause a step.
* `EscrowClaims` - a statement of a comment of the contract.
* `EventWatcher` - `ContractEventWatcher`.  The RPC is external: `log` and `ledger`
  are the chain, `requests` the calls that have been made and not come back.  The
  RPC answers a call in one step (`Serve`) and the code goes on in a later one
  (`StartAtLatest`, `ReceivePage`) or the call fails (`Reject`); what the code does
  between two awaits is one action.  A cursor is a position in the log.  Of an event
  only its topic is kept, decoded by the code's own table.  `first` and `delivered`
  are history: where the watch began and what the handlers got.  `start()` is not
  called again before it has returned, which is how the server uses it; a `stop()`
  during `start()` does nothing and is a stuttering step.
* `Indexer` - the server process around that watcher: it extends `EventWatcher` and
  joins its actions to what they do to the row and the timeline of the watched
  escrow.  `Index` is a page with `applyEvent` run for each event of it, `PollFails`
  and `Exit` end the process (a rejected poll of the interval is handled by nobody,
  which ends a Node process) and drop the cursor, `StartFails` leaves it
  running without a watch, `Webhook` is a delivery by GitHub
  (`routes/webhooks.ts`) that ends in `RecordProof`.  `Lawful` keeps the chain to
  what the contract can publish: no proof after a release, nothing after a
  settlement.  An entry of the timeline names its event by the position in the log, 0
  for the proof of a webhook; `IndexAfter` is the loop over a page.
* `IndexerProofs` - the theorems about the watcher and the indexer.
* `EscrowProjections` - `interpolateStream` of `stream.ts` and `projectEscrow` of
  `models/state.ts`, as functions of the contract's state.  It extends `Escrow`, so
  that they are computed in every state that the contract reaches and compared with
  what the contract does next.  The decay of a stream is 0, its default.
* `AuthChallenge` - the table of challenges of `middleware/auth.ts`.  A handler is
  synchronous and one action; but it reads the clock when it prunes and once more
  later, so the second reading is any moment up to `HandlerTime` after the first.
  A nonce is the place of its challenge in `issued`, and a signature is the
  pair of the wallet that made it and the challenge it was made over.  `accepted`,
  `issued` and `booted` are history.  The key of the table, wallet and nonce, is
  checked by `Found`; a record is removed when it is consumed, so `consumed` is never
  true of a record in the table.
* `WalletSession` - `WalletProvider`.  `page` is its React state, `stored` its entry
  in `localStorage`.  A call that awaits a wallet is a record in `tasks`, with what it
  captured when it was called and what the wallet has answered; its steps are the
  code between two awaits.  The wallets are external: `WalletChanges` gives one another
  account or network, or locks it.  The buttons guard `Connect` and `Disconnect` as on
  the dashboard.  `Reload` drops what was in progress and starts the silent reconnect.
  Left out: error texts, other tabs that write the same entry, and an xBull without
  its optional methods.
* `AuthChallengeProofs`, `WalletSessionProofs` - the theorems of the two.
* `Submission` - the requests of one account.  `Assemble` and `Simulate` are
  `assembleTransaction`, `Submit` is `SignatureAggregator.submit` with
  `classifySendResult`, `Throw` and `Wake` are the loop of `withExponentialBackoff`
  around it, which is how a program would put the parts together; nothing in the
  repository does.  `Diagnosed` stands for the regular expressions of `errors.ts` and
  `retry.ts`: whether the text of an error holds a transient pattern is a choice, and a
  stale sequence number that is recognised always does.  The network is external: a
  `pool` of transactions, one sequence number, a time bound; `Include`, `Drop`,
  `UseElsewhere`.  A call and its answer are one step, or the answer is lost.
* `LruCache` - `cache.ts`.  `entries` is the JavaScript `Map`, which is read in the order
  of its insertions, so that each entry carries the number of its own; a producer that is
  awaited is a record in `loads`.  A value is the moment at which its producer was called.
* `EscrowBuilder` - the setters of `builders/escrow.ts` in any order, `Valid` for
  `validate`, and the two encodings: `Compiled` (`compile`) and `Converted` (`toParams`,
  `EscrowClient.initialize`, `milestoneToScVal`); `Accepts` is the contract's side.
* `DisputeBuilder` - the methods of `builders/dispute.ts`, which may throw between two
  assignments.
* `EscrowListing` - the index, with the number of each row's last write for
  `updated_at`, and a client that reads it page by page.
* `Dashboard` - the milestones of the dashboard.  A click puts a record in `works`,
  `Elapse` is the end of its 400 ms.  The dialog shows the copy `inspecting`.
* `CreateEscrowForm` - the form and its dialog.  `moves` are the validations and
  `submissions` the submissions under way.
* `MCSdkAndApps` - the instances of these seven.  They share no state, so a behaviour
  is one of them, chosen by `subject`, while the others stand still.
  `SdkAndAppsProofs` - the theorems of each.
* `MCAuthChallenge`, `MCWalletSession` - the instances of the two.
* `MCEventWatcher`, `MCIndexer` - the instances of the two.
* `EscrowInstances`, `MCEscrow`, `MCEscrowSigned` - the instances.
* `EscrowProofs`, `EscrowBookProofs`, `EscrowViewsProofs`, `EscrowSignedProofs` - lemmas
  and theorems; the third stands on the second, the second and the last on the first.

Definitions named `D_Fault` are `D` with a plausible mistake; no specification
uses them.  Put in D's place, they show that a property can tell the difference.

## Runs

| Run | Instance | What it shows |
|---|---|---|
| `escrow_funds` | 2 milestones, one lump-sum and one vesting (payouts 4 and 3, or 1 and 2), clock 1..4, lock of 2, penalties of 0.05, 0.5 and 1, fee of 0, a quarter or everything, splits 5000/5000, 10000/0 and one that does not add up | the invariants on money, the exits, the step properties, the refinement of `Custody`, and that the SDK's projections agree with the contract |
| `escrow_amendments` | 3 milestones, both parties signing together or alone, payouts amended to 0 and 2, clock 1..2; roles that `validate_roles` must refuse | the total follows the amounts before the deposit and the book matches them after it; the order stays a permutation |
| `escrow_disputes` | 2 milestones, six sets of signatures, five committees of which three must be refused, five lists of signers, a contract that was gifted a token | who can move the tokens of a disputed escrow and who can be paid |
| `event_watcher` | 2 calls pending at once, pages of one event, 3 ledgers with up to 2 events each, 3 events, an event the handlers want and one they do not | nothing is skipped, nothing is brought forward, everything arrives |
| `indexer` | 2 calls pending at once, pages of 2, 3 events of 2 milestones, a timeline of 3 entries, a database in a file, any number of restarts | the row and the timeline agree; without overlap each event is recorded once and in order |
| `auth_challenge` | 2 wallets, 4 challenges that live for 2 ticks, a table of 2, handlers of up to a tick, clock 0..4, any number of restarts | a challenge is accepted once, in time and for its wallet; it stays until then; the table is bounded |
| `wallet_session` | 2 operations in progress, Freighter with 2 accounts on 2 networks or locked, xBull with one account or none, 2 changes of the wallets, any number of reloads | page and storage agree, the account is one of the wallet shown, a Freighter session catches up with Freighter |
| `sdk_and_apps` | 2 requests with 1 retry each over 3 sequence numbers and a time bound; 3 keys in a cache of 2, 2 producers at once, 5 insertions, clock 0..3; 4 addresses and 2 drafts; 3 signers, 2 splits and an argument that is refused; 3 rows read one to a page with 4 writes meanwhile; the 3 demo milestones with 3 clicks under way; 3 accounts, 2 validations at once, the dialog opened twice | no request is on the ledger twice, what is told final is final, every request ends; cached values are recent and the right ones are evicted; compiled invocations pass the contract's checks and are of one piece; no row falls between two pages; no late click reopens a released milestone; only distinct accounts are assembled |
| `claim_disconnect` | as `wallet_session` | a disconnect that does not last |
| `claim_events` | one call at a time, the contract's own event names | the watcher drops events that its comment promises |
| `claim_promises` | as `escrow_funds`, smaller | a comment the code contradicts |
| `claim_initialize` | 4 addresses, 2 drafts | what `EscrowClient.initialize` builds is not what the contract decodes |

The bounds and why they suffice: amounts of 1 to 4 make every rounding case
appear (a share of 3 in two halves leaves dust, a fee of a quarter of 1 floors to
zero); two milestones are the least with which one can be pending while another
streams, and three the least on which a move differs from a swap; the clock has
one close before, at and after every deadline (lock, end of vesting, late proof).
In `escrow_amendments` and `escrow_disputes` the parts that other runs cover
(fees, streams over time) are at their default.  Two pending calls are what it takes
for one answer to overtake another; pages of one event against a log of three make
full pages the rule (the code's limit of 100 is a parameter).
Four challenges against a table of two make pruning by number happen twice over, and a
clock of twice the lifetime makes pruning by date happen as well.  Two operations in
progress and two changes of the wallets are what it takes for one answer to be old when
it is used and another to overtake it.  A retry and a second request with the same
account are what it takes for an envelope to be sent again after its place in the
sequence was taken; two entries in the cache against three keys make every insertion
evict; two producers are what it takes for the slower to overwrite the faster; pages of
one row make every write fall between two pages.  `CHECK_DEADLOCK` is on
in every run but `indexer` and `sdk_and_apps` (whose bounds on the clock and the clicks
stop it): a contract never stops, since anyone can pause it, and a
watch can always be started; a server whose first poll failed does stop watching.

No fairness is assumed of the contract.  Nothing forces a party to call, so nothing
must eventually happen; what the contract owes is that an exit is open, and
`RefundIsPossible` and `CompletedPaysOut` state that.  `AcceptsTimeoutRefund` and
`AcceptsStream` are the checks of the two exits, those on the amount included; the actions
consist of them and of assignments, so a call is enabled exactly when its checks let it
through, and the properties say so without `ENABLED`, which no proof could use.
`EventsArrive` assumes `FairWatcherSpec`: the interval keeps firing (weak fairness of `Tick`, what
`setInterval` does), and calls that are made again and again are sometimes
answered and their answers sometimes arrive (strong fairness of `Serve` and
`ReceivePage`), since a network may fail any one call but without some success nothing
can arrive.  `SessionFollowsWallet` assumes `FairSessionSpec`: the interval fires again and
again while there is a Freighter session (strong fairness, since changes of the page
restart the interval: somebody must leave the page alone for eight seconds now and then),
and wallets answer what is not a dialogue (weak fairness); nobody has to answer the
dialogue of `connect`.  `RequestsEnd` assumes of each request that its next step comes
(weak fairness of `GoesOn`): a call to the RPC is answered or fails, and a `setTimeout`
fires; of the network it assumes nothing, so a ledger need never take the transaction.

### Findings

* After `claim_timeout_refund` the tokens it reserved for approved, vesting
  milestones cannot leave: `stream_milestone_payout` refuses a cancelled escrow.
* The watcher's topic table does not know `MilestoneSubmitted`, `MilestoneApproved`
  and `DisputeSettled`, the names under which the contract publishes what the
  watcher calls `ProofSubmitted`, `MilestoneReleased` and `DisputeResolved`.
  `parsers/events.ts` maps both.  The runs `event_watcher` and `indexer` therefore use
  the topics of the watcher's own table.

* A disconnect clears the session, but a refresh that was waiting for Freighter and has
  found another account puts one back, on the page and in `localStorage`.
* `EscrowClient.initialize`, and with it `initializeEscrow`, which the web client's form
  calls, encodes milestones with seven of the contract's eleven fields.  `EscrowBuilder`
  encodes all.  (How the library encodes a value for which it is given no type is
  external and not checked here.)

Two comments that the model contradicts without a run of their own: `raise_dispute` says
"Freeze unreleased milestone balances until the arbitrator resolves." (`lib.rs:206`), and
an arbitrator's `approve_milestone` makes the escrow active again with the dispute
unresolved (`lib.rs:510`), so `FreezesHold` speaks of the state and not of the record;
`approve_amendment` says "When both sides have approved, the milestone record and ordering
are rewritten atomically." (`milestone.rs:79`), and a payout proposed before the deposit and
signed after it is dropped without an error (`milestone.rs:107`).

What the model also shows and no document denies, so that no run claims it: with
overlapping polls a late page is applied after newer ones and nothing repeats the
newer ones, so the row may say "Under Review" of a released milestone for good
(`TimelineIsLog` needs its `~ overlapped`); events of the time between two processes
are read by neither; the row of an escrow first heard of by a webhook starts as a
copy of the demo escrow, its released milestone and locked balance included; a refresh
or a reconnect that was called before the user chose a network restores the old one; a
silent reconnect that fails forgets the session of a connect made meanwhile, which then
does not survive a reload (`StoredIsShown` allows it); before any proof
`projectEscrow` takes the lock window for a date, so an escrow with a window is at once
overdue (`SnapshotAgrees` speaks of escrows with a proof); and a funded escrow
whose proof is younger than its deposit may be refunded before it is shown as overdue.

Of the SDK and the applications: a stale sequence number is retried with the same
envelope, which can never succeed; `AUTH_EXPIRED` may be told of a request that executes
(`FailureIsFinal` excepts lost answers); `TRY_AGAIN_LATER` is told as a hash although the
network has refused; a row that leaves the filter while a client reads pulls another to a
page already read (`UntouchedIsSeen` excepts it); a dialog that was opened before a
dispute can still release or resubmit the milestone; `appendEvidence` that throws on its
hash leaves the new actor with the old hash; a double click on Next passes a section
unvalidated, and only the submission validates the whole form; the dialog closes when an
older submission of it ends; the threshold and the lock window of the form are not sent;
`toParams` drops vesting and deadlines; a token that is one of the parties is refused only
by the contract.

## Proofs

Induction over data is out of reach here (the library's induction theorems take an
operator and cannot be instantiated), so what a recursive function computes is proved from
its recurrence, by least counterexample (`NatMinimum`): the laws of `SumTo` (`SumLeq`,
`SumDifference`, `SumChange`) and the loop over a page of events (`PageApplied`).

`EscrowProofs` proves `TypeCorrectness` and `Solvency` for every number of
milestones and every set of inputs, from `ConstantsAssumption` and
`InputsAssumption` (amounts are natural numbers, and the contract does not
authorize calls to itself).  `Solvent` is not inductive alone: the deposit sets
`deposited` without looking at what was booked before, so an unfunded book must be
empty; and an amendment before the deposit must leave the total a natural number,
so the total must be the sum of the payouts.  `CoreInv` adds both; `ApplyBpsBounds` and
`VestedBounds` bound the roundings.  One lemma per
group of entrypoints shows that it is preserved, on lemmas about what `PayWithFee`,
`Refund` and `SettledMoney` book and move.

`EscrowBookProofs` proves `OrderIsPermutation`, `FreezesAreKept` and `BookIsExplained`.
The order is kept because a reorder is a permutation of positions: `MovesAreInverse` gives
the map and its inverse.  `BookMatchesMilestones` is not inductive alone.  The deposit
starts from a streamed total of zero only because nothing is streamed of what is not
approved and nothing is approved before it; no penalty or second dispute follows a
settlement because a settled escrow stays complete; and a reorder leaves the obligation
alone because the order misses no milestone.  `BookInv` adds these to `CoreInv`; a step
that streams to one milestone what it books is one use of `BookPaid`, a step that moves no
money one of `BookKept`.

Its last two theorems, `ApprovalsAreCounted` and `NothingIsPaidEarly`, look at few variables,
so `StepKinds` first sorts every step into five kinds: a fresh schedule, an approval, a
stream, a step that leaves approved milestones alone, a step that changes only the clock
or nothing they look at.
`CountInv` adds that the threshold is the number of milestones; the rest is cardinality
(`FiniteSetTheorems`).  `NeverPaidEarly` is inductive given the types; that
`vested_amount` rounds in favour of the escrow is `VestedIsEarned`.

`EscrowViewsProofs` proves `EscrowIsCustody`, the refinement of `Custody`.  Its invariant
`PotInv` is the conjunction of the above and of `Positive`: payouts and proposed payouts
are positive before the deposit, or the deposit might put nothing into the pot.  From the
book, `PotCoversPromises`: the pot covers what is promised, and all of it is promised once
everything is approved, which is what lets the last approval close the pot.
There is one lemma for each abstract action.

Its other view is the SDK's.  `SnapshotsAreTrue` says of any number of milestones that
`projectEscrow` agrees with the contract, and `ProjectionsArePaid` that a stream pays what
`interpolateStream` has shown.  The first needs the dates (`DatesInv`): no proof is older
than the deposit, so a milestone that is shown as overdue is so for the contract as well.
The second is about two roundings of one fraction: the share shown as elapsed is rounded
down to basis points before it is multiplied, the payout once (`TwoRoundings`).

And whoever is owed something can get it.  `RefundsStayPossible`: what is locked is what
can still be paid (`LockedIsUnpaid`), and a milestone that nobody approved has a positive
share of that which no promise covers.  `CompletedEscrowsPayOut`: all of what a completed
escrow holds is promised, so some milestone is owed a part of it (`SomePartIsPositive`);
it is one that vests, since an approval without a vesting period pays at once
(`LumpSumsArePaid`, the invariant that this theorem adds); and no milestone is owed more
than is locked (`OwedIsLocked`), so the stream is booked.  `ProjectionsAreWithdrawable`
needs the same (`StreamIsAccepted`) and what the SDK's helper splits
(`InterpolationSplits`).

`EscrowSignedProofs` proves `DisputesAreAdjudicated` and `PaymentsAreSigned`.  The
invariant `Roles` says who is who: neither the arbitrator nor a member of the committee is
a party, the committee is finite and its threshold positive, the fee does not go to the recipient.
`QuorumAdjudicates` then counts: the first `threshold` signers are distinct, so the
members who signed are as many.  `PaymentsAreSigned` assumes that no escrow names the
contract itself as its recipient, which the code does not check: to such a recipient the
deposit would look like a payment.

`IndexerProofs` proves `WatcherTypes`, `NothingIsSkipped` and `EventsComeInOrder`
for every chain, page limit and number of pending calls, from `WatcherAssumption`.
`NothingSkipped` is not inductive: a late page moves the cursor to its own end, so
everything before the page must have been read already.  `PagesFollowCursor` says so
of every pending page, and why: a poll begins at the cursor, only the first `start()`
begins without one, and there is one `start()` at a time.  Each step that
makes, answers or drops a call is one use of the lemma `RequestReplaced`; the page
that arrives is `PageIsRead`.

It also proves `RowsTellTimelines` and `TimelinesAreLogs` of the server around the watcher,
from `IndexerAssumption` as well (milestones are numbers, and disputes name none).
`RowTellsTimeline` is inductive: `TellsAppended` says what a row must do with an entry, and
`EventTells` that each case of `applyEvent` does it, whatever the row was.  `TimelineIsLog`
is not: `ProcessInv` adds that as long as no polls overlap at most one call is pending and
a pending poll asks for what follows the cursor, that no `start()` is pending once there
is a cursor, and that a process which is down has neither.
A page then continues what was read (`PageContinues`), with one entry for each
event that the handlers want (`Logged`).

`AuthChallengeProofs` proves `AuthTypes`, `SingleUse`, `NotPrunedEarly` and
`BoundedTable` for any number of wallets, lifetime, table size and clock, from
`AuthAssumption`.  `KeptWhileItLives` is not inductive: that pruning by number only drops
a challenge with `MAX_CHALLENGES` newer ones needs that challenges expire in the order in
which they were issued, which holds because the clock does not go back; the
invariant adds that order, and the bound is a lemma on the cardinality of `Latest`.

`WalletSessionProofs` proves `AccountsAreOfTheirWallet` and `ReloadsRestore` for any number
of accounts, networks and calls in progress, from `WalletAssumption`.  Neither is
inductive: a call applies what it captured and what it was answered long before, so
`TasksAreCoherent` says of every pending call that the account it holds is one of the
wallet that it will name, and that only a call that names a wallet and a network may end
with a session.

`SdkAndAppsProofs` proves `SubmissionTypes`, `NeverIncludedTwice` and `FailuresAreFinal`
for any number of requests, retries and sequence numbers, from `SubmissionAssumption`.
`NoDoubleInclusion` needs to know why a second envelope is impossible: `SubmissionInv` says that
what is in the pool is the envelope of its request as it was built (`PoolIsSent`), that what
is on the ledger was sent and has used up its sequence number (`LedgerIsSent`), that the
network has never taken a request whose calls were all answered with an error
(`NotTaken`), and that an envelope carries its own request (`EnvelopesAreOwn`).  A retry
sends the same envelope, whose number no longer is the next one; so the network refuses
it.  One lemma per group of actions (`SubmitStep`, `ReturnStep`, `ThrowStep` for the calls)
keeps the invariant.

Of the other parts of that module:

* `AssembledNamesThree`: what a submission has captured was checked when it was clicked,
  and what is assembled is what it captured (`FormInv`), whatever happens to the values on
  the page in between.
* `SettlementsAreWhole` and `CompiledEscrowsAreAccepted`: a builder's call that throws has
  assigned nothing that the other fields rely on; `Valid` and `Compiled` leave nothing for
  `initialize` to refuse but a token that is one of the parties.
* `ReleasesLast`, an action property: a late proof would take a release back, unless no
  approval of its milestone precedes it.  `DashboardInv` says so: what is shown as Pending,
  on the page or in the dialog's copy, has no approval on its way, and works elapse in the order
  of their clicks.
* `UntouchedRowsAreSeen`: the rows ahead of one that is not written only become more
  unless one leaves the filter, so a row whose place is on a page already read was there
  when that page was read (`BehindIsSeen`).
* `ServedValuesAreRecent` and `RecentlyUsedStay`: `CacheInv` says that the place of an
  entry is its key's last use, and that it expires at most `MaxLoad` and its lifetime
  after it was read.  An entry that `evict` takes has `MaxEntries` behind it that were used
  later, and a key once evicted only gets more of them.
* `PartsAreTyped`: the types of all parts in `MCSpec`, since a step of the composition is a
  step of one of them.

Only model-checked: `EventsArrive`, `SessionFollowsWallet` and `RequestsEnd`, which need
fairness and are out of the prover's reach.  Every other property of a passing run is a
theorem.

## Not modelled

The components marked so in `PROJECT.json`, with the reason.  In the contract: error codes,
events, getters and the width of `i128` (amounts are bounded by what a token can hold; the
checked operations turn an overflow into a rejected call); the reentrancy guard, since the
host refuses to reenter a contract that is already on the stack; lifetimes, since an
archived entry keeps its value until it is restored.  In the watcher: the payloads of
events, and handlers that throw; `parsers/events.ts` is a second decoder that only tests
use, pure data.  In the indexer: rows that only webhooks write, `listEscrowsForAddress`
(one page of at most 100 rows, of which "Pending" ones are neither active nor
historical), the pages of timelines, and a process killed between the two statements of
one handler.  `config/database.ts` is called by nobody; its one transaction depth would be
shared by concurrent transactions.  In the SDK: codecs but for the fields of a milestone,
the estimate of fees, the collection of signatures, how long a delay is.  In the web
client: charts, totals and texts.
