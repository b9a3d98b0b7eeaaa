# fmsgd in TLA+

A verification development for `fmsgd`, a host of the fmsg store-and-forward
messaging protocol.  It models how drafts become messages, how one sending host
delivers them to the hosts of other domains, what a receiving host does with a
connection, and how hosts exchange indicators.  TLC checks small instances; TLAPS
proves every safety property of the passing runs for every value of the constants, most
of those about delivery under conditions on the batches that section 4 states.

## 1. The system

| Part | Source | State | Operations |
|---|---|---|---|
| Finalization | `pkg/message/store.go`, triggers in `dd.sql` | columns, recipients, hashes of messages and batches; row locks | `Finalize`, `FinalizeBatch`, against edits, new batches and purges |
| Sender | `cmd/fmsgd/sender.go` | delivery columns of `msg_to`, `msg_add_to`, `msg_add_to_notify`; row locks; goroutines | poll, dispatch, lock rows, deliver a unit, record outcomes, retry with back-off |
| Connection handler | `cmd/fmsgd/host.go` | one goroutine per connection, files | read and validate a header, challenge, respond, download, give a code per recipient, copy into inboxes, store, report usage, answer |
| Message store | `cmd/fmsgd/store.go`, `dd.sql` | `msg`, recipient and batch rows | insert a message, attach a batch, duplicate and parent lookups |
| Outgoing record | `cmd/fmsgd/outgoing.go` | map from header hash to addresses | register, remove, look up |
| Challenge handler | `host.go:482` | none | answer a challenge from the outgoing record |
| Indicators, sending | `cmd/fmsgd/indicators.go` | changes held back, limit per domain | take a notice, offer, flush, send |
| Indicators, receiving | `cmd/fmsgd/indicators.go` | buckets per source, address cache, workers | admit, verify, publish |
| Id service client, DNS | `id.go`, `dns.go` | none here | ask for a recipient's figures, report usage, look up addresses |
| Wire format, compression, emoji tables | `pkg/fmsg`, `internal/emoji` | none | pure functions |

**How they interact.**  The API stores a draft and finalizes it: its hash is
computed from its rows and committed with them, which makes the rows visible to
the sender.  The sender polls for pending (message, domain) targets and gives each
to a goroutine.  A message is several wire messages: its original, and one per
add-to batch.  A goroutine takes these *units* in turn; for each it locks the
pending rows in a transaction that stays open through the network exchange,
connects, registers the header in the outgoing record and writes it.  The
receiving handler checks the header against its store, may open a connection back
to challenge the sender (answered from the outgoing record), and responds: a
refusal, 11 (batch noted, nobody here), 65 (batch, payload known) or 64 (send the
payload).  After 64 or 65 it asks the id service about each local recipient, copies
the payload into the inboxes of those that accept, stores the message if there are
any, reports its size and writes the codes.  The sender records them and commits.
Indicators, states such as "typing", travel beside this in datagrams that name a
stored message by hash and a participant by index.

**What is hard.**  Both ends commit separately, so every failure between the two
commits leaves them disagreeing and a retry has to be answered from what was
stored.  A handler outlives its sender's deadline and runs beside the handler of
the retry.  Checks are made in one transaction, or one request, and acted on in
another.  Locks cover rows of other domains.  Updates reach rows of other batches.
Polls are stale when dispatched.  Replies must not overtake parents.  A draft is
edited while it is sent, and a batch joins it.  Two goroutines send indicators, and
lookups that answer for them take their time.  The hazards are listed, each at its
line, in `PROJECT.json`.

**What makes the parts correct.**

* Finalization: the hash committed is that of the rows committed; every unit the
  sender finds is sealed; what was sent stays as it is.
* Sender: never claims a delivery that did not happen; never works on a row
  twice at once; keeps its back-off; leaves no lock behind; attempts whatever is
  due; sends a reply after its parent; settled outcomes stay.
* Handler and store: answers a header as the specification says; a code tells the
  truth about what is stored; what is stored is whole; a duplicate is refused only
  if it is one; a quota is overrun by no more than what is in flight; a handler
  returns.
* Outgoing record: exactly the deliveries in flight.
* Indicators: the last state of a participant is sent, within the limits, and is
  attributed to that participant; only what DNS vouches for is published.

## 2. The modules

| Module | Models | |
|---|---|---|
| `ResponseCodes` | the response codes and which of them are retryable | |
| `Wire` | units, recipient entries, connections | constants and their assumptions |
| `Sender` | `sender.go` and the rows it works on | extends `Wire` |
| `Receiver` | `handleConn` from the parsed header on, and the receiving store, as a sender sees them | extends `Wire` |
| `Delivery` | sender and receivers together, fairness, properties, the inductive invariant | extends both |
| `Mailbox` | what delivery promises: post, arrive, confirm | abstract specification |
| `Header` | every check of `readHeader`, in order; beside it the rules of SPEC.md 10.3 and 10.4 in no order | operators |
| `Intake` | concurrent handlers of one host: header, download, quotas, inbox files, store, reports | extends `Header` |
| `Outgoing` | `outgoing.go` and `handleChallenge` | |
| `Finalization` | `Finalize`, `FinalizeBatch`, edits and the triggers, statement by statement | |
| `Subjects` | what an indicator refers to: hashes, participants, indices, targets | operators |
| `Indicators` | the listener and the flusher | extends `Subjects` |
| `Datagrams` | reading, verifying and publishing datagrams; source limits, address cache | extends `Subjects` |
| `DeliveryProofs`, `SettlementProofs` | the theorems about delivery, the second on top of the first | extend `Delivery` and `TLAPS` |
| `HeaderProofs`, `IntakeProofs` | the theorems about the header exchange and the handlers, the second on top of the first | extend `Header`, `Intake` and `TLAPS` |
| `OutgoingProofs`, `FinalizationProofs`, `IndicatorsProofs`, `DatagramsProofs` | the theorems about the others | extend their module and `TLAPS` |
| `MCDelivery`, `MCIntake`, `MCFinalization`, `MCIndicators`, `MCDatagrams` | the small instances, chosen in the `.cfg` files | |

`Receiver` and `Intake` are two views of one handler.  `Receiver` has what the
sender's records depend on: the challenge, lost answers, retries that meet what an
earlier attempt stored.  `Intake` has what only the host itself sees: the fields of
the header, files, quotas, usage.  They are not composed: the product of both is
beyond checking, and no property relates the two.

Definitions named "a slip" are plausible mistakes in the code next to the real
definition; `PROJECT.json` says which property each of them breaks.

### Abstraction

*Delivery.*

* A hash is an identity: the canonical hash of a message is the message, the
  hash of a wire message is its unit.  Payloads and files do not appear.
* A recipient entry of a header is an address in one of the two lists (`Entries`).  A
  host gives every entry of its own a code, so an address in both lists gets two:
  the receiver's `localOutcome` keeps the one of the last entry (`LastCode`), while
  the sender records both in turn (`AfterToCodes`, then `ReadCodes`).  The entries of
  an exchange are validated in one step; the order of their codes, which both ends
  derive from the header, is left out but for to before add-to.
* One sender spells an address alike in the lists and rows of a message.  Hosts may
  differ on the case of its domain: `OwnCase` are the addresses whose domain is
  written as the receiver's configuration writes it.  Most of the code ignores case;
  `attachAddToRecipients` does not (`store.go:383`, `:421`).
* The verdict of the id service on a recipient (accept, unknown, full, not
  accepting) is any code in `Verdicts[a]`, and may change between attempts.
* A row is `<<unit, key>>`, the key an address, or a domain for a row of
  `msg_add_to_notify`; `row[r]` holds `time_delivered` (as `done`),
  `response_code`, `attempt_count` and `time_last_attempt`, `lockedBy[r]` the
  goroutine whose transaction locked it.
* A connection is a slot seen from both ends.  `rx` is how far the handler is;
  `open` turns false when the sender closes, while the handler may go on.  A slot
  is reused when both ends are done.

*Header and Intake.*

* Names that the code compares without case are equal names; `OwnCase` has the
  addresses that also pass the comparison with case when a batch is attached.  An
  address or file name that does not parse is `Malformed`; of a media type only
  matters whether it is known; the source address of a connection is the domain DNS vouches for.
* Sizes are small numbers, and their sums wrap at `Word` where the code adds in
  `uint32`; `storedSize` is an `int64` and does not wrap.
* The host challenges nobody (`FMSG_CHALLENGE_MODE=NEVER`).  Temporary files are
  left out: they belong to one handler and go with it.  Inbox files are named for
  recipient, second and suffix, so two messages in the same second have the same
  extension.  A failed copy may leave the file or remove it.
* The rows of a message and of its batches are looked up by hash.  A message that first
  arrived with a batch is loaded by the code from the earliest batch by `time_added`
  (`store.go:747`, `:811-822`); the model keeps what arrived first.
* The id service is external: the code reads its figures and adds to them; it
  starts new days by itself.

*Finalization.*

* A hash is the record of what was hashed.  The terminal flag stands for all the
  header's own columns, which are written and protected alike.  Payload files are
  left out.
* Each step is one statement.  What it writes shows when its transaction commits;
  what it locks is not available to others before (`READ COMMITTED`).  The clock is
  coarse and stands still while a transaction runs.
* Only messages written here are finalized.  The callers (the Web API) and the
  purge are outside the repository: they may send any statement at any time, and
  the purge is one step.

*Indicators.*

* A subject is its own hash: two hosts that hold it agree on its header.
* Times are ages, up to the span they are compared with.  Reading the clock and
  taking the lock are one step.  Domains and groups are taken in any order, as the
  code iterates over maps.  `rr` is kept modulo the number of addresses.
* `Datagrams` runs with the source check on.  `published` is the last notice put on
  the channel; `exact` and `seen` are history that no action reads.

### Steps of the sender

| Action | Code |
|---|---|
| `Finalize` | `Finalize`, `FinalizeBatch`: a draft becomes a sent unit (in detail in `Finalization`) |
| `Poll` | `findPendingTargets` from the ticker or a notification; the loop dispatches all it found first |
| `Dispatch` | a goroutine starts `deliverMessage`: reads batches, terminal parent and pending parent, and fixes the units to deliver |
| `SkipUnit` | nothing to lock, or the lock query failed |
| `RecordUnitInvalid` | `recordUnitInvalid` |
| `DeliverUnit` | `deliverUnit` to the point where the header is written |
| `ReadInit`, `ReadCodes` | the two reads and what is recorded after each, with the commit |
| `ConnectionLost`, `Timeout` | early returns; `recordRetryableFailure` in the deferred call |
| `DeadlockVictim` | PostgreSQL aborts a transaction in a cycle of waiting updates |
| `SenderCrash` | the process dies |

An update waits for rows locked by other transactions, so an outcome is enabled
only when nobody blocks it (`EndUnit`).  Recording, commit, unlocking and closing
the connection are one step: nobody can observe them apart, except that after a
failed read the code closes the connection before it waits for the rows.  The
handler of such a connection may abort a little earlier than the model lets it do
without a failure.

### Steps of a handler

In `Receiver`: `ReadHeader` decides from the store as it is then;
`RespondToHeader` follows the challenge and, for code 11, stores the batch before
the byte goes out; `ValidateRecipients` reads the store again;
`StoreAcceptedMessage` stores and answers; `RespondUndisclosed` and `Abort` are the
error paths.  Between them other handlers, of retries too, run.  A failed commit may
have taken effect, at either place where the code reports one.

In `Intake`:

| Action | Code |
|---|---|
| `Arrive` | `handleConn` starts |
| `ReadHeader` | `readHeader` with all it calls, and the code written |
| `Download` | `prepareMessageData`, the message hash |
| `CheckRecipient` | one turn of the loop: `validateMsgRecvForAddr`, `uniqueFilepath` |
| `Copy`, `CopyFails`, `PersistFails` | `copyMessagePayload`, `Preserve`, `persistAttachmentPayloads` |
| `StoreAcceptedMessage`, `StoreFails`, `StoreNothing` | `storeAcceptedMessage`, its failures, nobody accepts |
| `RecordRecvUsage` | `recordRecvUsage`, the codes written |
| `StoreMsgHeaderOnly` | code 11 |
| `GiveUp` | read deadline and every early return, with the deferred removals |
| `NewDay` | the id service (external) |

### Steps of a transaction

| Action | Code |
|---|---|
| `Load`, `Stamp`, `SealBatch`, `CommitMessage` | `Finalize`: load and prepare, update of `msg`, each unsealed batch, commit with `require_sent_msg_hash` |
| `AddBatch`, `FinalizeBatch`, `CommitBatch` | a batch is inserted, sealed if its message is sent, committed with `require_sent_batch_hash` |
| `InsertRecipient`, `DeleteRecipient`, `ProtectMsgParts` | an edit and the trigger that judges it; likewise of a batch |
| `CreateDraft`, `UpdateColumn`, `Purge` | the other statements of the callers, with their triggers |
| `Rollback` | any failure |

### Steps of indicators

| Action | Code |
|---|---|
| `HandleNotice`, `Offer` | `handleNotice`, `offer` in the listener |
| `Flush` | `flush` in the flusher, with `windowLimiter.prune` |
| `Allow`, `Transmit` | the two halves of `sendTo`, in either goroutine |
| `Publish`, `Reconnect` | notices on the channel; those lost with its connection |
| `Serve` | `serve`: `sourceLimiter.allow`, a worker |
| `Verify`, `Resolve`, `Answer`, `Fill` | `verifyAndPublish` and `sendTo` up to `ipCache.get`, its lookup, and what it does with the answer |
| `Notify`, `QueryFails` | the end of `verifyAndPublish` |
| `Move` | DNS (external) |

## 3. What is checked

### Properties that hold

| Run | Instance | Properties |
|---|---|---|
| `batch` | original to one domain, a batch that adds a recipient at a second one and notifies the first | `NotifiedIsRecorded`, `DeliveredBatchIsRecorded`, `IInv`, `ImplementsMailbox` |
| `partial` | two recipients at one domain, one of whom may be full | `DeliveredIsReceived`, `DuplicateIsReceived`, `RefusedDuplicateIsReceived`, `AcceptMeansStored`, `SettledIsFinal`, `BackoffIsHonoured` |
| `reply` | a message, a terminal reply to it and a reply to that, at two domains; a recipient may be full; fair | `ReplyNeverOvertakesParent`, `DueIsAttempted` |
| `overlap` | two batches that add one recipient, the second also one of another domain; fair | `OneAttemptPerRow`, `LocksAreHeld`, `DueIsAttempted` |
| `outgoing` | three deliveries, two hashes, two addresses, a challenger | `TypeOK`, `NoStaleRecord`, `OnlyInFlightIsAnswered` |
| `intake` | one header with up to two fields changed, or three messages that compete for a quota, or two of which one's sender falls silent; fair | `TypeOK`, `StoredIsWhole`, `OverrunIsBounded`, `HeaderAgrees`, `HandlersReturn` |
| `finalization` | two messages, two batches, two recipients, two transactions at a time | `TypeOK`, `SealedMatchesRows`, `NoUnsealedUnit`, `BatchFollowsMessage`, `ReplyNamesItsParent`, `SealedIsFinal` |
| `indicators` | a message that came with a batch, notices for it, fair | `TypeOK`, `Attributed`, `LatestIsKept`, `SendRate`, `IntervalKept`, `HeldIsFlushed` |
| `datagrams` | datagrams from two addresses, tables of one entry, DNS that changes | `TypeOK`, `ForgettingIsInvisible`, `TablesAreBounded`, `CacheIsFresh`, `PublishedIsVouchedFor` |

The properties are stated, with the code they are about, at the end of their
modules.  Some of them say more than their names:

* `ImplementsMailbox` is a refinement.  `Mailbox` knows neither hosts nor
  connections: recipients get what was posted to them, keep it, and are confirmed
  after that.  The mapping takes the sent units for `posted`, the receivers' rows
  for `inbox` and the sender's delivered rows for `confirmed`.
* `DueIsAttempted` says of every row for another domain that it keeps ceasing to be due
  (attempted, settled, backed off or too old), or that it is a reply held back for ever
  (`HeldBack`) for a parent of which no row is due any more.  In `reply` the parent may
  be full until its age limit, the reply waits, and the reply to the terminal message
  must be settled without being sent.  In `overlap` a goroutine for one domain locks
  rows of the other, the other goroutine skips them, and each waits at its outcome for
  a row the other holds until PostgreSQL aborts one.  Without the exception `reply`
  has a counterexample, without strong fairness of the outcomes `overlap` has.
* `IInv` holds, beside types, locks and the properties it names, the promises of
  connections (`Kept`): what a code on the wire says is true of the receiver's store.
* `HeaderAgrees` compares two formulations of the header exchange: the code's, in
  which the first broken check decides, with the specification's rules taken
  without an order.  A header that breaks none must be answered as SPEC.md 10.4
  says; one that breaks some, with the code of one of them.  `Comparable` says where
  the comparison is not made, because the code is known to differ: sums of sizes that
  wrap, a repeated to address, a parent whose files are gone, a reply to a message by
  somebody whom only a batch added to it (all below), and a parent hash that a stored
  message shares with a batch.  Whose reply is allowed is the specification's rule
  (`SpecParticipants`), not the code's.
* `OverrunIsBounded` is what is left of a quota that is checked before the download
  and charged after the store: the overrun is at most one message less than the
  handlers can hold at once.  `Unreported(a)` is the set of entries for `a`, by handler,
  that are accepted, or about to be, and not reported; `InFlight(a)` has an element for
  every unit of their sizes.  A lost report takes its entry out of both, unpaid.
* `ForgettingIsInvisible` compares the limiter with one that never forgets.

### Disagreements with the documents

Each of these runs ends in a counterexample: the code does something that the
specification or a comment rules out.  The line quoted is in `PROJECT.json`.

| Run | Property | What happens |
|---|---|---|
| `retry_after_full` | `UndisclosedOnlyOnFailure` | a and b at one host; b is full.  The retry for b collides with the stored message, and 105 settles the row: b never gets the message. |
| `overlap_lost` | `DeliveredBatchIsRecorded` | delivering one batch marks the same address delivered in another, which is never transmitted. |
| `same_second` | `FileIsOwn` | two handlers with messages of one second for one recipient find the same name free; the second truncates the file of the first. |

`overlap_lost` limits `DeliveredBatchIsRecorded` and `SettledIsFinal` to messages
whose batches share no recipient; the passing runs `batch` and `partial` are such.
The run `overlap`, which is not, checks neither.
`FileIsOwn` is left out of the run `intake` for the same reason.

Modelling showed more differences, which are not kept as runs.

In delivery:

* An address in both lists is answered twice, and the sender records both codes of its
  row (`sender.go:694-706`): 200 and then another code, as when the first copy fills
  the quota, leaves `time_delivered` set.  The receiver's `localOutcome` keeps the last
  code (`host.go:1723`) and stores the recipient undelivered.  An instance with such a
  batch violates `DeliveredIsReceived` in the model, and keeps `IInv`.
  `SPEC.md:290` allows such batches.
* A recipient whose domain is spelled in another case than the host's is answered 200,
  since `localRecipients` compares with `EqualFold`, but a batch attached to a stored
  message leaves its row undelivered and marked as another host's
  (`store.go:383`, `:421`).  An instance with one violates `AcceptMeansStored` in the
  model, and keeps `IInv`.
* A batch attached to a stored message marks every local recipient of the batch
  delivered, one answered 100 or 102 in the same exchange included
  (`store.go:383`, `:421`), though the comment at `host.go:1559` says each row
  records the code given.
* A to recipient refused when the original arrived, and accepted when a batch
  brings the message again, is answered 200 and keeps its undelivered row (`ON
  CONFLICT DO NOTHING`, `store.go:372-433`).  This limits `AcceptMeansStored` to
  messages without batches, and `Kept` to the recipients a unit is sent for.
* After a completed challenge, a batch all of whose local recipients have the
  message is refused with 10 by a host that never recorded it
  (`resolvePostChallengeCode`, `host.go:1742`; `SPEC.md:238` asks for 65).  This
  limits `RefusedDuplicateIsReceived` to originals.
* A reply is held back for a parent that is past its age limit and will not be
  tried again (`parentPendingForDomain`, `sender.go:426`), until its own age limit.
* The handler of a connection given up and the handler of its retry both record a
  batch (`store.go:337-364`), which `SPEC.md:237` treats as a duplicate.
* Of two deliveries of one header to one address, the first to end removes the
  record of both (`outgoing.go:57-66`), and challenges of the second fail.

In the header exchange and the download:

* Sums of sizes wrap in `uint32`, so that a total beyond 2^32 passes; so does
  `srcSize*8/10` in `deflate.go`.  The download deadline counts the body alone.
* A repeated to address closes the connection without a code, where step 3 of the
  specification says 1; so does a parent whose files are gone, where it says 6.
* The time and size codes are answered before the sender's address is checked.
* Anyone in any batch of a message may reply to its original: `isParentParticipant`
  (`host.go:388`) looks through all that `loadMsg` returns and answers 64, where
  `SPEC.md:298` makes such a recipient a participant of the batch only and asks for 1.
  Dropping the last conjunct of `Comparable` shows it in the run `intake`: dan, whom a
  batch added to the stored message, replies to it.
* An address in both lists is checked twice against the same usage and charged
  twice, which is why `OverrunIsBounded` counts entries, not messages.

In finalization and indicators:

* A draft with batches can be made terminal before it is sent: the trigger
  (`dd.sql:172-174`) looks only when the batch is inserted.  The sender records
  such units invalid.
* The listener and the flusher send after they have decided, so a datagram of the
  flusher may leave after a newer one of the listener (`indicators.go:843-844`).
  `LatestIsKept` is about decisions.

### Bounds

*Delivery.*  Two goroutines and two connections are enough for every pair of
actors to interleave, including a late handler beside the one of the retry.  A
fault may be any failure at any step, a crash included: `MaxFaults` is 1 in `batch`,
2 in `partial`, where the retry may fail as well, and 0 in the fair runs, where rows
are delayed by locks, deadlocks, stale polls and full recipients, and in the runs
that need no failure to end in a counterexample.  Failures with liveness are beyond
what can be checked with two connections; `overlap` with one connection and one
failure holds too, and that no failure leaves a lock behind is `LocksAreHeld`, part of
`IInv` in `batch`.  The clock (`MaxTime`) runs to 1
in `batch`, to 2 in `reply`, where the parent reaches its age limit, and to 4 in
`partial` and `retry_after_full`, where retries come due and back off, with a retry
interval of 0 or 1 and an age limit of 2 to 4; `overlap` and `overlap_lost` need no
time to pass.  Both challenge modes are explored in `batch` and `partial`.  `Workers`
and `Conns` are symmetric in the runs `batch` and `partial`.

*Intake.*  Headers start from four (a plain message, a reply, a batch added by the
author and one added by a recipient), with up to two changes out of some forty, so
that every rule is broken alone and with every other.  Three messages in two slots
let one check, one store and one report overlap; eve's quota admits one and not
two of them.  One failure, one midnight.

*Finalization.*  Any two statements of two transactions interleave; seven
transactions create two messages, edit them, add a batch, send and purge.  The clock
moves once, so a batch may wait in a draft.  All four sets are symmetric.

*Indicators.*  Three notices with an interval and a window of two ticks: one
decided, one held, one to replace or clear it.  The rate is met exactly by two
domains and two datagrams.  Ages are capped, so the clock needs no bound.

*Datagrams.*  One worker and one goroutine that sends overlap in the cache; tables
of one entry are full at once; three datagrams empty a bucket of two; three ticks
outlive both lifetimes of a cache entry.  DNS changes once, between an answer that
counts and one that does not.

No symmetry is used for liveness.  Deadlock is checked in `outgoing` and
`indicators`; elsewhere, when everything is settled and the bounds are reached, the
system really is at rest.

### Fairness

All fairness is weak, but for one action.

* `Delivery`: for `Poll`, because the ticker of `startSender` never stops; for each
  goroutine, because it runs on its own and its reads have deadlines; for each
  handler, because it runs until it answers, its peer is gone or its own read
  deadline passes.  Recording an outcome (`RecordOutcome`) is strongly fair: a
  transaction that waits for a row lock queues for it in PostgreSQL and gets it when it
  is released, whereas the lock queries of later polls skip the row
  (`FOR UPDATE SKIP LOCKED`).  Nothing is assumed of time, failures or the finalization of
  messages.  The handler's challenge is the exception in the code: `challenge`
  (`host.go:1228`) reads without a deadline.  Even a stuck handler would not stop
  the sender, whose read then ends in a `Timeout`, but in the model timeouts are
  failures and bounded, so handlers are assumed to go on.
* `Intake`: for each handler.  Every read of `handleConn` has a deadline, the
  handler's peer may be silent for ever (`Stalled`), and the host challenges nobody.
  Requests to the id service are taken to return.
* `Indicators`: for the listener and the flusher, which are loops whose queries and
  lookups have deadlines, and for time, which the interval waits for.

## 4. What is proved

`DeliveryProofs` proves, for any sets of messages, units, recipients, domains,
goroutines and connections, any verdicts and any bound on failures, under the
named assumptions `WireAssumption`, `SenderAssumption` and `ReceiverAssumption`:

* `Invariance`: `Spec => []IInv`;
* `TypeCorrect`, `NoFalseNotification` (`NotifiedIsRecorded`), `NoFalseDuplicate`
  (`DuplicateIsReceived`), `NoLeakedLock` (`LocksAreHeld`), `NoDoubleAttempt`
  (`OneAttemptPerRow`);
* `NoFalseDelivery` (`DeliveredIsReceived`) and `Refinement` (`ImplementsMailbox`), under
  `BatchesAreNew`: no batch adds an address that the message has in its to list, or
  one whose domain the receiver writes in another case.  Where a batch does, the code
  marks rows delivered that are not (section 3), and the theorems would be false.
  Batches may share recipients with each other.

`IInv` has of `DeliveredIsReceived` what holds for any batches:
`PlainDeliveredIsReceived`, of all recipients of originals and of those of batches that
satisfy the condition one by one (`Plain`).  Under `BatchesAreNew` all recipients are
plain.  It is not inductive: a step that records 200 is right only if
the byte read was.  `IInv` adds

* `Engaged`: a busy goroutine's connection is open and about the goroutine's unit
  and domain, and every row it will record is locked by it;
* `NoSharing`: no two busy goroutines have the same connection, so closing one
  does not end another;
* `Promises` (`Kept`): what a connection carries is true at the receiver.  Code
  11 means the batch is recorded and the domain has no recipient of it, 103 that
  the recipient has the message from the moment it is decided, 200 that it has it
  once the answer is out.

The argument: what is stored is never lost, so promises stay kept; a handler
makes a promise in the step that stores (`StoreFacts`, `AttachFacts`), or after
reading what is stored; a goroutine records only codes of its own connection
for its own keys (`BusyFacts`); rows of other batches recorded along with them
have the same message and address (`RecordIsTrue`).  The steps are grouped by
what they touch: `OutcomeKeepsIInv` for every way a unit ends, `QuietStep` for
steps without connections, `HandlerKeepsIInv` for handlers.  TLC checks `IInv` in
the run `batch`.

Of 200, `Kept` speaks only of plain recipients that a unit is sent for: of a batch's
to recipients, and of those that are not plain, it is false (section 3).

The last theorem of the module is `Refinement`: `BatchesAreNew` implies
`Spec => ImplementsMailbox`.  A step of the sender confirms rows or sends a unit, never both; that
what it confirms has arrived is `NoFalseDelivery` after the step.  A step of a
handler stores, and what it stores must have been posted.  That takes one more
invariant, `Announced`: a connection carries a unit that was sent, and a batch is
sent only after its message.  `SenderEffect` and `FinalizeEffect` say what a step of
the sender does to rows and sending times, `SenderConnections` and
`HandlerConnections` what is done to connections, `HandlerStores` what a handler may
add; `StepRefines` puts them together.

`SettlementProofs` goes on from there: what the sender settles, and what it is told.

| Theorem | Property | Holds |
|---|---|---|
| `NoFalseRefusal` | `RefusedDuplicateIsReceived` | always |
| `SettledStays` | `SettledIsFinal` | under `Separate` |
| `BackoffKept` | `BackoffIsHonoured` | under `Separate` |
| `BatchArrives` | `DeliveredBatchIsRecorded` | under `Separate` |
| `AnswersAreTrue` | `AcceptMeansStored` | if there are no batches |
| `RepliesWait` | `ReplyNeverOvertakesParent` | under `Separate`, if there are no batches |

The conditions are what section 3 shows the code to need, and the theorems state
them as hypotheses.  `Separate` says that no two units of a message in the same table
share a recipient.  Where they do, recording one unit's outcome writes the other's
row without its lock: the run `overlap_lost` is the counterexample.  The instances of
`batch`, `partial` and `reply` satisfy it.  With batches, 200 may be answered for a to
recipient whose row stays undelivered, and the rows of a parent may be settled by a
batch that is sent later, so that "pending parent" is no longer something that ends
once.

* `SInv` adds to `IInv` and `Announced` that a locked row is due (`LockedIsDue`: what
  the lock query looked at stays so, because whoever writes the row waits for the
  lock) and what connections say besides `Kept` (`Told`: the codes a header may be
  answered with, 10 for an original only if all have it, 200 for a recipient that a
  batch added only if the batch is recorded).
* `WrittenIsDue`: under `Separate` a goroutine writes only rows that it has locked,
  hence due ones.  That gives `SettledStays` and `BackoffKept`, which are about steps.
* `RInv` is for replies: a parent that is not pending never becomes pending again
  (its rows are settled, and settled stays), so what `parentPendingForDomain` found
  before the lock and the dial is still so when the header is read (`TodoCleared`,
  `ConnsCleared`).  A parent that is not pending was received or refused; received
  means stored (`ReceivedIsStored`), so code 6 is left for a refused parent.

`OutgoingProofs` proves `TypeCorrect`, `RecordIsFresh` (`NoStaleRecord`) and
`ChallengesAreOfDeliveries` (`OnlyInFlightIsAnswered`) for any deliveries, hashes
and addresses; the lemma about removal says that it leaves other entries alone.

`HeaderProofs` proves `HeaderDecision`, under `HeaderAssumption`: for every header the
wire can carry (`IsHeader`), every clock and all typed rows, if `Comparable` holds, the
verdict of `ReadHeaderVerdict` is one that `SpecAllows`.  The code's checks form a
cascade of lists; `FirstDecides` says that the first broken rule of a list decides and
that no verdict means that none is broken.  Then each list is compared with the rules of
the specification on its own (`FlagsRead`, `AddressesRead`, `AddToRead`, `TimeRead`,
`SizesRead`, `ConcernRead`): a rule the code finds broken is broken there too, with the
same code.  `HeaderBreaksNothing` is the converse for all lists together; `AddToPathRead`
and `ReplyPathRead` are about the parents, which `ParentsAre` relates to the rows found.
What the lists rest on are facts about recursive functions (`LocalInType`, `TotalType`):
that a function with such an equation exists is shown in `ReadingExists`, and what it
returns follows from `LeastNumber`, by looking at the least number of elements read for
which it would be false.

`IntakeProofs` proves all safety properties of `Intake`, under `HeaderAssumption` and
`IntakeAssumption` (a hash stands for its header, and what is stored at first names its
files): `WireFormStays` (`StoredIsWhole`), `TypeCorrect` (`TypeOK`), `HeadersAgree`
(`HeaderAgrees`) and `OverrunBounded` (`OverrunIsBounded`).

* For `WireFormStays`, `Inv`: a handler that has accepted somebody has a file for the row
  to name and its wire form on disk (`HandlerOK`); no header arrives twice (`HashesOK`);
  no stored row has the wire form of a handler that may still give up (`RowOK`).
  Handlers in `HandlerGoesOn` remove only their own wire form and only before they
  store; those in `HandlerStores` store, whether or not they learn of it, and remove
  nothing after that.
* For `TypeCorrect`, `Typed`: a handler has one code per recipient it is through with and
  none before it counts (`HandlerTyped`); a batch without data has a stored parent
  (`NotifyOK`), so that its recipients are delivered of a stored message; files are
  finitely many, so that a free name exists (`FilepathIsTyped`, by the pigeonhole).
  `StepBecomes` names the handler a step leads to.
* `HeadersAgree` is `HeaderDecision` at the step that reads the header: under `Inv` and
  `Typed` the header and the rows are what that theorem asks for.
* For `OverrunBounded`, `Bounded(a)` is inductive given `Inv` and `Typed`.  A step that
  brings nothing new for `a` leaves less in flight (`StepHolds`, `LessInFlight`).  A check
  that accepts found what is reported and the new message within the limit; its entry is
  not yet among `Unreported(a)`, which leaves at most one less than the handlers can hold,
  each of them at most the largest (`TakesKeepsBound`).  A report adds at most what its
  handler held (`ReportKeepsBound`).  The counting is in `Fibres`: a set that falls into
  finitely many fibres of at most m elements each.

`FinalizationProofs` proves, under `FinalizationAssumption`, all properties of
`Finalization`: `TypeCorrect`, `IdentityMatchesRows` (`SealedMatchesRows`),
`EveryUnitSealed` (`NoUnsealedUnit`), `BatchTimeFollows` (`BatchFollowsMessage`),
`ParentOfReply` (`ReplyNamesItsParent`) and `SentStays` (`SealedIsFinal`).  A hash is
right at the commit only if what it was made of is still there, so the invariant ties
what a transaction has read to the locks it holds:

* `Exclusion`: FOR UPDATE excludes every other lock on the message, and a batch row
  has one writer;
* `Finalizing`: the row that `Finalize` has stamped is still the draft in the
  database, and the batches it has sealed or will seal are still open there;
* `Adding`: a new batch is not in the database yet, and once sealed it belongs with
  the message that is there; `Editing`: an edit has its message;
* `Ages`: nothing is of the future, and a sealed batch has a sent message.

`TransactionGoesOn` is for statements that write nothing but their transaction; the
commits, the edits and the purge have lemmas of their own.  That no batch can join
between `Stamp` and the commit is `Exclusion`: its insertion holds KEY SHARE.

`DatagramsProofs` proves, under `SubjectsAssumption` and `DatagramsAssumption`, all
properties of `Datagrams`: `TypeCorrect`, `PruneIsInvisible`
(`ForgettingIsInvisible`), `TablesBounded` (`TablesAreBounded`), `CacheStaysFresh`
(`CacheIsFresh`) and `PublishedVouched` (`PublishedIsVouchedFor`).  The invariant goes
part by part: the limiter's buckets are those of the limiter that never forgets
(`LimiterOK`; the lemma about refilling says that a bucket left alone for the prune
span is full); a cache entry expires its lifetime after a time at or after which DNS
gave the answer (`CacheOK`); a lookup is of the domain its datagram claims, and its
answer was DNS's after it was asked for (`TaskOK`); what waits for publication is
vouched for (`NoticeOK`).  That the tables are finite sets is part of it, for their
cardinality.

`IndicatorsProofs` proves, under `SubjectsAssumption` and `IndicatorsAssumption`, all
safety properties of `Indicators`: `TypeCorrect`, `DatagramsAttributed` (`Attributed`),
`LatestKept` (`LatestIsKept`), `RateKept` (`SendRate`) and `IntervalIsKept`
(`IntervalKept`).  The invariant: groups in hand are newer than all that was offered
for their keys, and each has a key of its own (`GroupsOK`); the age in the table is that
of the last change decided on, forgotten or not (`PendingOK`); whatever is held or
about to be sent names its participant (`Named`); the ring of a domain holds the newest
of the datagrams let through, in a circle once it is full, and those it does not hold
are out of the window (`RateOK`).  That hosts number participants alike comes from the
definition of the targets: an index is looked up in the list the other host derives.

**Only model-checked.**  Liveness under fairness, which is out of the prover's reach:
`DueIsAttempted`, `HandlersReturn`, `HeldIsFlushed`.

Outside the conditions of `DeliveryProofs` and `SettlementProofs` their conditional
properties are neither proved nor checked: there the code does not have them (section 3).

## 5. Not modelled

* The emoji tables and their generator: generated data and a lookup.
* Compression (`deflate.go`) and the byte encoding of headers, datagrams and
  topics: pure transformations of bytes.  What is left of them is which fields a
  hash covers and which sizes are compared.
* TLS, configuration and start-up; the exchange of bytes with DNS, the id service
  and the database: input and output.
* `postMsgStatSend`: a report nothing depends on.
* The relational parent link (`resolveMsgParentLinks`) and the walk of a thread
  (`threadHasFromDomain`), which is a recursive query over it.
* The triggers that only notify: a notification is a `Poll` of the sender or a
  `Publish` of the indicators.
* Finalizing a batch of a message that was itself received.

## 6. Plan

1. *Done*: the modules above, their runs, and the proofs of section 4.
2. Weaker conditions for `AnswersAreTrue` and `RepliesWait`, which hold for messages
   without batches: what is true of a message with batches that are sent after it was
   settled.
3. The parent link of stored messages and the walk of a thread over it.

## 7. Running it

    tlc -workers 2 -config Batch.cfg MCDelivery
    tlc -workers 2 -config Intake.cfg MCIntake
    tlc -workers 2 -config Finalization.cfg MCFinalization
    tlc -workers 2 -config Indicators.cfg MCIndicators
    tlc -workers 2 -config Datagrams.cfg MCDatagrams
    tlc -config Outgoing.cfg Outgoing
    tlapm DeliveryProofs.tla
    tlapm SettlementProofs.tla
    tlapm HeaderProofs.tla
    tlapm IntakeProofs.tla
    tlapm OutgoingProofs.tla
    tlapm FinalizationProofs.tla
    tlapm DatagramsProofs.tla
    tlapm IndicatorsProofs.tla

`PROJECT.json` lists the runs with their modules and configurations, the source
lines of every definition, the hazards, the findings and the theorems.
