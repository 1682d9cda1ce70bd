# StellarHunts: a TLA+ verification of the contracts and the backend

StellarHunts is an on-chain treasure hunt. Players answer questions level by
level; the **game contract** (Soroban, Rust) keeps the questions, the players'
progress, rewards and stakes, and mints badges on an **NFT contract**. A
**NestJS backend** runs beside it: it mints badges for players from a custodian
account, drains a transactional outbox, matches players for multiplayer games,
indexes contract events, and keeps accounts, wallets, rewards and the rest of the
product. A **Next.js frontend** presents both.

This directory holds TLA+ models of the parts in which the order of steps
decides whether the system is correct, the TLC configurations that check them on
small instances, and TLAPS proofs of nearly all their safety properties for all
instances. Paths below are relative to the repository (`onchain/...`,
`backend/...`).

## 1. Inventory

| Component | State | Operations | What is hard |
| --- | --- | --- | --- |
| Game: administration (`onchain/contracts/stellar_hunts`) | admin, pending admin, upgrader, roles, pause, schema version, NFT contract, code | init, two-step handover, roles, pause, re-pointing, upgrade, `migrate_schema` | settings change between any two calls of a player |
| Game: question bank | questions, retired flags, slots and counters of a per-level index, global and per-level caps | add, update (in place or moving), retire, two cap setters | two routines compact one index; the cap is compared with the index in three places |
| Game: player progress | player and level records in a legacy and a versioned layout | `submit_answer`, `claim_level_completion_nft`, lazy migration | cursors into a list that administrators compact; a cross-contract call followed by a flag |
| Game: rewards and staking | completed puzzles, reward settings, events, stakes | complete, claim (token and NFT), create event, stake, unstake, slash | several contracts in one call; ids that are reused; time windows |
| NFT contract (`stellar_hunts_nft`) | admin, pause, minters, badges, puzzle rewards | administration, `mint_level_badge`, `mint_puzzle_reward_nft` | called by the game, by the backend, and re-pointed |
| Outbox (`backend/src/outbox`) | event table; batches in memory | create, drain, claim, handle, record | instances with stale batches, retries, crashes |
| NFT claim (`backend/src/nft-claim`) | retry loop in memory; transactions on the network | build, submit, confirm, time limit, retry | attempts that go on after they timed out; ambiguous errors; one sequence number |
| Matchmaking (`backend/src/multiplayer-queue`) | queue and match tables; snapshots in memory | join, leave, poll, pass, cleanup | passes overlap with each other and with everything else |
| Event indexer (`backend/src/event-indexer`) | indexed rows; ledger cursor in memory | poll, restart, backfill (plain and forced) | one cursor for all contracts; pages cut a ledger; a backfill that deletes |
| Wallet login (`backend/src/wallet`) | challenges, wallet sessions, links to accounts | create, answer, prune, link, unlink, revoke | a challenge answered twice, or while it is pruned; two accounts link one wallet |
| Rewards (`backend/src/reward/reward.service.ts`) | rewards with a limit, claims | create, claim, delete | the limit is tested before the insertion, without a lock |
| Prize pool (`backend/src/reward/prize-pool.service.ts`) | pool row, audit trail | contribute, distribute, set rules | read-modify-write without a lock |
| Marketplace (`backend/src/nft-marketplace`) | listings, offers | list, offer, withdraw, answer, settle | one decision written in three statements |
| Streaks (`backend/src/streak`) | streak row, activity days | record, recalculate, reset, cleanup | recalculations from different snapshots, across midnight |
| Reviews (`backend/src/puzzle-review`) | review rows | write, edit, vote, report, moderate, auto-moderate | every request saves a copy of the row |
| Cache (`backend/src/cache`) | Redis entry, single-flight map, invalidation counter | get or load, store, invalidate | loads race with invalidations, in several processes |
| Wallet hook (`frontend/hooks/useWalletConnection.js`) | refs and state of the page; stored topic | poll, connect, pair, restore, disconnect | two kinds of wallet, and awaits in every handler |
| Accounts and tokens, shop, milestones, authoring, play, community, observation, the rest of platform and frontend | single-row records, logs, presentation | create, read, update, delete | little beyond a lost update; rotation of refresh tokens |

Interactions: the game calls the NFT contract and the token contract inside one
atomic invocation. The NFT claim service calls the NFT contract from outside,
through a network that may lose, delay and refuse. The backend services share
only the database, statement by statement; the timers of all instances fire
independently (`docs/background-job-policy.md`).

What makes each modelled component correct is listed with its run in section 4.
`PROJECT.json` lists every component, modelled or not, and every hazard at its
line.

## 2. Modules

| Module | Models | State ↔ code |
| --- | --- | --- |
| `GameAdmin` | settings of the game | one variable per `DataKey` of the settings; one action per entry point |
| `QuestionBank` (extends `GameAdmin`) | questions, index, caps | `slot[l][i]` is `QuestionsByLevel(l, i)`, `indexCount[l]` is `QuestionPerLevelIndex(l)`, 0 is a missing entry |
| `LevelOrder` | abstract promise of the bank | per level a set of live questions and the order in which they are asked |
| `StellarHuntsNft` | the NFT contract, once per deployed address | a badge is the minter recorded in it |
| `PlayerProgress` (extends `QuestionBank`, instantiates `StellarHuntsNft`) | answers, completion, badge claims, migration | `playerV1/V2`, `levelV1/V2` are the two layouts; `answered`, `compacted` are history |
| `HuntEconomy` (extends `QuestionBank`, instantiates `StellarHuntsNft`) | puzzle rewards, staking | `balance` is the external token contract, `payouts` is history |
| `Outbox` | the event table and its drains | `pc` is the statement an instance is at, `batch`/`copy` what it read, `failures`/`handled` are history |
| `NftClaim` (instantiates `StellarHuntsNft`) | the claim service, the network, the contract | `claim` is the retry loop, `at` an attempt, `tx` a transaction |
| `Matchmaking` | the queue and its passes | `at` is the statement a call is at, `plan` and `copies` what it holds in memory |
| `EventIndexer` | the indexer of contract events | `rows` is `indexed_events`, `cursor` is `latestIndexedLedger`, `poll` and `job` where the poller and a backfill stand; `movers`, `lost` are history |
| `PuzzleReview` | reviews and their moderation | `reviews` is the table, `request` the copy (or the changed columns) a request holds; `approvals`, `torn` are history |
| `RewardClaims` | rewards and claims | `claimer` is a transaction under way |
| `PrizePool` | the pool of one season | `tx` is a transaction with the copy it computed and the audit rows it will commit; `pool.rules` is what the rules hand out to the first places, in percent; `audit` adds up the audit rows |
| `NftMarketplace` | listings and offers | `trade` is the statement a request is at, with the copy of the listing (`row`) and the columns it found to differ; `accepted`, `stranded`, `mixed`, `disturbed` are history |
| `CacheService` | one cached key, in several processes | `inFlight`, `invalidationVersion` are the fields of the class, `wire` the commands on a connection; `invalidated` is history |
| `Streaks` | the streak of one user | `streak` and `activities` are the tables, `worker` what a request has read; `computedFrom`, `tornStreak` are history |
| `WalletLogin` | challenges, wallet sessions, links | `challenge`, `session`, `walletOf` are the tables, `login` the statement a request is at; `answered` is history |
| `WalletSession` | the wallet hook of a page | `wallet` are the refs and states of the hook; one variable per handler under way; `clobbered` is history |
| `MCPlayerProgress`, `MCHuntEconomy`, `MCMatchmaking` | instances for TLC | a configured start and a bound on configuration steps; a set of profiles |
| `MCServices` | the nine services above, one behaviour for each | `service` says which of them moves; `MarketBound` bounds the marketplace |
| `QuestionBankProofs`, `PlayerProgressProofs`, `HuntEconomyProofs` | theorems about the game contract | each extends the module it is about |
| `NftClaimProofs`, `OutboxProofs`, `MatchmakingProofs`, `WalletLoginProofs` | theorems about these services | |
| `ServicesProofs` (extends `MCServices`, `WalletLoginProofs`) | theorems about the other eight services of `MCServices`, and about their composition | one section each; only the last, on the composition, uses the others |

Definitions called a *slip* in a comment are plausible mistakes (a dropped guard,
a missing reset). No specification uses them; each is put in place of the
definition it imitates to see that the property it names would notice.

### Conventions

- **Contracts.** A Soroban invocation is atomic: it commits all its writes,
  cross-contract calls included, or panics and commits none. An action is a
  committed invocation; a panic is a stuttering step. `require_auth(x)` means
  that only `x` takes the step, so it leaves no trace but the existence of `x`.
- **Backend.** One database statement (or committed transaction) is one step; a
  handler is the sequence of its statements, with every other actor in between.
  TypeORM's `save` of an entity reads its row, compares, and writes the columns
  that differ. `PrizePool`, `PuzzleReview`, `Streaks` and, for listings,
  `NftMarketplace` model it as these two steps, because there the columns of
  different requests can mix. Of an offer of the marketplace only the status is
  ever saved again, so one step is exact: it is the write, or the comparison when
  that finds nothing to write. In `Matchmaking` and `WalletLogin` a save is one
  step that overwrites the row with the copy (what could come between the
  comparison and the write is left out; what is stated about the rows is stated
  column by column), and so it is in `Outbox`, where that is exact, because the
  instance holds the event.
- **Frontend.** JavaScript runs to the next `await`: that is one step.
- **Data.** Texts, hashes, hints, metadata and payloads are left out. Whether an
  answer is right is an input (`correct`). The id of a match is the pair it is
  for. `waitTime` is whether it exceeds two minutes.
- **Bounds** are constants: `MaxQuestionCount`, `MaxQuestionsPerLevel`,
  `MaxLedger`, `MaxTime`, `MaxConfigSteps`, `NumEvents`, `NumEntries`,
  `MaxFaults` for the first six parts; `NumChainEvents`, `MaxLedger`,
  `MaxBackfills`, `MaxIndexerFaults`, `MaxVersions`, `AutoFlagCount`, `MaxClaims`,
  `MaxTransactions`, `MaxMarketFaults`, `MarketBound`, `MaxWrites`,
  `MaxCacheFaults`, `MaxDay`, `MaxReloads`, and the sets of requests for the
  services. At a bound the actions it guards are disabled, so the model may stop
  where the system would not. That is why the configurations do not check
  for deadlock; liveness is stated where progress matters.

## 3. How the parts are modelled

**Question bank.** `AddQuestion`, `UpdateInPlace`/`MoveQuestion` (the branches of
`update_question`), `RetireQuestion` and the two cap setters, each with the
index helpers it calls (`Appended`, `Compacted`, `CapForLevel`). The start is an
empty contract or one left by a pre-versioning deployment.

**Player progress.** `SubmitAnswer` is the whole entry point: initialisation of an
unknown player, question checks, the pacing check (one attempt per ledger and
level), the cursor, completion against the cap in force, and the writes that
migrate a record. `ClaimLevelNft` calls the NFT contract and then sets the flag.
Administrators, minters of the NFT contract and the closing of ledgers
interleave freely.

*A cursor after a compaction.* `PlayerLevelProgress.last_question_index` is an
index into the level's list. After a question before it was moved or retired it
stands one question further than the player answered: a question is skipped, or,
for a moved question, asked again on the other level. There is no entry point
that repairs it. `CursorCountsAnswers` therefore speaks of levels whose index
never lost a question (`compacted`).

**Rewards and staking.** `CompletePuzzle` and `ClaimPuzzleReward` pay through
`Payout`, which fails, and with it the call, when the game has not enough of the
token. `claim_puzzle_reward` pays each time it is called: the code records no
payment, and the model follows it. `CreateEvent` replaces an event with the same
id; stakes refer to ids.

**Outbox.** A drain reads a batch (`StartDrain`), and for each event claims it by a
conditional update (`Claim`, `SkipClaimed`), runs the handler
(`HandlerSucceeds`, `HandlerFails`) and records the outcome (`MarkAsProcessed`,
`HandleFailure`). `HandleFailure` saves the copy read with the batch. Faults: a
statement that reports an error, applied or not (`ClaimErrs`, `MarkErrs`), and
the death of an instance (`Dies`). An event left in `PROCESSING` is read by no
drain; `Stranded` names it.

**NFT claim.** Up to `maxRetries` attempts; `TimeOut` abandons the wait but not the
attempt. `Build` loads the custodian's sequence number; `fresh` are the
transactions built on the current one. The network may accept a submission and
answer with an error, include, drop or expire a transaction.

**Matchmaking.** A pass (`ScanQueue`, then one `CreateMatch` per pair) works on the
copies of its snapshot; `LeaveQueue`, `GetQueueStatus` and `GetQueueList` read
entries and save them in a second step. So, as in the code, a leaving player can
be matched after all, a poll can put a matched player back into the queue, a
player can be in two matches, and a row that the nightly cleanup deleted can be
inserted again. TLC reaches all of these in the configuration below; the
properties say what holds nevertheless. `PairsInGroup` is the greedy algorithm:
take the strongest edge, drop its players, repeat.

**Event indexer.** `PollFetch` asks for a page of one contract from the shared
cursor on; the RPC answers with the oldest events that fit, or not at all.
`PollInsert` stores them one statement at a time, `EndOfPage` moves the cursor
after the last. `RestartIndexer` takes the cursor from the newest row. A backfill
runs beside the poller; a forced one first deletes the rows of its contract from
its own position on. Since the table has no unique key besides its generated one,
`orIgnore` ignores nothing and rows are stored again on every poll.

**Reviews.** Every request but a creation reads the row (`ReadReview`), decides from
its copy and saves it (`SaveReview` compares, `WriteReview` writes). Texts are
version numbers. The validation of an edit insists on a rating, so every edit that
gets as far as a save resets the status to pending; words that creation would have
flagged are not looked at. `bulkModerateReviews` repeats `Moderate`.

**Rewards.** `BeginClaim` finds neither the key nor a claim of the user; `ReadReward`
tests the limit; `CommitClaim` inserts, increments and commits. A violated unique
constraint aborts the transaction (`RollBack`).

**Prize pool.** `FundPool`, `DistributePool` and `SetDistributionRules` compute a copy
of the row; `CompareRow` and `WriteRow` (or `InsertPool`) save it and commit with
the audit rows. Rules are given by what they hand out to the first place, the first
two, and so on, in whole percents; `HandedOut` cuts them to the number of finishers, as
`resolveShares` does, so that one finisher gets half of a pool under the default rules
and the rest stays in it. `setDistributionRules` checks nothing, and neither does the
model: that the fractions add up to at most 1.0 is only a comment
(`backend/src/reward/prize-pool.service.ts:146`), and `Left` is the clamp at zero for
rules that exceed the whole. Amounts are numbers of the seventh decimal place.
`toFixed(7)` rounds every payout in its own record but the totals of the pool only once,
so the two may differ: `Rounded` is the set of what such numbers may add up to, with
either way of deciding a tie. Left out are rules whose places are not numbers,
negative fractions but as places that get nothing, and amounts too large for a double.

**Marketplace.** The offer and the listing are read first, with the checks, and then
saved one after the other. An acceptance saves the offer (`AcceptOffer`), then the
listing (`CompareListing`, `WriteListing`), then outbids the other offers
(`OutbidOffers`). A settlement looks for an accepted offer (`FindAccepted`), ends with an
error when there is none, and saves the listing with its buyer. `FailTrade` ends a
request between two statements.

**Cache.** `getOrSet` is `BeginGet`, then, after a miss, `JoinOrLoad`, `Load`, `Store`.
A writer changes the record and then invalidates it, by key or by prefix. Commands
travel over one ordered connection per process and are run by Redis one at a
time; they may fail.

**Streaks.** A recalculation reads the row, then the activities, then the clock, and
saves. `Calculate` is the calculation service as a pure operator over day indexes:
the current run, the longest run and the start day; the invariant compares it with
the definition of a run of consecutive days.

**Wallet login.** `ReadChallenge` and `ConsumeChallenge` are the two halves of
`verifySignature`, the second a conditional update. What follows is either a
session (`FindUserByWallet`, `IssueSession`) or a link (`FindOwner`, `SaveWallet`).

**Wallet hook.** `refresh` is three steps, because it awaits the extension twice;
pairing, approval, restore and connect are steps of their own. Restoring ends
before an approval can, since both wait for the same client.

**The services together.** `MCServices` checks the nine services in one run. They
share no variable, and each invariant reads the variables of one of them, so a
behaviour in which one service moves and the others stay where they began shows
whatever an interleaving of all would show of it. The state space is the sum of
theirs instead of the product. It is reduced by the symmetry of the two requests
`t1` and `t2`, which no service tells apart; the run has no liveness property.

## 4. What is checked

| Run | Instance | Properties |
| --- | --- | --- |
| `question_bank` | 2 levels, 3 questions, 3 slots, caps 1, 3 and an illegal 4, from an empty and a legacy deployment | `TypeOK`; `IndexInvariant` (the first N slots of a level are its live questions, once each, the rest is empty); `LevelCapCoversIndex`; `ImplementsLevelOrder` (refinement of `LevelOrder`: no operation reorders the questions that stay or revives a retired one) |
| `player_progress` | 1 player, 2 levels, 3 questions, 2 NFT contracts, 3 ledgers, 3 configuration steps | `HuntTypeOK`; `RecordsAreConsistent`; `ProgressIsPaced`; `CursorCountsAnswers`; `BadgeAgreesWithProgress`; `ProgressNeverLost` |
| `hunt_economy` | 1 player, 2 puzzles, 2 tokens, 2 NFT contracts, 1 event id with 3 windows, 3 configuration steps | `EconomyTypeOK`; `RewardsAreEarned`; `StakesAreBacked`; `SlashIsFinal` |
| `outbox` | 2 instances, 2 events (one without a handler), 3 attempts, 1 fault | `OutboxTypeOK`; `ClaimIsExclusive`; `AttemptsAreReal`; `StrandedOnlyByFaults`; `SettledStaysSettled`; `EventuallySettled` (liveness) |
| `nft_claim` | 2 claims for 1 player, 2 attempts each | `ClaimTypeOK`; `ConfirmedIsMinted`; `MintedOnce`; `AnsweredOnce`; `EventuallyAnswered` (liveness) |
| `matchmaking` | 1 timer, 1 request, 3 entries, 4 kinds of player, 1 fault | `MatchTypeOK`; `MatchesAreCompatible`; `MatchedIsNamed`; `PairingIsStable`; `PairsDoNotWait` (liveness) |
| `services` | 2 requests per service, 3 in the marketplace; 3 events, 2 contracts, 2 ledgers, pages of 2, 1 backfill, 1 fault; 1 review, 2 texts; 2 rewards of limit 1, 3 users; 5 pool transactions, rules that pay 60 and 120 percent, 1 or 3 finishers; 1 listing, 4 offers of 2 users, 1 fault; 2 processes, 2 calls, 2 writes, 1 fault; 3 days; 2 wallets, 2 accounts, 2 challenges; 2 WalletConnect sessions, 1 reload | `ServicesTypeOK`; `IndexIsComplete` (no gap behind the cursor); `PublishedTextWasApproved`; `ClaimsStayNearLimit` (the limit is passed by less than the transactions at a time); `PoolIsBacked` (never more money than the audit trail shows; without an overlap, one distribution, to the places reached under the rules in force, of their shares of all that was funded); `TradesFollowAcceptance` (what is in escrow or sold was accepted, the buyer made an accepted offer, only mixed saves part the status from the buyer, and several acceptances come only from answers that overlap or fail); `StaleOnlyByOthers`; `StreakIsBacked`; `ChallengeIsUsedOnce`; `OnlyLateRefreshesClobber` |

**Why these bounds suffice to meet the interesting cases.** Three questions in two
levels give a gap in the middle of a list, a move into a full level and a retired
question that is rewritten. Three ledgers let a player answer, be refused in the
same ledger and complete a level of two questions. Three configuration steps are
enough for each chain the properties fear: re-point the game, set up the other
contract, let it mint; retire, lower a cap, add. Two instances suffice for
stale batches, because a batch is stale as soon as one other instance moved. One
fault strands an event; the theorems cover any number. Two claims for one player
with two attempts give four transactions that race for one badge. In
`matchmaking` three entries give a choice of pairs and a leftover, and the fault
cuts off the pass after a join, so that entries pile up. In `services` two requests
overlap in every way two can; three events in two ledgers fill a page and cut a
ledger; rules beyond the whole and fewer finishers than places reach the clamp and
the trimming; three days give a run, a gap and a day that is neither today nor
yesterday. The marketplace has three requests, because that is how many it takes to
mix the columns of saves down to a sold listing without a buyer (stale acceptances
beside two settlements in a row; with two it is not reached), and four offers,
because a listing could be answered more often than there are requests. Of a third
request at a time, a third offer and a fault, `MarketBound` lets a behaviour have
one; the theorem has no such bound. `ResetAfterDays`, `DaysInactive`,
`FlagThreshold`, `AutoFlagCount` and the page sizes are smaller than the defaults of
the code (2, 30, 3, 5, 200 and 100), so that these limits are reached.

**Configured starts.** `MCPlayerProgress` and `MCHuntEconomy` start with an
initialised game, one initialised NFT contract and the first questions: a state
the specification itself reaches by administrative steps. The set-up itself is
left to `question_bank`.

**Fairness.** `Outbox`: the timer keeps firing, backoffs elapse, and handlers and
statements return (weak fairness of `StartDrain`, `BackoffElapses`, `Proceed`
per instance); nothing is assumed about which way a handler returns. `NftClaim`:
only the backend's timers, the limit on an attempt (`setTimeout` in a
`Promise.race`) and the pause before a retry; nothing about the network.
`Matchmaking`: the timers fire and their passes go on; nothing about clients,
who may poll and leave as they like. The contracts have no fairness.

### Where the code and its documentation disagree

Five runs look for a statement of the documentation and find it violated.

| Run | Statement | What happens |
| --- | --- | --- |
| `cap_completable` | comment at `onchain/contracts/stellar_hunts/src/lib.rs:703`: a cap that covers the index keeps the level completable for players in progress | a retirement or a move shortens the index, the cap follows, and the cursor of a player stands at or beyond it: nothing is left to answer and nothing completes the level |
| `level_completed` | `onchain/docs/event-schema.md:37`: `level_completed` after the "Final active question" | the global cap may be lowered below the index; the level completes with questions left |
| `outbox_drains` | `docs/background-job-policy.md:180`: "one event is not processed twice by two concurrent drains" | a drain records a failure; another one claims the event from its stale batch at once, without waiting for the backoff |
| `nft_claim_retry` | `backend/src/nft-claim/providers/stellar-handler.service.ts:310`: a retry "resolves to the original transaction" | each attempt builds a new transaction; the first one minted although its submission reported an error, the second is refused, and the claim is reported as rejected |
| `wallet_polling` | comment at `frontend/hooks/useWalletConnection.js:111`: with WalletConnect active, "Freighter polling must not clobber the session state" | the guard is evaluated when a refresh begins; a refresh that was waiting for the extension writes over a session approved meanwhile |

The models reach more states that a comment excludes, or that a reader may not
expect. They have no run of their own, and the invariants are stated so as to say
what holds nevertheless:

- *Prize pool.* `backend/src/reward/prize-pool.service.ts:142` says the pool is locked
  after distribution. A contribution that read the pool before compares its copy
  after, finds `isDistributed` changed, and writes it back to false; two
  distributions that overlap both pay. Line 146 says that the fractions sum to at most
  1.0: rules that exceed it are stored, and a distribution then records more than
  the pool held.
- *Reviews.* `backend/src/puzzle-review/puzzle-review/services/puzzle-review.service.ts:168`
  resets the status of an edited review. When the save of the edit compares before,
  and writes after, an approval of the old text does, the new text is published
  (8 steps). `PublishedTextWasApproved` leaves out such reviews (`torn`). A stale vote or
  report can bring an earlier status back, with the earlier text.
- *Rewards.* `backend/src/reward/README.md:10` promises "maximum claims per reward with
  automatic enforcement", `backend/src/reward/entities/reward.entity.ts:51` a "Maximum
  number of times this reward can be claimed". The limit is compared with a counter
  read without a lock, so claims side by side exceed it; `ClaimsStayNearLimit` says by
  how much they can.
- *Marketplace.* A stale acceptance can put a listing that was sold back into escrow,
  or accept an offer its maker has withdrawn; a failure after the first statement
  leaves an accepted offer on an open listing. A withdrawal that read its offer before
  the acceptance overwrites it: the listing stays in escrow, and every settlement ends
  with "No accepted offer found for this escrow". Settlements and a stale acceptance
  whose saves mix column by column can leave a sold listing without a buyer, or a
  buyer on a listing in escrow (`mixed`).
- *Event indexer.* Every poll stores the events of the last ledger again, although
  `backend/src/event-indexer/event-indexer.service.ts:362` says that duplicates are
  skipped. Events of a contract behind the cursor that another contract moved
  are never fetched. If one ledger holds a page of events or more, the poller
  fetches the same page for ever.
- *Cache.* A call that joins a load under way gets its value, even if it was called
  after an invalidation. Other processes do not see the counter, so a stale entry of
  theirs lasts until it expires. `updateProfile` and `linkWallet` invalidate nothing.
- *Streaks.* `backend/src/streak/services/streak.service.ts:35` says that with a data
  source `recordActivity` runs atomically; the field is never used. Nor is
  `gracePeriodHours`, for which
  `backend/src/streak/services/streak-calculation.service.ts:4` promises "Hours after
  midnight to still count as previous day". A recalculation from older activities
  that saves last wins, until the next one.
- *Wallet login.* That no two accounts share a wallet rests on the unique constraint
  of `backend/src/user/migrations/1730000000000-add-unique-wallet-address.ts` alone; the
  user entity and `docs/database-schema.md` do not show it, and the service only looks
  for another owner before it saves. `revokeWalletSessions` is documented as used when an account is
  linked, and is called from nowhere. `revokeSession` asks for `revokedAt: null`, which
  the database layer may compare for equality and so match no row; the model allows
  both.
- *Wallet hook.* Connecting Freighter over a WalletConnect session leaves its topic
  stored and the remote session open.

## 5. What is proved

TLAPS checks the following for **all** values of the constants that meet the
named assumptions of the modules. They ask for what the code gives: sizes, bounds
and limits are naturals (positive where the code could not start with 0); the
default cap is legal; `NoOne`, `Null`, `NoCall` and the like are nobody's address or
id; the game is not its own minter (`HuntAssumption`, `EconomyAssumption`); there is
a wallet, a review, a reward, a listing, a process and a contract to index (and
`"backfill"`, which marks who moved the cursor, is none: `IndexerAssumption`); finitely many timers,
requests, users and transactions run at a time (`MatchmakingAssumption`,
`ClaimsAssumption`, `MarketAssumption`), since the property counts them; contributions
and numbers of finishers are positive, and rules are any sequences of naturals that
do not decrease, beyond 100 too (`PoolAssumption`); a flag needs no more reports than
the automatic moderation (`ReviewAssumption`), as the constants of the code do. `StreakAssumption` asks for
a positive `ResetAfterDays`, which the code passes as 2 everywhere
(`streak.controller.ts:35`, `streak-calculation.service.ts:17`); the proof of
`StreakIsBacked` uses it: with 0 a streak that ended yesterday would be reset
although `calculateCurrentStreak` counts it as alive.

Every proof has the same layout: an invariant that is inductive, lemmas about the
data (records, sequences, sets), one lemma per action, or per kind of action, and a
theorem that combines them. Below is why the invariant of each is what it is.

### Game contract

**`QuestionBankProofs`.** `BankInv` is inductive: `BankTypeOK`, `IndexInvariant`,
`LevelCapCoversIndex`, and two facts that make it inductive: `IdsAreFresh` (an id
not handed out yet is in no index; otherwise an append could duplicate it) and
`RetiredAreStored` (only stored questions are retired; otherwise a question added
later would be born retired and yet indexed). The lemma `CapBounds` gives that the
cap in force lies in `1..MaxQuestionsPerLevel`, and `RoomMeansFreeSlot` that a level
with room therefore has a free slot, so an append keeps the counter in range.
`IndexFits` restates `IndexInvariant` for one level; lemmas say what appending to and
compacting a level do to it, and each operation then has a lemma of its own.
Results: `Invariance`, `TypeCorrect`, `IndexCorrect`, `CapCorrect`.

`Refinement` is the refinement of `LevelOrder`. The order of a level is read off its
slots (`Before`). `AppendOrder` says that an append puts one question behind all
others, `CompactOrder` that compaction removes one question from the order and leaves
the rest as it was, although every slot behind the gap moves. A retirement is
therefore a `Withdraw`, an addition an `Admit`, a move a `Transfer`, and every
other step, an update in place included, a stutter.

**`PlayerProgressProofs`.** `HuntInv` joins the five invariants of the run, which
need one another and `BankInv`, and adds `NoRecordNoAnswers`: a level without a record
has no answers, so that a fresh record with its cursor at 0 is right. `RecordWrite`
says what writing a record in the new layout does to both layouts; the initialisation
of a player, an answer and a badge claim are instances of it. The badge part is a
counting argument: a mint adds one contract to `MintedByGame`, which was empty.
Results: one theorem per property, and the action property `ProgressNeverLost`.

**`HuntEconomyProofs`.** `EconomyInv` adds `BankInv` to the properties: the bound
`q <= questionCount` on completed puzzles survives only because ids are handed out in
order and never taken back. The lemma of each step also shows that it keeps slashed
stakes (`SlashesKept`), which gives the action property `SlashIsFinal`.

### Backend

**`OutboxProofs`.** `OutboxInv` is inductive: the type invariant,
`ClaimIsExclusive`, `AttemptsAreReal`, and two facts about stale copies:
`CopiesAreReal` (the attempts in a copy never exceed the failures of the event,
so saving an old copy invents none) and `AttemptsLeft` (an event in a batch was
read with attempts to spare, and a claimable event has some, so a saved count
stays in the budget). Results: `OutboxInvariance`, `OutboxTypeCorrect`,
`ClaimExclusion`, `AttemptsCorrect`, and the action property `SettledCorrect`.
`StrandedCorrect` then counts: the set of stranded events and the faults grow
together, because a step that is no fault strands nothing, and a fault at most the
event its instance is at.

**`NftClaimProofs`.** `ClaimInv` adds to the properties `LoopIsCounted` (the loop stops
at its budget), `SentHasRecipient` (a transaction that was sent, and the one an attempt
polls, has the recipient of its claim), `SuccessIsMinted` (a transaction that succeeded
left the badge with the custodian, so a second one for the same recipient is
refused) and `ConfirmedHasRecipient`. Results: one theorem per property, and the
action property `AnsweredOnce`.

**`MatchmakingProofs`.** Two parts. *The algorithm:* `PairsInGroup` recurses over sets
of edges, `PairsOf` over sets of groups. `RecursionOnSubsets` shows that such a
definition has the value its equation says on every finite set, from the smallest
set on which it would not; `PairingStable` argues in the same way from the smallest set
of edges on which the greedy pairs were not stable. *The protocol:* `MatchInv`
says that rows and all copies of rows, however old, are `Sound` (the match they
name exists, and a wait they call long was long), and that every planned or created
match is `Fit` (of compatible entries). Both only refer to facts that are never
undone (`Grows`), so no save of a stale copy can break them; that is why the
properties hold although the rows themselves are overwritten freely.
`NumberedInOrder` keeps room for the insertions under way.

**`WalletLoginProofs`.** `LoginInv` is inductive: the type invariant;
`AnsweredIsUsedUp` (an answered challenge is consumed or pruned, so the conditional
update cannot succeed on it again); `RequestsFollowChallenges` (a request on its way
to a session has answered the challenge it read, for the wallet it acts for);
`SessionsAreEarned`; and `OneAccountPerWallet`, which the unique constraint keeps.
Two lemmas carry most actions: `ChallengesMove` for the steps of challenges alone,
`RequestMoves` for a request that goes on. Results: `LoginInvariance`,
`ChallengeUsedOnce`.

**`ServicesProofs`.** Each theorem states the type invariant and the property.

- *Wallet hook* (`SessionCorrect`): while a WalletConnect session is active, only
  late refreshes are under way (`OnlyLateUnderWay`); a restore that waits is for the
  stored session, and nothing becomes active before it goes on (`RestoreIsDue`).
- *Reviews* (`PublishedCorrect`): `HeldRowsApproved`. What a request has read, and what
  a save between its comparison and its write will make of the row as it stands
  now, is approved if its status says so; only a write that meets other columns than
  it compared breaks this, and marks the review `torn`.
- *Rewards* (`ClaimsCorrect`): claims and the transactions that found room
  (`Pending`) are together fewer than the limit and the number of transactions. A
  counter read below the limit makes one more pending; a commit turns a pending one
  into a claim.
- *Prize pool* (`PoolCorrect`): a copy about to be saved is backed by the audit sums
  together with the amounts its transaction is about to record (`PoolBacked`), so any
  mixture of its columns with the row's is too. Without an overlap there is one such
  copy, and it agrees exactly (`PoolExact`): what it is about to record for the
  finishers is, up to the rounding of each payout, what the rules hand out of the
  balance, which then is all that was funded.
- *Marketplace* (`TradesCorrect`): a request past the acceptance knows of an accepted
  offer on its listing, and a buyer in any copy made one (`MarketSafe`); that is kept
  column by column, so mixed saves do not disturb it. While a listing is not mixed, the
  write of a request makes its row equal to the copy, in which status and buyer go
  together (`Unmixed`). Undisturbed, the one request under way leaves
  at most its own listing inconsistent, and knows its rows exactly (`Calm`). `Counting`
  bounds the acceptances: an acceptance adds a request on its way to close the listing, a
  failure moves one to `stranded`, and once the listing is closed the requests that can
  still accept are those that read it before.
- *Cache* (`CacheCorrect`): every command on a connection belongs to one call or
  writer that waits for it (`WireMatches`); a loaded value is as new as what its
  instance has invalidated, unless the counter has moved since (`LoadsAreFresh`, which
  needs `InvalidationsCounted`); a `SET` on its way carries such a value or has the `DEL`
  behind it (`SetsAreFollowed`).
- *Event indexer* (`IndexCorrect`): of the events of its contract from the cursor up to
  the ledger where a page ends, each is stored, lost by a fault, or still on the page
  (`PageCovers`), so the cursor may follow the page. `RowsCover` says the same of the
  newest row, which becomes the cursor after a restart; it holds while only rows of
  one contract have moved the cursor (`movers`). A page is taken as any sorted prefix
  of what a set of events asks for, so the lemmas need the order of a page, never
  how it was sorted.
- *Streaks* (`StreakCorrect`): first the calculation. `RunsUpToDefined` shows that the
  loop of `calculateLongestStreak`, written as a recursive function over the places
  of the sorted days, has the value its equation says, by counting back to the last
  gap; `RunsAreRuns`, `LongestStreakIsLongest`, `FirstRunIsFirst` and `CurrentIsLive` relate it
  to runs in the set of days, whatever the order of the rows. Then the race: what a
  request has computed is backed by activities, which are only ever added
  (`RequestIsBacked`), and of a save that compared the row as it still stands, the
  result is exactly what was computed (`AfterSave`, `RowIsExact`); any other
  marks the row as torn.
- *Composition* (`ServicesCorrect`): a step of `MCServices` is a step of one service and a
  stutter of the others (`ServicesKeepApart`), so what is proved of each holds of the
  behaviours that the run `services` checks, with all the types.

### Only model-checked

Every invariant and action property that a passing run checks is stated by a theorem.
What remains with TLC are the liveness properties (`EventuallySettled`,
`EventuallyAnswered`, `PairsDoNotWait`): liveness under fairness, and the `ENABLED` it
rests on, are beyond the proof system. The statements that the documentation makes
and the code does not keep have no proof either; their counterexamples are found by TLC.

## 6. What is not modelled

- Hints, hashes of answers, metadata URIs, events emitted for observers: no
  modelled property depends on them. Ledger storage lifetimes are extended by the
  contract on access and are not modelled.
- The mock mode of the NFT claim service (a constant answer) and the outbox's
  fallbacks for repositories without a query builder (unit tests).
- Matchmaking statistics and the broadcast of a match, which only read.
- Services: texts, moderation and audit records that nothing reads; unlimited rewards
  and the status of a claim; fees and prices of the marketplace, and the reward shop
  (in memory, one synchronous step per purchase); the counts, metadata and timezone
  offset of streaks; the check of a signature; networks and error texts of the
  wallet hook; a WalletConnect client that fails to load.
- Most of the source by lines: controllers, DTOs, entities, presentation, and services
  that create, read, update and delete rows of their own. There is no protocol in
  them, so a model would only repeat their assignments. That is why the mapped lines
  are a small share of the repository, although they hold its concurrent parts.
- Components listed as `not_modelled` in `PROJECT.json`, with the reason.

## 7. Plan

1. *Done:* question bank, player progress, economy, NFT contract, outbox, NFT
   claims, matchmaking; proofs for bank and outbox.
2. *Done:* event indexer, reviews, rewards, prize pools, marketplace, cache, streaks,
   wallet login, and the wallet hook.
3. Rotation of refresh tokens by concurrent requests, with the detection of reuse
   that revokes a family, should the number of runs allow it.
4. *Done:* proofs of the refinement of `LevelOrder`, and of every safety and action
   property the runs check: player progress, economy, NFT claims, outbox,
   matchmaking, the nine services and their composition.
5. Left: properties for the hazards that have none yet (the level of an answered
   question, double queue entries, the limit of a matchmaking pass), with their proofs.
