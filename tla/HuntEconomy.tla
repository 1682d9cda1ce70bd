----------------------------- MODULE HuntEconomy -----------------------------
(***************************************************************************)
(* Two features of the game contract that stand beside level progress:     *)
(* rewards for single puzzles (paid in a token and as an NFT) and badges   *)
(* staked in timed events.  Both read the question bank, the settings and  *)
(* the NFT contract the game points at.                                    *)
(***************************************************************************)
EXTENDS QuestionBank, Integers

CONSTANTS
    Players, Game, OtherMinters,
    Tokens,         \* reward token contracts
    Amounts,        \* reward amounts an admin may configure (i128, non-negative)
    Funds,          \* what the game holds of each token at the start
    EventIds,
    Windows,        \* <<start_time, end_time>> pairs an admin may pick
    MaxTime         \* bound on the ledger timestamp

(* The game's address is its own, and amounts are never negative. *)
ASSUME EconomyAssumption ==
    /\ Game \notin OtherMinters
    /\ NoOne \notin {Game} \cup OtherMinters
    /\ Amounts \subseteq Nat
    /\ Funds \in Nat
    /\ MaxTime \in Nat

VARIABLES
    completedPuzzles,   \* <<player, puzzle>> with a CompletedPuzzle entry
    rewardToken,        \* DataKey::RewardToken
    defaultReward,      \* DataKey::DefaultRewardAmount
    puzzleReward,       \* DataKey::PuzzleRewardAmount(id)
    balance,            \* balances in the external token contracts
    payouts,            \* history: payouts per player and puzzle
    event,              \* DataKey::Event(id): its window
    stake,              \* DataKey::BadgeStake(player, event, level)
    now,                \* env.ledger().timestamp()
    nft

rewardVars == <<completedPuzzles, rewardToken, defaultReward, puzzleReward, balance, payouts>>
stakeVars  == <<event, stake>>
economyVars == <<adminVars, bankVars, rewardVars, stakeVars, now, nft>>

NFT == INSTANCE StellarHuntsNft WITH
    Minters <- {Game} \cup OtherMinters,
    NftLevels <- Levels,
    PuzzleIds <- QuestionIds

Unset   == -1           \* no amount stored; stored amounts are never negative
NoEvent == <<1, 0>>     \* no event stored; stored windows are never empty
Holders == {Game} \cup Players

-----------------------------------------------------------------------------
(* Puzzle rewards. *)

RewardAmount(q) ==
    CASE puzzleReward[q] # Unset -> puzzleReward[q]
      [] puzzleReward[q] = Unset /\ defaultReward # Unset -> defaultReward
      [] OTHER -> 0

(* try_payout_reward: nothing to do without a token or an amount; a failed *)
(* transfer undoes the whole invocation.                                   *)
Payout(p, q) ==
    IF rewardToken = NoOne \/ RewardAmount(q) = 0
    THEN UNCHANGED <<balance, payouts>>
    ELSE LET t == rewardToken
             n == RewardAmount(q)
             debited == [balance EXCEPT ![t][Game] = @ - n]
         IN  /\ balance[t][Game] >= n
             /\ balance' = [debited EXCEPT ![t][p] = @ + n]
             /\ payouts' = [payouts EXCEPT ![p][q] = @ + 1]

(* complete_puzzle with the stored hash as solution. *)
CompletePuzzle(p, q) ==
    /\ NotPaused
    /\ questionLevel[q] # Absent
    /\ q \notin retired
    /\ <<p, q>> \notin completedPuzzles
    /\ completedPuzzles' = completedPuzzles \cup {<<p, q>>}
    /\ Payout(p, q)
    /\ UNCHANGED <<rewardToken, defaultReward, puzzleReward, nft>>

(* A slip: the completion is not looked at. *)
ClaimPuzzleRewardUnearned(p, q) ==
    /\ NotPaused
    /\ Payout(p, q)
    /\ UNCHANGED <<completedPuzzles, rewardToken, defaultReward, puzzleReward, nft>>

(* claim_puzzle_reward *)
ClaimPuzzleReward(p, q) ==
    /\ NotPaused
    /\ <<p, q>> \in completedPuzzles
    /\ Payout(p, q)
    /\ UNCHANGED <<completedPuzzles, rewardToken, defaultReward, puzzleReward, nft>>

(* claim_puzzle_nft *)
ClaimPuzzleNft(p, q) ==
    /\ NotPaused
    /\ <<p, q>> \in completedPuzzles
    /\ nftContract # NoOne
    /\ NFT!MintPuzzleReward(nftContract, Game, p, q)
    /\ UNCHANGED rewardVars

SetRewardToken(t) ==
    /\ RequireAdmin
    /\ rewardToken' = t
    /\ UNCHANGED <<completedPuzzles, defaultReward, puzzleReward, balance, payouts, nft>>

SetDefaultRewardAmount(n) ==
    /\ RequireAdmin
    /\ defaultReward' = n
    /\ UNCHANGED <<completedPuzzles, rewardToken, puzzleReward, balance, payouts, nft>>

(* set_puzzle_reward_amount does not require that the puzzle exists. *)
SetPuzzleRewardAmount(q, n) ==
    /\ RequireAdmin
    /\ puzzleReward' = [puzzleReward EXCEPT ![q] = n]
    /\ UNCHANGED <<completedPuzzles, rewardToken, defaultReward, balance, payouts, nft>>

RewardStep ==
    /\ \/ \E p \in Players, q \in QuestionIds :
             CompletePuzzle(p, q) \/ ClaimPuzzleReward(p, q) \/ ClaimPuzzleNft(p, q)
       \/ \E t \in Tokens : SetRewardToken(t)
       \/ \E n \in Amounts : SetDefaultRewardAmount(n)
       \/ \E q \in QuestionIds, n \in Amounts : SetPuzzleRewardAmount(q, n)
    /\ UNCHANGED <<adminVars, bankVars, stakeVars, now>>

-----------------------------------------------------------------------------
(* Badge staking. *)

EventExists(e) == event[e] # NoEvent
WindowOpen(e)  == event[e][1] <= now /\ now <= event[e][2]

(* Slips: windows that never open, stakes without a badge, slashed stakes  *)
(* that can be withdrawn.                                                  *)
CreateEventUnchecked(e, w) ==
    /\ RequireAdmin
    /\ event' = [event EXCEPT ![e] = w]
    /\ UNCHANGED stake
StakeWithoutBadge(p, e, l) ==
    /\ NotPaused
    /\ EventExists(e) /\ WindowOpen(e)
    /\ nftContract # NoOne
    /\ stake[p][e][l] = "none"
    /\ stake' = [stake EXCEPT ![p][e][l] = "staked"]
    /\ UNCHANGED event
UnstakeSlashed(p, e, l) ==
    /\ stake[p][e][l] # "none"
    /\ stake' = [stake EXCEPT ![p][e][l] = "none"]
    /\ UNCHANGED event

(* create_event replaces whatever event the id had. *)
CreateEvent(e, w) ==
    /\ RequireAdmin
    /\ w[1] < w[2]
    /\ event' = [event EXCEPT ![e] = w]
    /\ UNCHANGED stake

StakeBadge(p, e, l) ==
    /\ NotPaused
    /\ EventExists(e) /\ WindowOpen(e)
    /\ nftContract # NoOne
    /\ NFT!HasLevelBadge(nftContract, p, l)
    /\ stake[p][e][l] = "none"
    /\ stake' = [stake EXCEPT ![p][e][l] = "staked"]
    /\ UNCHANGED event

(* unstake_badge asks neither for an open window nor for an unpaused game. *)
UnstakeBadge(p, e, l) ==
    /\ stake[p][e][l] = "staked"
    /\ stake' = [stake EXCEPT ![p][e][l] = "none"]
    /\ UNCHANGED event

(* slash_expired_stake may be called by anyone once the window has closed. *)
SlashExpiredStake(p, e, l) ==
    /\ EventExists(e) /\ now > event[e][2]
    /\ stake[p][e][l] # "none"
    /\ stake' = [stake EXCEPT ![p][e][l] = "slashed"]
    /\ UNCHANGED event

StakeStep ==
    /\ \/ \E e \in EventIds, w \in Windows : CreateEvent(e, w)
       \/ \E p \in Players, e \in EventIds, l \in Levels :
             StakeBadge(p, e, l) \/ UnstakeBadge(p, e, l) \/ SlashExpiredStake(p, e, l)
    /\ UNCHANGED <<adminVars, bankVars, rewardVars, now, nft>>

-----------------------------------------------------------------------------

Tick ==
    /\ now < MaxTime
    /\ now' = now + 1
    /\ UNCHANGED <<adminVars, bankVars, rewardVars, stakeVars, nft>>

AdminStep ==
    /\ AdminNext
    /\ UNCHANGED <<bankVars, rewardVars, stakeVars, now, nft>>

BankStep ==
    /\ BankNext
    /\ UNCHANGED <<adminVars, rewardVars, stakeVars, now, nft>>

NftStep ==
    /\ \E c \in NftContracts :
          \/ NFT!NftAdminNext(c)
          \/ \E m \in OtherMinters, p \in Players :
                \/ \E l \in Levels : NFT!MintLevelBadge(c, m, p, l)
                \/ \E q \in QuestionIds : NFT!MintPuzzleReward(c, m, p, q)
    /\ UNCHANGED <<adminVars, bankVars, rewardVars, stakeVars, now>>

EconomyInit ==
    /\ Init
    /\ NFT!NftInit
    /\ completedPuzzles = {} /\ rewardToken = NoOne /\ defaultReward = Unset
    /\ puzzleReward = [q \in QuestionIds |-> Unset]
    /\ balance = [t \in Tokens |-> [h \in Holders |-> IF h = Game THEN Funds ELSE 0]]
    /\ payouts = [p \in Players |-> [q \in QuestionIds |-> 0]]
    /\ event = [e \in EventIds |-> NoEvent]
    /\ stake = [p \in Players |-> [e \in EventIds |-> [l \in Levels |-> "none"]]]
    /\ now = 0

EconomyNext == RewardStep \/ StakeStep \/ Tick \/ AdminStep \/ BankStep \/ NftStep

EconomySpec == EconomyInit /\ [][EconomyNext]_economyVars

-----------------------------------------------------------------------------
(* Properties. *)

(* Every stored value has the type its storage key gives it. *)
EconomyTypeOK ==
    /\ TypeOK
    /\ NFT!NftTypeOK
    /\ completedPuzzles \subseteq Players \X QuestionIds
    /\ rewardToken \in Tokens \cup {NoOne}
    /\ defaultReward \in Nat \cup {Unset}
    /\ puzzleReward \in [QuestionIds -> Nat \cup {Unset}]
    /\ balance \in [Tokens -> [Holders -> Nat]]
    /\ payouts \in [Players -> [QuestionIds -> Nat]]
    /\ event \in [EventIds -> {NoEvent} \cup {w \in Windows : w[1] < w[2]}]
    /\ stake \in [Players -> [EventIds -> [Levels -> {"none", "staked", "slashed"}]]]
    /\ now \in 0 .. MaxTime

(* A player is paid for a puzzle, or given its NFT by the game, only after *)
(* completing it, and only puzzles that were stored can be completed, even *)
(* if they are moved or retired in between.                                *)
RewardsAreEarned ==
    \A p \in Players, q \in QuestionIds :
        /\ payouts[p][q] > 0 \/ (\E c \in NftContracts : nft[c].reward[p][q] = Game)
              => <<p, q>> \in completedPuzzles
        /\ <<p, q>> \in completedPuzzles => q <= questionCount

(* Whoever has a stake, slashed or not, owns that level's badge on one of  *)
(* the NFT contracts, although the badge is not locked by staking and the  *)
(* admin may re-point the game at any time.                                *)
StakesAreBacked ==
    \A p \in Players, e \in EventIds, l \in Levels :
        stake[p][e][l] # "none" => \E c \in NftContracts : NFT!HasLevelBadge(c, p, l)

(* A slash is final: neither unstaking, nor staking again, nor replacing   *)
(* the event brings the stake back.                                        *)
SlashIsFinal ==
    [][\A p \in Players, e \in EventIds, l \in Levels :
          stake[p][e][l] = "slashed" => stake'[p][e][l] = "slashed"]_economyVars
=============================================================================
