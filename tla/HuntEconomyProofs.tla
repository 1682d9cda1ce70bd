-------------------------- MODULE HuntEconomyProofs --------------------------
(***************************************************************************)
(* Proofs about HuntEconomy, for every number of players, puzzles, tokens, *)
(* events and NFT contracts, and every amount and window an admin picks.   *)
(***************************************************************************)
EXTENDS HuntEconomy, QuestionBankProofs

(* The inductive invariant: rewards rest on the ids of the bank, which are *)
(* handed out in order and never taken back (BankInv).                     *)
EconomyInv ==
    /\ EconomyTypeOK
    /\ BankInv
    /\ RewardsAreEarned
    /\ StakesAreBacked

(* What every step must do beside keeping the types. *)
SlashesKept ==
    \A p \in Players, e \in EventIds, l \in Levels :
        stake[p][e][l] = "slashed" => stake'[p][e][l] = "slashed"

GameReward(p, q) == \E c \in NftContracts : nft[c].reward[p][q] = Game
HasBadge(p, l)   == \E c \in NftContracts : NFT!HasLevelBadge(c, p, l)

-----------------------------------------------------------------------------
(* The NFT contracts. *)

(* Storing one contract's record leaves the other contracts alone. *)
LEMMA NftWrite ==
    ASSUME NFT!NftTypeOK, NEW c \in NftContracts, NEW rec \in NFT!NftRecord,
           nft' = [nft EXCEPT ![c] = rec]
    PROVE  /\ NFT!NftTypeOK'
           /\ \A d \in NftContracts : nft'[d] = IF d = c THEN rec ELSE nft[d]
BY DEF NFT!NftTypeOK

(* A badge that is minted takes the place of none. *)
LEMMA BadgeMintEffect ==
    ASSUME NFT!NftTypeOK, NEW c \in NftContracts, NEW m \in {Game} \cup OtherMinters,
           NEW p \in Players, NEW l \in Levels, NFT!MintLevelBadge(c, m, p, l)
    PROVE  /\ NFT!NftTypeOK'
           /\ \A d \in NftContracts : nft'[d].reward = nft[d].reward
           /\ \A d \in NftContracts, r \in Players, k \in Levels :
                 nft[d].badge[r][k] # NoOne => nft'[d].badge[r][k] # NoOne
<1> DEFINE badge == [nft[c].badge EXCEPT ![p][l] = m]
           rec   == [nft[c] EXCEPT !.badge = badge]
<1>1. nft[c] \in NFT!NftRecord
  BY DEF NFT!NftTypeOK
<1>2. /\ badge \in [Players -> [Levels -> {Game} \cup OtherMinters \cup {NoOne}]]
      /\ \A r \in Players, k \in Levels :
            badge[r][k] = IF r = p /\ k = l THEN m ELSE nft[c].badge[r][k]
  BY <1>1 DEF NFT!NftRecord
<1>3. nft' = [nft EXCEPT ![c] = rec]
  BY DEF NFT!MintLevelBadge
<1> HIDE DEF badge
<1>4. rec \in NFT!NftRecord /\ rec.badge = badge /\ rec.reward = nft[c].reward
  BY <1>1, <1>2 DEF NFT!NftRecord
<1> HIDE DEF rec
<1>5. /\ NFT!NftTypeOK'
      /\ \A d \in NftContracts : nft'[d] = IF d = c THEN rec ELSE nft[d]
  BY <1>3, <1>4, NftWrite
<1>6. m # NoOne
  BY EconomyAssumption
<1> QED BY <1>2, <1>4, <1>5, <1>6

(* A puzzle reward that is minted belongs to its minter. *)
LEMMA RewardMintEffect ==
    ASSUME NFT!NftTypeOK, NEW c \in NftContracts, NEW m \in {Game} \cup OtherMinters,
           NEW p \in Players, NEW q \in QuestionIds, NFT!MintPuzzleReward(c, m, p, q)
    PROVE  /\ NFT!NftTypeOK'
           /\ \A d \in NftContracts : nft'[d].badge = nft[d].badge
           /\ \A d \in NftContracts, r \in Players, k \in QuestionIds :
                 nft'[d].reward[r][k] = IF d = c /\ r = p /\ k = q THEN m
                                        ELSE nft[d].reward[r][k]
<1> DEFINE reward == [nft[c].reward EXCEPT ![p][q] = m]
           rec    == [nft[c] EXCEPT !.reward = reward]
<1>1. nft[c] \in NFT!NftRecord
  BY DEF NFT!NftTypeOK
<1>2. /\ reward \in [Players -> [QuestionIds -> {Game} \cup OtherMinters \cup {NoOne}]]
      /\ \A r \in Players, k \in QuestionIds :
            reward[r][k] = IF r = p /\ k = q THEN m ELSE nft[c].reward[r][k]
  BY <1>1 DEF NFT!NftRecord
<1>3. nft' = [nft EXCEPT ![c] = rec]
  BY DEF NFT!MintPuzzleReward
<1> HIDE DEF reward
<1>4. rec \in NFT!NftRecord /\ rec.reward = reward /\ rec.badge = nft[c].badge
  BY <1>1, <1>2 DEF NFT!NftRecord
<1> HIDE DEF rec
<1>5. /\ NFT!NftTypeOK'
      /\ \A d \in NftContracts : nft'[d] = IF d = c THEN rec ELSE nft[d]
  BY <1>3, <1>4, NftWrite
<1> QED BY <1>2, <1>4, <1>5

(* Administering an NFT contract moves neither badges nor rewards. *)
LEMMA NftAdminEffect ==
    ASSUME NFT!NftTypeOK, NEW c \in NftContracts, NFT!NftAdminNext(c)
    PROVE  /\ NFT!NftTypeOK'
           /\ \A d \in NftContracts : nft'[d].badge = nft[d].badge /\ nft'[d].reward = nft[d].reward
<1>1. nft[c] \in NFT!NftRecord
  BY DEF NFT!NftTypeOK
<1>2. PICK rec \in NFT!NftRecord : /\ nft' = [nft EXCEPT ![c] = rec]
                                   /\ rec.badge = nft[c].badge /\ rec.reward = nft[c].reward
  <2> DEFINE Effect(rec) == /\ rec \in NFT!NftRecord
                            /\ nft' = [nft EXCEPT ![c] = rec]
                            /\ rec.badge = nft[c].badge /\ rec.reward = nft[c].reward
  <2>1. ASSUME NEW a \in Accounts, NEW m \in {Game} \cup OtherMinters, NFT!InitNft(c, a, m)
        PROVE  Effect([nft[c] EXCEPT !.admin = a, !.minters = @ \cup {m}])
    BY <1>1, <2>1 DEF NFT!InitNft, NFT!NftRecord
  <2>2. ASSUME NEW a \in Accounts, NFT!ProposeNftAdmin(c, a)
        PROVE  Effect([nft[c] EXCEPT !.pending = a])
    BY <1>1, <2>2 DEF NFT!ProposeNftAdmin, NFT!NftRecord
  <2>3. ASSUME NFT!AcceptNftAdmin(c)
        PROVE  Effect([nft[c] EXCEPT !.admin = nft[c].pending, !.pending = NoOne])
    BY <1>1, <2>3 DEF NFT!AcceptNftAdmin, NFT!NftRecord
  <2>4. ASSUME NEW b \in BOOLEAN, NFT!SetNftPaused(c, b)
        PROVE  Effect([nft[c] EXCEPT !.paused = b])
    BY <1>1, <2>4 DEF NFT!SetNftPaused, NFT!NftRecord
  <2>5. ASSUME NEW m \in {Game} \cup OtherMinters, NFT!GrantMinterRole(c, m)
        PROVE  Effect([nft[c] EXCEPT !.minters = @ \cup {m}])
    BY <1>1, <2>5 DEF NFT!GrantMinterRole, NFT!NftRecord
  <2>6. ASSUME NEW m \in {Game} \cup OtherMinters, NFT!RevokeMinterRole(c, m)
        PROVE  Effect([nft[c] EXCEPT !.minters = @ \ {m}])
    BY <1>1, <2>6 DEF NFT!RevokeMinterRole, NFT!NftRecord
  <2>7. \E rec : Effect(rec)
    <3> HIDE DEF Effect
    <3> QED BY <2>1, <2>2, <2>3, <2>4, <2>5, <2>6 DEF NFT!NftAdminNext
  <2> QED BY <2>7
<1>3. /\ NFT!NftTypeOK'
      /\ \A d \in NftContracts : nft'[d] = IF d = c THEN rec ELSE nft[d]
  BY <1>2, NftWrite
<1> QED BY <1>2, <1>3

-----------------------------------------------------------------------------
(* The bank and the settings. *)

(* Ids are never taken back. *)
LEMMA CountNeverFalls ==
    ASSUME BankTypeOK, BankNext
    PROVE  questionCount <= questionCount'
BY DEF BankTypeOK, BankNext, AddQuestion, UpdateInPlace, MoveQuestion, RetireQuestion,
       SetQuestionPerLevel, SetQuestionCapForLevel

LEMMA SettingsUnchanged ==
    ASSUME EconomyInv, UNCHANGED <<adminVars, bankVars>>
    PROVE  TypeOK' /\ BankInv' /\ questionCount' = questionCount
<1>1. BankInv'
  BY BankUnchanged DEF EconomyInv
<1>2. AdminTypeOK'
  BY DEF EconomyInv, EconomyTypeOK, TypeOK, AdminTypeOK, adminVars
<1> QED BY <1>1, <1>2 DEF TypeOK, BankInv, bankVars

-----------------------------------------------------------------------------
(* Puzzle rewards. *)

LEMMA AmountType ==
    ASSUME EconomyTypeOK, NEW q \in QuestionIds
    PROVE  RewardAmount(q) \in Nat
BY DEF EconomyTypeOK, RewardAmount, Unset

(* A payout moves tokens of the game to the player, never below zero, and  *)
(* counts for that player and puzzle only.                                 *)
LEMMA PayoutEffect ==
    ASSUME EconomyTypeOK, NEW p \in Players, NEW q \in QuestionIds, Payout(p, q)
    PROVE  /\ balance' \in [Tokens -> [Holders -> Nat]]
           /\ payouts' \in [Players -> [QuestionIds -> Nat]]
           /\ \A r \in Players, k \in QuestionIds :
                 ~(r = p /\ k = q) => payouts'[r][k] = payouts[r][k]
<1>1. CASE rewardToken = NoOne \/ RewardAmount(q) = 0
  BY <1>1 DEF Payout, EconomyTypeOK
<1>2. CASE ~(rewardToken = NoOne \/ RewardAmount(q) = 0)
  <2> DEFINE t == rewardToken
             n == RewardAmount(q)
  <2>1. t \in Tokens /\ n \in Nat
    BY <1>2, AmountType DEF EconomyTypeOK
  <2>2. /\ balance[t][Game] >= n
        /\ balance' = [[balance EXCEPT ![t][Game] = @ - n] EXCEPT ![t][p] = @ + n]
        /\ payouts' = [payouts EXCEPT ![p][q] = @ + 1]
    BY <1>2 DEF Payout
  <2> HIDE DEF t, n
  <2>3. Game \in Holders /\ p \in Holders
    BY DEF Holders
  <2>4. balance' \in [Tokens -> [Holders -> Nat]]
    <3> DEFINE paid == [balance EXCEPT ![t][Game] = @ - n]
    <3>1. paid \in [Tokens -> [Holders -> Nat]]
      <4>1. balance \in [Tokens -> [Holders -> Nat]]
        BY DEF EconomyTypeOK
      <4>2. balance[t][Game] \in Nat
        BY <2>1, <2>3, <4>1
      <4>3. balance[t][Game] - n \in Nat
        BY <2>1, <2>2, <4>2
      <4> QED BY <2>1, <2>3, <4>1, <4>3
    <3>2. balance' = [paid EXCEPT ![t][p] = @ + n]
      BY <2>2
    <3> HIDE DEF paid
    <3> QED BY <2>1, <2>3, <3>1, <3>2
  <2> QED BY <2>2, <2>4 DEF EconomyTypeOK
<1> QED BY <1>1, <1>2

(* Completing a puzzle is the only way to a payout, and claims ask for it. *)
LEMMA RewardStepCorrect ==
    ASSUME EconomyInv, RewardStep
    PROVE  EconomyInv' /\ SlashesKept
<1>1. UNCHANGED <<adminVars, bankVars, event, stake, now>>
  BY DEF RewardStep, stakeVars
<1>2. TypeOK' /\ BankInv' /\ questionCount' = questionCount
  BY <1>1, SettingsUnchanged
<1>3. NFT!NftTypeOK
  BY DEF EconomyInv, EconomyTypeOK
(* It is enough to look at what a reward step may change. *)
<1>4. ASSUME NFT!NftTypeOK',
             \A d \in NftContracts : nft'[d].badge = nft[d].badge,
             completedPuzzles \subseteq completedPuzzles',
             completedPuzzles' \subseteq Players \X QuestionIds,
             \A p \in Players, q \in QuestionIds :
                <<p, q>> \in completedPuzzles' => q <= questionCount,
             rewardToken' \in Tokens \cup {NoOne},
             defaultReward' \in Nat \cup {Unset},
             puzzleReward' \in [QuestionIds -> Nat \cup {Unset}],
             balance' \in [Tokens -> [Holders -> Nat]],
             payouts' \in [Players -> [QuestionIds -> Nat]],
             \A p \in Players, q \in QuestionIds :
                \/ <<p, q>> \in completedPuzzles'
                \/ payouts'[p][q] = payouts[p][q] /\ (GameReward(p, q)' => GameReward(p, q))
      PROVE  EconomyInv' /\ SlashesKept
  <2>1. EconomyTypeOK'
    BY <1>1, <1>2, <1>4 DEF EconomyInv, EconomyTypeOK
  <2>2. RewardsAreEarned'
    <3> SUFFICES ASSUME NEW p \in Players, NEW q \in QuestionIds
                 PROVE  /\ payouts'[p][q] > 0 \/ GameReward(p, q)' => <<p, q>> \in completedPuzzles'
                        /\ <<p, q>> \in completedPuzzles' => q <= questionCount'
      BY DEF RewardsAreEarned, GameReward
    <3> QED BY <1>2, <1>4 DEF EconomyInv, RewardsAreEarned, GameReward
  <2>3. StakesAreBacked' /\ SlashesKept
    BY <1>1, <1>4 DEF EconomyInv, StakesAreBacked, SlashesKept, NFT!HasLevelBadge
  <2> QED BY <1>2, <2>1, <2>2, <2>3 DEF EconomyInv
<1>5. \A p \in Players, q \in QuestionIds :
         <<p, q>> \in completedPuzzles => q <= questionCount
  BY DEF EconomyInv, RewardsAreEarned
<1>6. CASE \E p \in Players, q \in QuestionIds : CompletePuzzle(p, q)
  <2>1. PICK p \in Players, q \in QuestionIds : CompletePuzzle(p, q)
    BY <1>6
  <2>2. /\ questionLevel[q] # Absent
        /\ completedPuzzles' = completedPuzzles \cup {<<p, q>>}
        /\ Payout(p, q)
        /\ UNCHANGED <<rewardToken, defaultReward, puzzleReward, nft>>
    BY <2>1 DEF CompletePuzzle
  <2>3. q <= questionCount
    BY <2>2 DEF EconomyInv, BankInv, IdsAreFresh
  <2>4. \A r \in Players, k \in QuestionIds :
           <<r, k>> \in completedPuzzles' => k <= questionCount
    BY <1>5, <2>2, <2>3
  <2>5. /\ balance' \in [Tokens -> [Holders -> Nat]]
        /\ payouts' \in [Players -> [QuestionIds -> Nat]]
        /\ \A r \in Players, k \in QuestionIds :
              ~(r = p /\ k = q) => payouts'[r][k] = payouts[r][k]
    BY <2>2, PayoutEffect DEF EconomyInv
  <2>6. \A r \in Players, k \in QuestionIds :
           \/ <<r, k>> \in completedPuzzles'
           \/ payouts'[r][k] = payouts[r][k] /\ (GameReward(r, k)' => GameReward(r, k))
    BY <2>2, <2>5 DEF GameReward
  <2>7. NFT!NftTypeOK' /\ \A d \in NftContracts : nft'[d].badge = nft[d].badge
    BY <1>3, <2>2 DEF NFT!NftTypeOK
  <2> QED BY <1>4, <2>2, <2>4, <2>5, <2>6, <2>7 DEF EconomyInv, EconomyTypeOK
<1>7. CASE \E p \in Players, q \in QuestionIds : ClaimPuzzleReward(p, q)
  <2>1. PICK p \in Players, q \in QuestionIds : ClaimPuzzleReward(p, q)
    BY <1>7
  <2>2. /\ <<p, q>> \in completedPuzzles
        /\ Payout(p, q)
        /\ UNCHANGED <<completedPuzzles, rewardToken, defaultReward, puzzleReward, nft>>
    BY <2>1 DEF ClaimPuzzleReward
  <2>3. /\ balance' \in [Tokens -> [Holders -> Nat]]
        /\ payouts' \in [Players -> [QuestionIds -> Nat]]
        /\ \A r \in Players, k \in QuestionIds :
              ~(r = p /\ k = q) => payouts'[r][k] = payouts[r][k]
    BY <2>2, PayoutEffect DEF EconomyInv
  <2>4. \A r \in Players, k \in QuestionIds :
           \/ <<r, k>> \in completedPuzzles'
           \/ payouts'[r][k] = payouts[r][k] /\ (GameReward(r, k)' => GameReward(r, k))
    BY <2>2, <2>3 DEF GameReward
  <2>5. NFT!NftTypeOK' /\ \A d \in NftContracts : nft'[d].badge = nft[d].badge
    BY <1>3, <2>2 DEF NFT!NftTypeOK
  <2> QED BY <1>4, <1>5, <2>2, <2>3, <2>4, <2>5 DEF EconomyInv, EconomyTypeOK
<1>8. CASE \E p \in Players, q \in QuestionIds : ClaimPuzzleNft(p, q)
  <2>1. PICK p \in Players, q \in QuestionIds : ClaimPuzzleNft(p, q)
    BY <1>8
  <2>2. /\ <<p, q>> \in completedPuzzles
        /\ UNCHANGED <<completedPuzzles, rewardToken, defaultReward, puzzleReward, balance, payouts>>
    BY <2>1 DEF ClaimPuzzleNft, rewardVars
  <2>3. PICK c \in NftContracts : NFT!MintPuzzleReward(c, Game, p, q)
    BY <2>1 DEF ClaimPuzzleNft, EconomyInv, EconomyTypeOK, TypeOK, AdminTypeOK
  <2>4. Game \in {Game} \cup OtherMinters
    OBVIOUS
  <2>5. /\ NFT!NftTypeOK'
        /\ \A d \in NftContracts : nft'[d].badge = nft[d].badge
        /\ \A d \in NftContracts, r \in Players, k \in QuestionIds :
              nft'[d].reward[r][k] = IF d = c /\ r = p /\ k = q THEN Game
                                     ELSE nft[d].reward[r][k]
    BY <1>3, <2>3, <2>4, RewardMintEffect
  <2>6. \A r \in Players, k \in QuestionIds :
           \/ <<r, k>> \in completedPuzzles'
           \/ payouts'[r][k] = payouts[r][k] /\ (GameReward(r, k)' => GameReward(r, k))
    BY <2>2, <2>5 DEF GameReward
  <2> QED BY <1>4, <1>5, <2>2, <2>5, <2>6 DEF EconomyInv, EconomyTypeOK
<1>9. CASE \/ \E t \in Tokens : SetRewardToken(t)
           \/ \E n \in Amounts : SetDefaultRewardAmount(n)
           \/ \E q \in QuestionIds, n \in Amounts : SetPuzzleRewardAmount(q, n)
  <2>1. UNCHANGED <<completedPuzzles, balance, payouts, nft>>
    BY <1>9 DEF SetRewardToken, SetDefaultRewardAmount, SetPuzzleRewardAmount
  <2>2. /\ rewardToken' \in Tokens \cup {NoOne}
        /\ defaultReward' \in Nat \cup {Unset}
        /\ puzzleReward' \in [QuestionIds -> Nat \cup {Unset}]
    BY <1>9, EconomyAssumption
       DEF SetRewardToken, SetDefaultRewardAmount, SetPuzzleRewardAmount, EconomyInv, EconomyTypeOK
  <2>3. NFT!NftTypeOK' /\ \A d \in NftContracts : nft'[d].badge = nft[d].badge
    BY <1>3, <2>1 DEF NFT!NftTypeOK
  <2>4. \A r \in Players, k \in QuestionIds :
           payouts'[r][k] = payouts[r][k] /\ (GameReward(r, k)' => GameReward(r, k))
    BY <2>1 DEF GameReward
  <2> QED BY <1>4, <1>5, <2>1, <2>2, <2>3, <2>4 DEF EconomyInv, EconomyTypeOK
<1> QED BY <1>6, <1>7, <1>8, <1>9 DEF RewardStep

-----------------------------------------------------------------------------
(* Badge staking. *)

(* A stake begins with a badge on the contract the game points at, and no  *)
(* way leads back from a slash.                                            *)
LEMMA StakeStepCorrect ==
    ASSUME EconomyInv, StakeStep
    PROVE  EconomyInv' /\ SlashesKept
<1>1. UNCHANGED <<adminVars, bankVars, completedPuzzles, rewardToken, defaultReward, puzzleReward,
                  balance, payouts, now, nft>>
  BY DEF StakeStep, rewardVars
<1>2. TypeOK' /\ BankInv' /\ questionCount' = questionCount
  BY <1>1, SettingsUnchanged
<1>3. NFT!NftTypeOK'
  BY <1>1 DEF EconomyInv, EconomyTypeOK, NFT!NftTypeOK
<1>4. RewardsAreEarned'
  BY <1>1, <1>2 DEF EconomyInv, RewardsAreEarned
<1>5. ASSUME event' \in [EventIds -> {NoEvent} \cup {w \in Windows : w[1] < w[2]}],
             stake' \in [Players -> [EventIds -> [Levels -> {"none", "staked", "slashed"}]]],
             \A p \in Players, e \in EventIds, l \in Levels :
                \/ stake'[p][e][l] = stake[p][e][l]
                \/ stake'[p][e][l] = "none" /\ stake[p][e][l] # "slashed"
                \/ stake'[p][e][l] = "slashed" /\ stake[p][e][l] # "none"
                \/ stake[p][e][l] = "none" /\ HasBadge(p, l)
      PROVE  EconomyInv' /\ SlashesKept
  <2>1. EconomyTypeOK'
    BY <1>1, <1>2, <1>3, <1>5 DEF EconomyInv, EconomyTypeOK
  <2>2. \A p \in Players, l \in Levels : HasBadge(p, l)' <=> HasBadge(p, l)
    BY <1>1 DEF HasBadge, NFT!HasLevelBadge
  <2>3. StakesAreBacked'
    <3> SUFFICES ASSUME NEW p \in Players, NEW e \in EventIds, NEW l \in Levels,
                        stake'[p][e][l] # "none"
                 PROVE  HasBadge(p, l)'
      BY DEF StakesAreBacked, HasBadge
    <3>1. stake[p][e][l] # "none" => HasBadge(p, l)
      BY DEF EconomyInv, StakesAreBacked, HasBadge
    <3> QED BY <1>5, <2>2, <3>1
  <2>4. SlashesKept
    BY <1>5 DEF SlashesKept
  <2> QED BY <1>2, <1>4, <2>1, <2>3, <2>4 DEF EconomyInv
<1>6. CASE \E e \in EventIds, w \in Windows : CreateEvent(e, w)
  BY <1>5, <1>6 DEF CreateEvent, EconomyInv, EconomyTypeOK
<1>7. CASE \E p \in Players, e \in EventIds, l \in Levels : StakeBadge(p, e, l)
  <2>1. PICK p \in Players, e \in EventIds, l \in Levels : StakeBadge(p, e, l)
    BY <1>7
  <2>2. /\ stake[p][e][l] = "none"
        /\ stake' = [stake EXCEPT ![p][e][l] = "staked"]
        /\ event' = event
    BY <2>1 DEF StakeBadge
  <2>3. HasBadge(p, l)
    BY <2>1 DEF StakeBadge, HasBadge, EconomyInv, EconomyTypeOK, TypeOK, AdminTypeOK
  <2> QED BY <1>5, <2>2, <2>3 DEF EconomyInv, EconomyTypeOK
<1>8. CASE \E p \in Players, e \in EventIds, l \in Levels : UnstakeBadge(p, e, l)
  <2>1. PICK p \in Players, e \in EventIds, l \in Levels : UnstakeBadge(p, e, l)
    BY <1>8
  <2>2. /\ stake[p][e][l] = "staked"
        /\ stake' = [stake EXCEPT ![p][e][l] = "none"]
        /\ event' = event
    BY <2>1 DEF UnstakeBadge
  <2> QED BY <1>5, <2>2 DEF EconomyInv, EconomyTypeOK
<1>9. CASE \E p \in Players, e \in EventIds, l \in Levels : SlashExpiredStake(p, e, l)
  <2>1. PICK p \in Players, e \in EventIds, l \in Levels : SlashExpiredStake(p, e, l)
    BY <1>9
  <2>2. /\ stake[p][e][l] # "none"
        /\ stake' = [stake EXCEPT ![p][e][l] = "slashed"]
        /\ event' = event
    BY <2>1 DEF SlashExpiredStake
  <2> QED BY <1>5, <2>2 DEF EconomyInv, EconomyTypeOK
<1> QED BY <1>6, <1>7, <1>8, <1>9 DEF StakeStep

-----------------------------------------------------------------------------
(* Steps that touch neither rewards nor stakes. *)

LEMMA OutsideStepCorrect ==
    ASSUME EconomyInv, UNCHANGED <<rewardVars, stakeVars>>,
           TypeOK', BankInv', questionCount <= questionCount',
           now' \in 0 .. MaxTime, NFT!NftTypeOK',
           \A p \in Players, q \in QuestionIds : GameReward(p, q)' => GameReward(p, q),
           \A p \in Players, l \in Levels : HasBadge(p, l) => HasBadge(p, l)'
    PROVE  EconomyInv' /\ SlashesKept
<1>1. UNCHANGED <<completedPuzzles, rewardToken, defaultReward, puzzleReward, balance, payouts,
                  event, stake>>
  BY DEF rewardVars, stakeVars
<1>2. EconomyTypeOK'
  BY <1>1 DEF EconomyInv, EconomyTypeOK
<1>3. RewardsAreEarned'
  <2> SUFFICES ASSUME NEW p \in Players, NEW q \in QuestionIds
               PROVE  /\ payouts'[p][q] > 0 \/ GameReward(p, q)' => <<p, q>> \in completedPuzzles'
                      /\ <<p, q>> \in completedPuzzles' => q <= questionCount'
    BY DEF RewardsAreEarned, GameReward
  <2>1. /\ payouts[p][q] > 0 \/ GameReward(p, q) => <<p, q>> \in completedPuzzles
        /\ <<p, q>> \in completedPuzzles => q <= questionCount
    BY DEF EconomyInv, RewardsAreEarned, GameReward
  <2>2. q \in Nat /\ questionCount \in Nat /\ questionCount' \in Nat
    BY Domains DEF EconomyInv, BankInv, BankTypeOK
  <2> QED BY <1>1, <2>1, <2>2
<1>4. StakesAreBacked'
  BY <1>1 DEF EconomyInv, StakesAreBacked, HasBadge
<1>5. SlashesKept
  BY <1>1 DEF SlashesKept
<1> QED BY <1>2, <1>3, <1>4, <1>5 DEF EconomyInv

(* The settings, the bank and the clock. *)
LEMMA ContractStepCorrect ==
    ASSUME EconomyInv, Tick \/ AdminStep \/ BankStep \/ UNCHANGED economyVars
    PROVE  EconomyInv' /\ SlashesKept
<1>1. UNCHANGED <<rewardVars, stakeVars, nft>>
  BY DEF Tick, AdminStep, BankStep, economyVars
<1>2. /\ NFT!NftTypeOK'
      /\ \A p \in Players, q \in QuestionIds : GameReward(p, q)' => GameReward(p, q)
      /\ \A p \in Players, l \in Levels : HasBadge(p, l) => HasBadge(p, l)'
  BY <1>1 DEF EconomyInv, EconomyTypeOK, NFT!NftTypeOK, GameReward, HasBadge, NFT!HasLevelBadge
<1>3. now' \in 0 .. MaxTime
  BY EconomyAssumption DEF Tick, AdminStep, BankStep, economyVars, EconomyInv, EconomyTypeOK
<1>4. TypeOK' /\ BankInv' /\ questionCount <= questionCount'
  <2>1. CASE Tick \/ UNCHANGED economyVars
    <3>1. UNCHANGED <<adminVars, bankVars>>
      BY <2>1 DEF Tick, economyVars
    <3> QED BY <3>1, SettingsUnchanged, Domains DEF EconomyInv, BankInv, BankTypeOK
  <2>2. CASE AdminStep
    <3>1. AdminTypeOK'
      BY <2>2, AdminStepType DEF AdminStep, EconomyInv, EconomyTypeOK, TypeOK
    <3>2. BankInv' /\ questionCount' = questionCount
      BY <2>2, BankUnchanged DEF AdminStep, EconomyInv, bankVars
    <3> QED BY <3>1, <3>2, Domains DEF TypeOK, EconomyInv, BankInv, BankTypeOK
  <2>3. CASE BankStep
    <3>1. AdminTypeOK'
      BY <2>3 DEF BankStep, EconomyInv, EconomyTypeOK, TypeOK, AdminTypeOK, adminVars
    <3>2. BankInv' /\ questionCount <= questionCount'
      BY <2>3, BankStepCorrect, CountNeverFalls DEF BankStep, EconomyInv, BankInv
    <3> QED BY <3>1, <3>2 DEF TypeOK, BankInv
  <2> QED BY <2>1, <2>2, <2>3
<1> QED BY <1>1, <1>2, <1>3, <1>4, OutsideStepCorrect

(* The NFT contracts: other minters mint in their own name. *)
LEMMA NftStepCorrect ==
    ASSUME EconomyInv, NftStep
    PROVE  EconomyInv' /\ SlashesKept
<1>1. UNCHANGED <<adminVars, bankVars, rewardVars, stakeVars, now>>
  BY DEF NftStep
<1>2. TypeOK' /\ BankInv' /\ questionCount' = questionCount
  BY <1>1, SettingsUnchanged
<1>3. NFT!NftTypeOK
  BY DEF EconomyInv, EconomyTypeOK
<1>4. /\ NFT!NftTypeOK'
      /\ \A p \in Players, q \in QuestionIds : GameReward(p, q)' => GameReward(p, q)
      /\ \A p \in Players, l \in Levels : HasBadge(p, l) => HasBadge(p, l)'
  <2>1. CASE \E c \in NftContracts : NFT!NftAdminNext(c)
    BY <1>3, <2>1, NftAdminEffect DEF GameReward, HasBadge, NFT!HasLevelBadge
  <2>2. CASE \E c \in NftContracts, m \in OtherMinters, p \in Players, l \in Levels :
                NFT!MintLevelBadge(c, m, p, l)
    BY <1>3, <2>2, BadgeMintEffect DEF GameReward, HasBadge, NFT!HasLevelBadge
  <2>3. CASE \E c \in NftContracts, m \in OtherMinters, p \in Players, q \in QuestionIds :
                NFT!MintPuzzleReward(c, m, p, q)
    <3>1. PICK c \in NftContracts, m \in OtherMinters, p \in Players, q \in QuestionIds :
             NFT!MintPuzzleReward(c, m, p, q)
      BY <2>3
    <3>2. m \in {Game} \cup OtherMinters /\ m # Game
      BY EconomyAssumption
    <3>3. /\ NFT!NftTypeOK'
          /\ \A d \in NftContracts : nft'[d].badge = nft[d].badge
          /\ \A d \in NftContracts, r \in Players, k \in QuestionIds :
                nft'[d].reward[r][k] = IF d = c /\ r = p /\ k = q THEN m
                                       ELSE nft[d].reward[r][k]
      BY <1>3, <3>1, <3>2, RewardMintEffect
    <3> QED BY <3>2, <3>3 DEF GameReward, HasBadge, NFT!HasLevelBadge
  <2> QED BY <2>1, <2>2, <2>3 DEF NftStep
<1>5. now' \in 0 .. MaxTime /\ questionCount <= questionCount'
  BY <1>1, <1>2, Domains DEF EconomyInv, EconomyTypeOK, BankInv, BankTypeOK
<1> QED BY <1>1, <1>2, <1>4, <1>5, OutsideStepCorrect

-----------------------------------------------------------------------------
(* The theorems. *)

LEMMA EconomyInitCorrect == EconomyInit => EconomyInv
<1> SUFFICES ASSUME EconomyInit PROVE EconomyInv
  OBVIOUS
<1>1. BankInv /\ TypeOK
  BY AdminInitCorrect, BankInitCorrect DEF EconomyInit, BankInv, TypeOK
<1>2. /\ NFT!NftTypeOK
      /\ \A c \in NftContracts, p \in Players, q \in QuestionIds : nft[c].reward[p][q] # Game
  BY EconomyAssumption DEF EconomyInit, NFT!NftInit, NFT!NftTypeOK, NFT!NftRecord
<1>3. EconomyTypeOK
  BY <1>1, <1>2, EconomyAssumption DEF EconomyInit, EconomyTypeOK, Holders
<1>4. RewardsAreEarned
  BY <1>2 DEF EconomyInit, RewardsAreEarned
<1>5. StakesAreBacked
  BY DEF EconomyInit, StakesAreBacked
<1> QED BY <1>1, <1>3, <1>4, <1>5 DEF EconomyInv

LEMMA EconomyStepCorrect ==
    ASSUME EconomyInv, [EconomyNext]_economyVars
    PROVE  EconomyInv' /\ SlashesKept
BY RewardStepCorrect, StakeStepCorrect, ContractStepCorrect, NftStepCorrect DEF EconomyNext

(* The inductive invariant of rewards and stakes, through every            *)
(* interleaving with the bank, the settings, the NFT contracts and time.   *)
THEOREM EconomyInvariance == EconomySpec => []EconomyInv
<1>1. EconomyInv /\ [EconomyNext]_economyVars => EconomyInv'
  BY EconomyStepCorrect
<1> QED BY <1>1, EconomyInitCorrect, PTL DEF EconomySpec

(* Every stored value keeps its type; balances never become negative. *)
THEOREM EconomyTypeCorrect == EconomySpec => []EconomyTypeOK
<1>1. EconomyInv => EconomyTypeOK
  BY DEF EconomyInv
<1> QED BY <1>1, EconomyInvariance, PTL

(* Nobody is paid for a puzzle, or given its NFT by the game, without      *)
(* having completed it while it was stored.                                *)
THEOREM RewardsCorrect == EconomySpec => []RewardsAreEarned
<1>1. EconomyInv => RewardsAreEarned
  BY DEF EconomyInv
<1> QED BY <1>1, EconomyInvariance, PTL

(* Every stake is backed by a badge on some NFT contract. *)
THEOREM StakesCorrect == EconomySpec => []StakesAreBacked
<1>1. EconomyInv => StakesAreBacked
  BY DEF EconomyInv
<1> QED BY <1>1, EconomyInvariance, PTL

(* A slashed stake stays slashed for ever. *)
THEOREM SlashCorrect == EconomySpec => SlashIsFinal
<1>1. EconomyInv /\ [EconomyNext]_economyVars => [SlashesKept]_economyVars
  BY EconomyStepCorrect
<1> QED BY <1>1, EconomyInvariance, PTL DEF EconomySpec, SlashIsFinal, SlashesKept
=============================================================================
