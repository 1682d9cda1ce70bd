---------------------------- MODULE MCHuntEconomy ----------------------------
(***************************************************************************)
(* A model of HuntEconomy that starts from a configured deployment (one    *)
(* that a few administrative steps lead to from EconomyInit) and allows    *)
(* MaxConfigSteps further steps of administrators and other minters.       *)
(***************************************************************************)
EXTENDS HuntEconomy

CONSTANTS MaxConfigSteps, FirstNft, FirstToken

MCWindows == {<<0, 1>>, <<2, 3>>, <<3, 2>>}
FirstWindow == <<0, 1>>

VARIABLE configSteps

mcVars == <<economyVars, configSteps>>

MCInit ==
    /\ configSteps = 0
    /\ \E a \in Accounts :
          /\ admin = a /\ upgrader = a
          /\ nft = [c \in NftContracts |->
                      [admin   |-> IF c = FirstNft THEN a ELSE NoOne,
                       pending |-> NoOne, paused |-> FALSE,
                       minters |-> IF c = FirstNft THEN {Game} \cup OtherMinters ELSE {},
                       badge   |-> [p \in Players |-> [l \in Levels |-> NoOne]],
                       reward  |-> [p \in Players |-> [q \in QuestionIds |-> NoOne]]]]
    /\ pendingAdmin = NoOne /\ roles = {} /\ paused = FALSE /\ wasm = NoOne
    /\ schemaVersion = CurrentSchemaVersion
    /\ nftContract = FirstNft
    /\ questionLevel = [q \in QuestionIds |-> IF q = 1 THEN 1 ELSE Absent]
    /\ retired = {} /\ questionCount = 1
    /\ slot = [l \in Levels |-> [i \in Slots |-> IF l = 1 /\ i = 0 THEN 1 ELSE Absent]]
    /\ indexCount = [l \in Levels |-> IF l = 1 THEN 1 ELSE 0]
    /\ globalCap = Absent /\ levelCap = [l \in Levels |-> Absent]
    /\ completedPuzzles = {} /\ rewardToken = FirstToken /\ defaultReward = Unset
    /\ puzzleReward = [q \in QuestionIds |-> IF q = 1 THEN 1 ELSE Unset]
    /\ balance = [t \in Tokens |-> [h \in Holders |-> IF h = Game THEN Funds ELSE 0]]
    /\ payouts = [p \in Players |-> [q \in QuestionIds |-> 0]]
    /\ event = [e \in EventIds |-> FirstWindow]
    /\ stake = [p \in Players |-> [e \in EventIds |-> [l \in Levels |-> "none"]]]
    /\ now = 0

(* Whether a step is one of an administrator or of another minter. *)
Configures ==
    \/ adminVars' # adminVars
    \/ bankVars' # bankVars
    \/ event' # event
    \/ <<rewardToken, defaultReward, puzzleReward>>' # <<rewardToken, defaultReward, puzzleReward>>
    \/ NftStep

MCNext ==
    /\ EconomyNext
    /\ IF Configures
       THEN configSteps < MaxConfigSteps /\ configSteps' = configSteps + 1
       ELSE UNCHANGED configSteps

MCSpec == MCInit /\ [][MCNext]_mcVars
=============================================================================
