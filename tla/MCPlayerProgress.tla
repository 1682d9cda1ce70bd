-------------------------- MODULE MCPlayerProgress ---------------------------
(***************************************************************************)
(* A model of PlayerProgress that starts from a configured deployment,     *)
(* one that a handful of administrative steps lead to from HuntInit, and   *)
(* then allows MaxConfigSteps further steps of the administrators and of   *)
(* other minters, at any time, between the steps of the players.           *)
(***************************************************************************)
EXTENDS PlayerProgress

CONSTANTS MaxConfigSteps, FirstNft

VARIABLE configSteps

mcVars == <<progressAllVars, configSteps>>

(* The first level has as many questions as its cap asks for; question 1   *)
(* may have been stored by the legacy deployment.                          *)
Stored == 1 .. DefaultCap

MCInit ==
    /\ configSteps = 0
    /\ \E a \in Accounts :
          /\ admin = a
          /\ nft = [c \in NftContracts |->
                      [admin   |-> IF c = FirstNft THEN a ELSE NoOne,
                       pending |-> NoOne, paused |-> FALSE,
                       minters |-> IF c = FirstNft THEN {Game} ELSE {},
                       badge   |-> Blank(NoOne),
                       reward  |-> [p \in Players |-> [q \in QuestionIds |-> NoOne]]]]
    /\ schemaVersion \in {LegacySchemaVersion, CurrentSchemaVersion}
    /\ upgrader = IF schemaVersion = LegacySchemaVersion THEN NoOne ELSE admin
    /\ pendingAdmin = NoOne /\ roles = {} /\ paused = FALSE /\ wasm = NoOne
    /\ nftContract = FirstNft
    /\ questionLevel = [q \in QuestionIds |-> IF q \in Stored THEN 1 ELSE Absent]
    /\ retired = {}
    /\ questionCount = DefaultCap
    /\ slot = [l \in Levels |-> [i \in Slots |->
                  IF l = 1 /\ i + 1 \in Stored THEN i + 1 ELSE Absent]]
    /\ indexCount = [l \in Levels |-> IF l = 1 THEN DefaultCap ELSE 0]
    /\ globalCap = Absent /\ levelCap = [l \in Levels |-> Absent]
    /\ ledger = 1
    /\ playerV2 = [p \in Players |-> Absent]
    /\ levelV2 = Blank(NoRecord)
    /\ compacted = {}
    /\ \E known \in (IF schemaVersion = LegacySchemaVersion THEN SUBSET Players ELSE {{}}) :
          \E right \in SUBSET known : LegacyPlayers(known, right)

ConfigStep == GameAdminStep \/ BankStep \/ NftAdminStep \/ OtherMint

MCNext ==
    \/ (PlayerNext \/ CloseLedger) /\ UNCHANGED configSteps
    \/ /\ configSteps < MaxConfigSteps
       /\ ConfigStep
       /\ configSteps' = configSteps + 1

MCSpec == MCInit /\ [][MCNext]_mcVars
=============================================================================
