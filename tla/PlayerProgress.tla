--------------------------- MODULE PlayerProgress ----------------------------
(***************************************************************************)
(* What players do in the hunt: answer the questions of a level in index   *)
(* order, complete levels and claim the level badge.  The module composes  *)
(* the question bank and the settings of the game contract with the NFT    *)
(* contract it mints on.                                                   *)
(*                                                                         *)
(* Progress records exist in two layouts.  Readers prefer the versioned    *)
(* (V2) record and fall back to the legacy (V1) one; writers store V2 and  *)
(* remove V1.  Whether an answer matches the stored hash is the player's   *)
(* input.                                                                  *)
(***************************************************************************)
EXTENDS QuestionBank

CONSTANTS
    Players,
    Game,           \* the game contract's own address, its minter identity
    OtherMinters,   \* other addresses an NFT contract may register
    NoRecord,       \* a missing level record
    MaxLedger       \* bound on the ledger sequence number

(* The game's address is its own, and the sentinels are neither an address *)
(* nor a record.  Ledger numbers start above the 0 of a record that was    *)
(* never answered.                                                         *)
ASSUME HuntAssumption ==
    /\ Game \notin OtherMinters
    /\ NoOne \notin {Game} \cup OtherMinters
    /\ NoRecord \notin
          [index : Nat, completed : BOOLEAN, attempts : Nat, minted : BOOLEAN, lastLedger : Nat]
    /\ MaxLedger \in Nat \ {0}

VARIABLES
    playerV1, playerV2,     \* current_level of DataKey::PlayerProgress(V2)
    levelV1, levelV2,       \* DataKey::PlayerLevelProgress(V2)
    ledger,                 \* env.ledger().sequence()
    nft,                    \* storage of the NFT contracts
    answered,               \* history: the questions a player got right, per level
    compacted               \* history: levels whose index ever lost a question

progressVars == <<playerV1, playerV2, levelV1, levelV2>>
historyVars  == <<answered, compacted>>

NFT == INSTANCE StellarHuntsNft WITH
    Minters <- {Game} \cup OtherMinters,
    NftLevels <- Levels,
    PuzzleIds <- QuestionIds

LevelProgress ==
    [index : Nat, completed : BOOLEAN, attempts : Nat, minted : BOOLEAN, lastLedger : Nat]

FreshLevel ==
    [index |-> 0, completed |-> FALSE, attempts |-> 0, minted |-> FALSE, lastLedger |-> 0]

(* A slip: no level after the last one. *)
NextLevelUnbounded(l) == l + 1

NextLevel(l) == IF l < LastLevel THEN l + 1 ELSE LastLevel

-----------------------------------------------------------------------------
(* Reading and writing the records. *)

ReadPlayer(p)   == IF playerV2[p] # Absent THEN playerV2[p] ELSE playerV1[p]
ReadLevel(p, l) == IF levelV2[p][l] # NoRecord THEN levelV2[p][l] ELSE levelV1[p][l]

(* A slip: the legacy record is not looked at. *)
IsNewByVersion(p) == playerV2[p] = Absent

(* The entry points initialise a player they have not seen before, which   *)
(* writes a fresh record for the first level.                              *)
IsNew(p) == ReadPlayer(p) = Absent
Resets(p, l) == IsNew(p) /\ l = 1
Seen(p, l) == IF Resets(p, l) THEN FreshLevel ELSE ReadLevel(p, l)

(* A slip: the legacy record stays behind. *)
WriteLevelKeepingLegacy(p, l, rec) ==
    /\ levelV2' = [levelV2 EXCEPT ![p] = [m \in Levels |->
                     IF m = l THEN rec ELSE IF Resets(p, m) THEN FreshLevel ELSE @[m]]]
    /\ UNCHANGED levelV1

WriteLevel(p, l, rec) ==
    /\ levelV2' = [levelV2 EXCEPT ![p] = [m \in Levels |->
                     IF m = l THEN rec ELSE IF Resets(p, m) THEN FreshLevel ELSE @[m]]]
    /\ levelV1' = [levelV1 EXCEPT ![p] = [m \in Levels |->
                     IF m = l \/ Resets(p, m) THEN NoRecord ELSE @[m]]]

WritePlayer(p, current) ==
    /\ playerV2' = [playerV2 EXCEPT ![p] = current]
    /\ playerV1' = [playerV1 EXCEPT ![p] = Absent]

KeepPlayer(p) ==
    IF IsNew(p) THEN WritePlayer(p, 1) ELSE UNCHANGED <<playerV1, playerV2>>

-----------------------------------------------------------------------------
(* Player entry points. *)

(* The question the level's index holds at the player's cursor. *)
Expected(l, rec) == IF rec.index \in Slots THEN slot[l][rec.index] ELSE Absent

(* Slips: every attempt moves the cursor, or the ledger is not recorded. *)
AttemptedAlwaysAdvancing(rec, correct) ==
    [rec EXCEPT !.lastLedger = ledger, !.attempts = @ + 1, !.index = @ + 1]
AttemptedWithoutLedger(rec, correct) ==
    [rec EXCEPT !.attempts = @ + 1, !.index = IF correct THEN @ + 1 ELSE @]

Attempted(rec, correct) ==
    [rec EXCEPT !.lastLedger = ledger,
                !.attempts   = @ + 1,
                !.index      = IF correct THEN @ + 1 ELSE @]

SubmitAnswer(p, q, correct) ==
    LET l    == questionLevel[q]
        rec  == IF Seen(p, l) = NoRecord THEN FreshLevel ELSE Seen(p, l)
        next == Attempted(rec, correct)
        done == correct /\ next.index >= CapForLevel(l)
    IN  /\ NotPaused
        /\ l # Absent
        /\ q \notin retired
        /\ Expected(l, rec) = q
        /\ rec.lastLedger # ledger
        /\ WriteLevel(p, l, [next EXCEPT !.completed = @ \/ done])
        /\ IF done THEN WritePlayer(p, NextLevel(l)) ELSE KeepPlayer(p)
        /\ answered' = IF correct THEN [answered EXCEPT ![p][l] = @ \cup {q}] ELSE answered
        /\ UNCHANGED <<adminVars, bankVars, ledger, nft, compacted>>

(* A slip: the flag is not looked at, only the NFT contract's own check. *)
ClaimLevelNftAgain(p, l) ==
    LET rec == Seen(p, l)
    IN  /\ NotPaused
        /\ rec # NoRecord
        /\ rec.completed
        /\ nftContract # NoOne
        /\ NFT!MintLevelBadge(nftContract, Game, p, l)
        /\ WriteLevel(p, l, [rec EXCEPT !.minted = TRUE])
        /\ KeepPlayer(p)
        /\ UNCHANGED <<adminVars, bankVars, ledger, historyVars>>

(* claim_level_completion_nft and mint_level_badge.  The flag is written   *)
(* after the cross-contract call; if the NFT contract refuses, the whole   *)
(* invocation is undone.                                                   *)
ClaimLevelNft(p, l) ==
    LET rec == Seen(p, l)
    IN  /\ NotPaused
        /\ rec # NoRecord
        /\ rec.completed
        /\ ~rec.minted
        /\ nftContract # NoOne
        /\ NFT!MintLevelBadge(nftContract, Game, p, l)
        /\ WriteLevel(p, l, [rec EXCEPT !.minted = TRUE])
        /\ KeepPlayer(p)
        /\ UNCHANGED <<adminVars, bankVars, ledger, historyVars>>

PlayerNext ==
    \E p \in Players :
        \/ \E q \in QuestionIds, correct \in BOOLEAN : SubmitAnswer(p, q, correct)
        \/ \E l \in Levels : ClaimLevelNft(p, l)

(* A ledger closes. *)
CloseLedger ==
    /\ ledger < MaxLedger
    /\ ledger' = ledger + 1
    /\ UNCHANGED <<adminVars, bankVars, progressVars, nft, historyVars>>

-----------------------------------------------------------------------------
(* Steps of the administrators and of other minters. *)

GameAdminStep ==
    /\ AdminNext
    /\ UNCHANGED <<bankVars, progressVars, ledger, nft, historyVars>>

BankStep ==
    /\ BankNext
    /\ compacted' = compacted \cup {l \in Levels : indexCount'[l] < indexCount[l]}
    /\ UNCHANGED <<adminVars, progressVars, ledger, nft, answered>>

NftAdminStep ==
    /\ \E c \in NftContracts : NFT!NftAdminNext(c)
    /\ UNCHANGED <<adminVars, bankVars, progressVars, ledger, historyVars>>

OtherMint ==
    /\ \E c \in NftContracts, m \in OtherMinters, p \in Players, l \in Levels :
           NFT!MintLevelBadge(c, m, p, l)
    /\ UNCHANGED <<adminVars, bankVars, progressVars, ledger, historyVars>>

progressAllVars ==
    <<adminVars, bankVars, progressVars, ledger, nft, historyVars>>

(* A player known to the pre-versioning deployment answered its only       *)
(* question once, in ledger 1, rightly or wrongly.                         *)
LegacyLevel(correct) ==
    [index      |-> IF correct THEN 1 ELSE 0,
     completed  |-> correct /\ 1 >= DefaultCap,
     attempts   |-> 1, minted |-> FALSE, lastLedger |-> 1]

Blank(x) == [p \in Players |-> [l \in Levels |-> x]]

LegacyPlayers(known, right) ==
    /\ playerV1 = [p \in Players |->
                     IF p \notin known THEN Absent
                     ELSE IF LegacyLevel(p \in right).completed THEN NextLevel(1) ELSE 1]
    /\ levelV1 = [p \in Players |-> [l \in Levels |->
                     IF p \in known /\ l = 1 THEN LegacyLevel(p \in right) ELSE NoRecord]]
    /\ answered = [p \in Players |-> [l \in Levels |->
                     IF p \in right /\ l = 1 THEN {1} ELSE {}]]

ProgressInit ==
    /\ playerV2 = [p \in Players |-> Absent]
    /\ levelV2 = Blank(NoRecord)
    /\ compacted = {}
    /\ IF schemaVersion = LegacySchemaVersion
       THEN /\ ledger = 1
            /\ \E known \in SUBSET Players : \E right \in SUBSET known :
                   LegacyPlayers(known, right)
       ELSE ledger = 0 /\ LegacyPlayers({}, {})

HuntInit == Init /\ NFT!NftInit /\ ProgressInit

HuntNext ==
    \/ PlayerNext
    \/ CloseLedger
    \/ GameAdminStep
    \/ BankStep
    \/ NftAdminStep
    \/ OtherMint

HuntSpec == HuntInit /\ [][HuntNext]_progressAllVars

-----------------------------------------------------------------------------
(* Properties. *)

(* Every record, flag and history variable has its type. *)
HuntTypeOK ==
    /\ TypeOK
    /\ NFT!NftTypeOK
    /\ ledger \in 0 .. MaxLedger
    /\ playerV1 \in [Players -> Levels \cup {Absent}]
    /\ playerV2 \in [Players -> Levels \cup {Absent}]
    /\ levelV1 \in [Players -> [Levels -> LevelProgress \cup {NoRecord}]]
    /\ levelV2 \in [Players -> [Levels -> LevelProgress \cup {NoRecord}]]
    /\ answered \in [Players -> [Levels -> SUBSET QuestionIds]]
    /\ compacted \subseteq Levels

Exists(p, l) == ReadLevel(p, l) # NoRecord

(* The lazy migration never leaves both layouts of a record in storage,    *)
(* and a level record never exists without its player record.  If it did,  *)
(* the next call would take the player for a new one and overwrite the     *)
(* first level's progress.                                                 *)
RecordsAreConsistent ==
    \A p \in Players :
        /\ playerV1[p] = Absent \/ playerV2[p] = Absent
        /\ \A l \in Levels :
              /\ levelV1[p][l] = NoRecord \/ levelV2[p][l] = NoRecord
              /\ Exists(p, l) => ~IsNew(p)

(* Answers are limited to one attempt per ledger and level, however calls, *)
(* question changes and migrations interleave: correct answers never       *)
(* outnumber attempts, nor attempts the ledgers that have closed.          *)
ProgressIsPaced ==
    \A p \in Players, l \in Levels : Exists(p, l) =>
        LET rec == ReadLevel(p, l)
        IN  /\ rec.index <= rec.attempts
            /\ rec.attempts <= rec.lastLedger
            /\ rec.lastLedger <= ledger

(* As long as a level's index has only grown, a player's cursor counts     *)
(* distinct questions: it stands after exactly those the player got right. *)
(* (Once a question was moved or retired this is lost, see the README.)    *)
CursorCountsAnswers ==
    \A p \in Players, l \in Levels : l \notin compacted /\ Exists(p, l) =>
        /\ ReadLevel(p, l).index <= indexCount[l]
        /\ answered[p][l] = {slot[l][i] : i \in 0 .. ReadLevel(p, l).index - 1}

MintedByGame(p, l) == {c \in NftContracts : nft[c].badge[p][l] = Game}

(* The game and the NFT contract agree: the game has minted a player's     *)
(* badge exactly when its own flag says so, on one NFT contract only       *)
(* (whatever the admin pointed the game at in between), and only for a     *)
(* completed level.                                                        *)
BadgeAgreesWithProgress ==
    \A p \in Players, l \in Levels :
        /\ Cardinality(MintedByGame(p, l)) <= 1
        /\ MintedByGame(p, l) # {} <=> Exists(p, l) /\ ReadLevel(p, l).minted
        /\ MintedByGame(p, l) # {} => ReadLevel(p, l).completed

(* Nothing a player achieved is ever lost, neither by the migration of a   *)
(* record nor by initialising a player nor by any administrative step.     *)
ProgressNeverLost ==
    [][\A p \in Players, l \in Levels : Exists(p, l) =>
          /\ Exists(p, l)'
          /\ ReadLevel(p, l)'.index >= ReadLevel(p, l).index
          /\ ReadLevel(p, l)'.attempts >= ReadLevel(p, l).attempts
          /\ ReadLevel(p, l).completed => ReadLevel(p, l)'.completed
          /\ ReadLevel(p, l).minted => ReadLevel(p, l)'.minted
      ]_progressAllVars

(* The comment in set_question_cap_for_level: caps below the index are     *)
(* rejected "so the level remains completable for players already in       *)
(* progress", that is, whoever has not completed a level with a cap of its *)
(* own still has answers to give before reaching the cap.                  *)
LevelStaysCompletable ==
    \A p \in Players, l \in Levels :
        levelCap[l] # Absent /\ Exists(p, l) /\ ~ReadLevel(p, l).completed
            => ReadLevel(p, l).index < levelCap[l]

(* onchain/docs/event-schema.md: level_completed is emitted when the       *)
(* "Final active question in level answered correctly", that is, a level   *)
(* becomes complete by an answer after which no indexed question is left.  *)
CompletedByLastQuestion ==
    [][\A p \in Players, l \in Levels :
          /\ Exists(p, l)' /\ ReadLevel(p, l)'.completed
          /\ ~(Exists(p, l) /\ ReadLevel(p, l).completed)
          => ReadLevel(p, l)'.index >= indexCount[l]
      ]_progressAllVars
=============================================================================
