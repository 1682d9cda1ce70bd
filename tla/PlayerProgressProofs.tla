------------------------ MODULE PlayerProgressProofs -------------------------
(***************************************************************************)
(* Proofs about PlayerProgress, for every number of players, levels and    *)
(* questions, every NFT contract and every minter beside the game.         *)
(***************************************************************************)
EXTENDS PlayerProgress, QuestionBankProofs, FiniteSetTheorems

-----------------------------------------------------------------------------
(* The inductive invariant.  Two facts the properties rest on are missing  *)
(* from them: a player without a record of a level has no right answers in *)
(* it, so that a record created later starts where the history does; and   *)
(* the index below the cursors is the bank's (BankInv).                    *)

NoRecordNoAnswers ==
    \A p \in Players, l \in Levels : ~Exists(p, l) => answered[p][l] = {}

HuntInv ==
    /\ HuntTypeOK
    /\ BankInv
    /\ RecordsAreConsistent
    /\ ProgressIsPaced
    /\ NoRecordNoAnswers
    /\ CursorCountsAnswers
    /\ BadgeAgreesWithProgress

-----------------------------------------------------------------------------
(* Records. *)

LEMMA FreshLevelType == FreshLevel \in LevelProgress
BY DEF FreshLevel, LevelProgress

LEMMA NoRecordIsNone == \A rec \in LevelProgress : rec # NoRecord
BY HuntAssumption DEF LevelProgress

(* What a reader finds is a record or nothing, a level or nothing. *)
LEMMA ReadType ==
    ASSUME HuntTypeOK, NEW p \in Players
    PROVE  /\ ReadPlayer(p) \in Levels \cup {Absent}
           /\ \A l \in Levels : ReadLevel(p, l) \in LevelProgress \cup {NoRecord}
BY DEF HuntTypeOK, ReadPlayer, ReadLevel

(* Writing a level record and, in the same invocation, the player record:  *)
(* readers find the new record, the fresh first level of a player nobody   *)
(* had seen, and every other record as it was, in one layout each.         *)
LEMMA RecordWrite ==
    ASSUME HuntTypeOK, RecordsAreConsistent,
           NEW p \in Players, NEW l \in Levels, NEW rec \in LevelProgress,
           WriteLevel(p, l, rec),
           KeepPlayer(p) \/ \E current \in Levels : WritePlayer(p, current)
    PROVE  /\ levelV1' \in [Players -> [Levels -> LevelProgress \cup {NoRecord}]]
           /\ levelV2' \in [Players -> [Levels -> LevelProgress \cup {NoRecord}]]
           /\ playerV1' \in [Players -> Levels \cup {Absent}]
           /\ playerV2' \in [Players -> Levels \cup {Absent}]
           /\ \A q \in Players, m \in Levels :
                 ReadLevel(q, m)' = IF q = p /\ m = l THEN rec
                                    ELSE IF q = p /\ Resets(p, m) THEN FreshLevel
                                    ELSE ReadLevel(q, m)
           /\ RecordsAreConsistent'
<1> USE DEF HuntTypeOK
<1>1. /\ levelV2' = [levelV2 EXCEPT ![p] = [m \in Levels |->
                     IF m = l THEN rec ELSE IF Resets(p, m) THEN FreshLevel ELSE levelV2[p][m]]]
      /\ levelV1' = [levelV1 EXCEPT ![p] = [m \in Levels |->
                     IF m = l \/ Resets(p, m) THEN NoRecord ELSE levelV1[p][m]]]
  BY DEF WriteLevel
<1>2. /\ levelV1' \in [Players -> [Levels -> LevelProgress \cup {NoRecord}]]
      /\ levelV2' \in [Players -> [Levels -> LevelProgress \cup {NoRecord}]]
  BY <1>1, FreshLevelType
<1>3. \A q \in Players, m \in Levels :
         /\ q # p => levelV1'[q][m] = levelV1[q][m] /\ levelV2'[q][m] = levelV2[q][m]
         /\ q = p => /\ levelV1'[q][m] = IF m = l \/ Resets(p, m) THEN NoRecord
                                         ELSE levelV1[p][m]
                     /\ levelV2'[q][m] = IF m = l THEN rec
                                         ELSE IF Resets(p, m) THEN FreshLevel
                                         ELSE levelV2[p][m]
  BY <1>1
<1>4. FreshLevel # NoRecord /\ rec # NoRecord
  BY FreshLevelType, NoRecordIsNone
<1>5. \A q \in Players, m \in Levels :
         ReadLevel(q, m)' = IF q = p /\ m = l THEN rec
                            ELSE IF q = p /\ Resets(p, m) THEN FreshLevel
                            ELSE ReadLevel(q, m)
  BY <1>3, <1>4 DEF ReadLevel
<1>6. 1 \in Levels
  BY BankAssumption DEF Levels
<1>7. /\ playerV1' \in [Players -> Levels \cup {Absent}]
      /\ playerV2' \in [Players -> Levels \cup {Absent}]
  BY <1>6 DEF KeepPlayer, WritePlayer
<1>8. /\ \A q \in Players : playerV1'[q] = Absent \/ playerV2'[q] = Absent
      /\ ~IsNew(p)'
      /\ \A q \in Players : q # p => (IsNew(q)' <=> IsNew(q))
  BY <1>6, Domains DEF KeepPlayer, WritePlayer, IsNew, ReadPlayer, RecordsAreConsistent
<1>9. RecordsAreConsistent'
  <2>1. ASSUME NEW q \in Players, NEW m \in Levels
        PROVE  /\ levelV1'[q][m] = NoRecord \/ levelV2'[q][m] = NoRecord
               /\ Exists(q, m)' => ~IsNew(q)'
    BY <1>3, <1>5, <1>8 DEF RecordsAreConsistent, Exists
  <2> QED BY <1>8, <2>1 DEF RecordsAreConsistent
<1> QED BY <1>2, <1>5, <1>7, <1>9
-----------------------------------------------------------------------------
(* What the other components do to the state these properties read. *)

(* Storing one contract's record leaves the other contracts alone. *)
LEMMA NftWrite ==
    ASSUME NFT!NftTypeOK, NEW c \in NftContracts, NEW rec \in NFT!NftRecord,
           nft' = [nft EXCEPT ![c] = rec]
    PROVE  /\ NFT!NftTypeOK'
           /\ \A d \in NftContracts : nft'[d] = IF d = c THEN rec ELSE nft[d]
BY DEF NFT!NftTypeOK

(* Minting changes one badge that was missing, and no other one. *)
LEMMA MintEffect ==
    ASSUME NFT!NftTypeOK, NEW c \in NftContracts, NEW m \in {Game} \cup OtherMinters,
           NEW p \in Players, NEW l \in Levels, NFT!MintLevelBadge(c, m, p, l)
    PROVE  /\ NFT!NftTypeOK'
           /\ nft[c].badge[p][l] = NoOne
           /\ \A d \in NftContracts, q \in Players, k \in Levels :
                 nft'[d].badge[q][k] = IF d = c /\ q = p /\ k = l THEN m
                                       ELSE nft[d].badge[q][k]
<1> DEFINE badge == [nft[c].badge EXCEPT ![p][l] = m]
           rec   == [nft[c] EXCEPT !.badge = badge]
<1>1. nft[c] \in NFT!NftRecord
  BY DEF NFT!NftTypeOK
<1>2. /\ badge \in [Players -> [Levels -> {Game} \cup OtherMinters \cup {NoOne}]]
      /\ \A q \in Players, k \in Levels :
            badge[q][k] = IF q = p /\ k = l THEN m ELSE nft[c].badge[q][k]
  BY <1>1 DEF NFT!NftRecord
<1>3. nft' = [nft EXCEPT ![c] = rec] /\ nft[c].badge[p][l] = NoOne
  BY DEF NFT!MintLevelBadge, NFT!HasLevelBadge
<1> HIDE DEF badge
<1>4. rec \in NFT!NftRecord /\ rec.badge = badge
  BY <1>1, <1>2 DEF NFT!NftRecord
<1> HIDE DEF rec
<1>5. /\ NFT!NftTypeOK'
      /\ \A d \in NftContracts : nft'[d] = IF d = c THEN rec ELSE nft[d]
  BY <1>3, <1>4, NftWrite
<1> QED BY <1>2, <1>3, <1>4, <1>5

(* Administering an NFT contract moves no badge. *)
LEMMA NftAdminEffect ==
    ASSUME NFT!NftTypeOK, NEW c \in NftContracts, NFT!NftAdminNext(c)
    PROVE  /\ NFT!NftTypeOK'
           /\ \A d \in NftContracts : nft'[d].badge = nft[d].badge
<1>1. nft[c] \in NFT!NftRecord
  BY DEF NFT!NftTypeOK
<1>2. PICK rec \in NFT!NftRecord : nft' = [nft EXCEPT ![c] = rec] /\ rec.badge = nft[c].badge
  <2> DEFINE Effect(rec) == /\ rec \in NFT!NftRecord
                            /\ nft' = [nft EXCEPT ![c] = rec]
                            /\ rec.badge = nft[c].badge
  <2>1. ASSUME NEW a \in Accounts, NEW m \in {Game} \cup OtherMinters, NFT!InitNft(c, a, m)
        PROVE  Effect([nft[c] EXCEPT !.admin = a, !.minters = @ \cup {m}])
    BY <1>1, <2>1 DEF NFT!InitNft, NFT!NftRecord
  <2>2. ASSUME NEW a \in Accounts, NFT!ProposeNftAdmin(c, a)
        PROVE  Effect([nft[c] EXCEPT !.pending = a])
    BY <1>1, <2>2 DEF NFT!ProposeNftAdmin, NFT!NftRecord
  <2>3. ASSUME NFT!AcceptNftAdmin(c)
        PROVE  Effect([nft[c] EXCEPT !.admin = nft[c].pending, !.pending = NoOne])
    BY <1>1, <2>3 DEF NFT!AcceptNftAdmin, NFT!NftRecord
  <2>4. ASSUME NEW b \in BOOLEAN, NFT!SetNftPaused(c, b)
        PROVE  Effect([nft[c] EXCEPT !.paused = b])
    BY <1>1, <2>4 DEF NFT!SetNftPaused, NFT!NftRecord
  <2>5. ASSUME NEW m \in {Game} \cup OtherMinters, NFT!GrantMinterRole(c, m)
        PROVE  Effect([nft[c] EXCEPT !.minters = @ \cup {m}])
    BY <1>1, <2>5 DEF NFT!GrantMinterRole, NFT!NftRecord
  <2>6. ASSUME NEW m \in {Game} \cup OtherMinters, NFT!RevokeMinterRole(c, m)
        PROVE  Effect([nft[c] EXCEPT !.minters = @ \ {m}])
    BY <1>1, <2>6 DEF NFT!RevokeMinterRole, NFT!NftRecord
  <2>7. \E rec : Effect(rec)
    <3> HIDE DEF Effect
    <3> QED BY <2>1, <2>2, <2>3, <2>4, <2>5, <2>6 DEF NFT!NftAdminNext
  <2> QED BY <2>7
<1>3. /\ NFT!NftTypeOK'
      /\ \A d \in NftContracts : nft'[d] = IF d = c THEN rec ELSE nft[d]
  BY <1>2, NftWrite
<1> QED BY <1>2, <1>3

(* A step of the bank after which a level has no fewer questions than      *)
(* before leaves the questions the level had in their slots.               *)
LEMMA BankStepKeepsSlots ==
    ASSUME BankInv, BankNext, NEW l \in Levels, ~(indexCount'[l] < indexCount[l])
    PROVE  /\ indexCount[l] <= indexCount'[l]
           /\ \A i \in Slots : i < indexCount[l] => slot'[l][i] = slot[l][i]
<1> USE DEF BankInv
<1>0. indexCount[l] \in Nat /\ indexCount'[l] \in Nat
  <2>1. BankInv'
    BY BankStepCorrect
  <2> QED BY <2>1, Domains DEF BankTypeOK
<1>1. ASSUME NEW m \in Levels, NEW q \in QuestionIds, HasRoom(m),
             slot'[m] = Appended(m, q), indexCount'[m] = indexCount[m] + 1
      PROVE  /\ indexCount[m] <= indexCount'[m]
             /\ \A i \in Slots : i < indexCount[m] => slot'[m][i] = slot[m][i]
  <2>1. \A i \in Slots : i \in Nat /\ (i < indexCount[m] => i # indexCount[m])
    BY Domains DEF BankTypeOK
  <2>2. indexCount[m] \in Nat
    BY Domains DEF BankTypeOK
  <2> QED BY <1>1, <2>1, <2>2, AppendedType
<1>2. CASE \E m \in Levels : AddQuestion(m)
  <2>1. PICK m \in Levels : AddQuestion(m)
    BY <1>2
  <2>2. questionCount + 1 \in QuestionIds
    BY <2>1, BankAssumption DEF BankTypeOK, AddQuestion, QuestionIds
  <2>3. CASE m = l
    BY <1>1, <2>1, <2>2, <2>3 DEF AddQuestion, BankTypeOK
  <2>4. CASE m # l
    BY <1>0, <2>1, <2>4 DEF AddQuestion, BankTypeOK
  <2> QED BY <2>3, <2>4
<1>3. CASE \E q \in QuestionIds, m \in Levels : MoveQuestion(q, m)
  <2>1. PICK q \in QuestionIds, m \in Levels : MoveQuestion(q, m)
    BY <1>3
  <2>2. PICK old \in Levels : old = questionLevel[q] /\ old # m
    BY <2>1 DEF MoveQuestion, BankTypeOK
  <2>3. /\ slot' = [slot EXCEPT ![m] = Appended(m, q), ![old] = Compacted(old, q)]
        /\ indexCount' = [indexCount EXCEPT ![m] = indexCount[m] + 1,
                                           ![old] = indexCount[old] - 1]
        /\ HasRoom(m)
    BY <2>1, <2>2 DEF MoveQuestion, BankTypeOK
  <2>4. CASE m = l
    BY <1>1, <2>2, <2>3, <2>4 DEF BankTypeOK
  <2>5. CASE old = l
    BY <1>0, <2>2, <2>3, <2>5 DEF BankTypeOK
  <2>6. CASE m # l /\ old # l
    BY <1>0, <2>3, <2>6 DEF BankTypeOK
  <2> QED BY <2>4, <2>5, <2>6
<1>4. CASE \E q \in QuestionIds : RetireQuestion(q)
  <2>1. PICK q \in QuestionIds : RetireQuestion(q)
    BY <1>4
  <2>2. PICK m \in Levels : m = questionLevel[q]
    BY <2>1 DEF RetireQuestion, BankTypeOK
  <2>3. CASE Indexed(m, q) /\ m = l
    BY <1>0, <2>1, <2>2, <2>3 DEF RetireQuestion, BankTypeOK
  <2>4. CASE ~(Indexed(m, q) /\ m = l)
    BY <1>0, <2>1, <2>2, <2>4 DEF RetireQuestion, BankTypeOK
  <2> QED BY <2>3, <2>4
<1>5. CASE \/ \E q \in QuestionIds, m \in Levels : UpdateInPlace(q, m)
           \/ \E n \in CapInputs : SetQuestionPerLevel(n)
           \/ \E m \in Levels, n \in CapInputs : SetQuestionCapForLevel(m, n)
  BY <1>0, <1>5 DEF UpdateInPlace, SetQuestionPerLevel, SetQuestionCapForLevel
<1> QED BY <1>2, <1>3, <1>4, <1>5 DEF BankNext

-----------------------------------------------------------------------------
(* Each kind of step keeps the invariant and loses nothing. *)

NothingLost ==
    \A p \in Players, l \in Levels : Exists(p, l) =>
        /\ Exists(p, l)'
        /\ ReadLevel(p, l)'.index >= ReadLevel(p, l).index
        /\ ReadLevel(p, l)'.attempts >= ReadLevel(p, l).attempts
        /\ ReadLevel(p, l).completed => ReadLevel(p, l)'.completed
        /\ ReadLevel(p, l).minted => ReadLevel(p, l)'.minted

(* What an entry point starts from: the stored record, or a fresh one if   *)
(* there is none.  Initialising a player never hides a stored record.      *)
LEMMA SeenIsRead ==
    ASSUME RecordsAreConsistent, NEW p \in Players, NEW l \in Levels
    PROVE  /\ Exists(p, l) => Seen(p, l) = ReadLevel(p, l) /\ ~Resets(p, l)
           /\ ~Exists(p, l) => Seen(p, l) \in {NoRecord, FreshLevel}
BY DEF RecordsAreConsistent, Seen, Resets, Exists

(* submit_answer *)
LEMMA SubmitCorrect ==
    ASSUME HuntInv, NEW p \in Players, NEW q \in QuestionIds, NEW correct \in BOOLEAN,
           SubmitAnswer(p, q, correct)
    PROVE  HuntInv' /\ NothingLost
<1>1. PICK l \in Levels : l = questionLevel[q]
  BY DEF HuntInv, BankInv, BankTypeOK, SubmitAnswer
<1> DEFINE rec  == IF Seen(p, l) = NoRecord THEN FreshLevel ELSE Seen(p, l)
           next == Attempted(rec, correct)
           done == correct /\ next.index >= CapForLevel(l)
           new  == [next EXCEPT !.completed = @ \/ done]
<1>2. /\ Expected(l, rec) = q
      /\ rec.lastLedger # ledger
      /\ WriteLevel(p, l, new)
      /\ IF done THEN WritePlayer(p, NextLevel(l)) ELSE KeepPlayer(p)
      /\ answered' = IF correct THEN [answered EXCEPT ![p][l] = @ \cup {q}] ELSE answered
      /\ UNCHANGED <<adminVars, bankVars, ledger, nft, compacted>>
  BY <1>1 DEF SubmitAnswer
<1>3. /\ rec \in LevelProgress
      /\ Exists(p, l) => rec = ReadLevel(p, l)
      /\ ~Exists(p, l) => rec = FreshLevel
  BY SeenIsRead, ReadType, FreshLevelType DEF HuntInv, Exists
<1> HIDE DEF rec
<1>4. ledger \in Nat
  BY HuntAssumption DEF HuntInv, HuntTypeOK
<1>5. /\ new \in LevelProgress
      /\ new.index = IF correct THEN rec.index + 1 ELSE rec.index
      /\ new.attempts = rec.attempts + 1
      /\ new.lastLedger = ledger
      /\ new.minted = rec.minted
      /\ rec.completed => new.completed
  <2>1. /\ next \in LevelProgress
        /\ next.index = IF correct THEN rec.index + 1 ELSE rec.index
        /\ next.attempts = rec.attempts + 1
        /\ next.lastLedger = ledger
        /\ next.minted = rec.minted /\ next.completed = rec.completed
    <3> DEFINE index == IF correct THEN rec.index + 1 ELSE rec.index
    <3>1. index \in Nat /\ rec.attempts + 1 \in Nat
      BY <1>3 DEF LevelProgress
    <3> HIDE DEF index
    <3>2. next = [rec EXCEPT !.lastLedger = ledger, !.attempts = rec.attempts + 1, !.index = index]
      BY DEF Attempted, index
    <3> HIDE DEF next
    <3>3. /\ next \in LevelProgress
          /\ next.index = index /\ next.attempts = rec.attempts + 1 /\ next.lastLedger = ledger
          /\ next.minted = rec.minted /\ next.completed = rec.completed
      BY <1>3, <1>4, <3>1, <3>2 DEF LevelProgress
    <3> QED BY <3>3 DEF index
  <2> HIDE DEF next
  <2>2. (next.completed \/ done) \in BOOLEAN /\ (next.completed => (next.completed \/ done))
    OBVIOUS
  <2> DEFINE flag == next.completed \/ done
  <2> HIDE DEF done, flag
  <2>3. new = [next EXCEPT !.completed = flag]
    BY DEF flag
  <2> HIDE DEF new
  <2>4. flag \in BOOLEAN /\ (next.completed => flag)
    BY <2>2 DEF flag
  <2> QED BY <2>1, <2>3, <2>4 DEF LevelProgress
<1>6. KeepPlayer(p) \/ \E current \in Levels : WritePlayer(p, current)
  <2>1. NextLevel(l) \in Levels
    BY BankAssumption DEF NextLevel, Levels
  <2> QED BY <1>2, <2>1
<1> HIDE DEF new, done, next
<1>7. /\ levelV1' \in [Players -> [Levels -> LevelProgress \cup {NoRecord}]]
      /\ levelV2' \in [Players -> [Levels -> LevelProgress \cup {NoRecord}]]
      /\ playerV1' \in [Players -> Levels \cup {Absent}]
      /\ playerV2' \in [Players -> Levels \cup {Absent}]
      /\ \A r \in Players, m \in Levels :
            ReadLevel(r, m)' = IF r = p /\ m = l THEN new
                               ELSE IF r = p /\ Resets(p, m) THEN FreshLevel
                               ELSE ReadLevel(r, m)
      /\ RecordsAreConsistent'
  BY <1>2, <1>5, <1>6, RecordWrite DEF HuntInv
(* The other records: unchanged, or a fresh one where there was none. *)
<1>8. \A r \in Players, m \in Levels : ~(r = p /\ m = l) =>
         \/ ReadLevel(r, m)' = ReadLevel(r, m) /\ (Exists(r, m)' <=> Exists(r, m))
         \/ ReadLevel(r, m)' = FreshLevel /\ Exists(r, m)' /\ ~Exists(r, m)
  BY <1>7, SeenIsRead, FreshLevelType, NoRecordIsNone DEF HuntInv, Exists
<1>9. ReadLevel(p, l)' = new /\ Exists(p, l)'
  BY <1>5, <1>7, NoRecordIsNone DEF Exists
<1>10. \A r \in Players, m \in Levels : ~(r = p /\ m = l) => answered'[r][m] = answered[r][m]
  BY <1>2 DEF HuntInv, HuntTypeOK
<1>11. /\ answered' \in [Players -> [Levels -> SUBSET QuestionIds]]
       /\ answered'[p][l] = IF correct THEN answered[p][l] \cup {q} ELSE answered[p][l]
  BY <1>2 DEF HuntInv, HuntTypeOK
<1>12. rec.index \in Slots /\ slot[l][rec.index] = q /\ rec.index < indexCount[l]
  <2>1. rec.index \in Slots /\ slot[l][rec.index] = q
    BY <1>2, Domains DEF Expected
  <2>2. ~(rec.index >= indexCount[l])
    BY <2>1, Domains DEF HuntInv, BankInv, IndexInvariant, TailIsClear
  <2>3. rec.index \in Nat /\ indexCount[l] \in Nat
    BY <1>3, Domains DEF LevelProgress, HuntInv, BankInv, BankTypeOK
  <2> QED BY <2>1, <2>2, <2>3
<1>13. BankInv' /\ TypeOK'
  <2>1. BankInv'
    BY <1>2, BankUnchanged DEF HuntInv
  <2>2. AdminTypeOK'
    BY <1>2 DEF HuntInv, HuntTypeOK, TypeOK, AdminTypeOK, adminVars
  <2> QED BY <2>1, <2>2 DEF TypeOK, BankInv
<1>14. HuntTypeOK'
  <2>1. NFT!NftTypeOK' /\ ledger' \in 0 .. MaxLedger /\ compacted' \subseteq Levels
    BY <1>2 DEF HuntInv, HuntTypeOK, NFT!NftTypeOK
  <2> QED BY <1>7, <1>11, <1>13, <2>1 DEF HuntTypeOK
<1>15. ProgressIsPaced'
  <2> SUFFICES ASSUME NEW r \in Players, NEW m \in Levels, Exists(r, m)'
               PROVE  /\ ReadLevel(r, m)'.index <= ReadLevel(r, m)'.attempts
                      /\ ReadLevel(r, m)'.attempts <= ReadLevel(r, m)'.lastLedger
                      /\ ReadLevel(r, m)'.lastLedger <= ledger
    BY <1>2 DEF ProgressIsPaced
  <2>1. CASE r = p /\ m = l
    <3>1. rec.index <= rec.attempts /\ rec.attempts <= rec.lastLedger /\ rec.lastLedger <= ledger
      BY <1>3, <1>4 DEF HuntInv, ProgressIsPaced, FreshLevel
    <3> QED BY <1>2, <1>3, <1>4, <1>5, <1>9, <2>1, <3>1 DEF LevelProgress
  <2>2. CASE ~(r = p /\ m = l)
    BY <1>4, <1>8, <2>2 DEF HuntInv, ProgressIsPaced, FreshLevel
  <2> QED BY <2>1, <2>2
<1>16. NoRecordNoAnswers'
  BY <1>8, <1>9, <1>10 DEF HuntInv, NoRecordNoAnswers
<1>17. CursorCountsAnswers'
  <2> SUFFICES ASSUME NEW r \in Players, NEW m \in Levels, m \notin compacted, Exists(r, m)'
               PROVE  /\ ReadLevel(r, m)'.index <= indexCount[m]
                      /\ answered'[r][m] = {slot[m][i] : i \in 0 .. ReadLevel(r, m)'.index - 1}
    BY <1>2 DEF CursorCountsAnswers, bankVars
  <2>0. indexCount[m] \in Nat
    BY Domains DEF HuntInv, BankInv, BankTypeOK
  <2>1. CASE r = p /\ m = l
    <3>1. answered[p][l] = {slot[l][i] : i \in 0 .. rec.index - 1} /\ rec.index <= indexCount[l]
      <4>1. CASE Exists(p, l)
        BY <1>3, <2>1, <4>1 DEF HuntInv, CursorCountsAnswers
      <4>2. CASE ~Exists(p, l)
        BY <1>3, <2>0, <2>1, <4>2 DEF HuntInv, NoRecordNoAnswers, FreshLevel
      <4> QED BY <4>1, <4>2
    <3>2. CASE correct
      <4>1. rec.index \in Nat
        BY <1>3 DEF LevelProgress
      <4>2. 0 .. (rec.index + 1) - 1 = (0 .. rec.index - 1) \cup {rec.index}
        BY <4>1
      <4>3. {slot[l][i] : i \in 0 .. (rec.index + 1) - 1}
              = {slot[l][i] : i \in 0 .. rec.index - 1} \cup {slot[l][rec.index]}
        BY <4>2
      <4>4. new.index = rec.index + 1 /\ rec.index + 1 <= indexCount[l]
        BY <1>5, <1>12, <2>0, <2>1, <3>2, <4>1
      <4>5. answered'[p][l] = {slot[l][i] : i \in 0 .. new.index - 1}
        BY <1>11, <1>12, <3>1, <3>2, <4>3, <4>4
      <4> QED BY <1>9, <2>1, <4>4, <4>5
    <3>3. CASE ~correct
      BY <1>5, <1>9, <1>11, <2>1, <3>1, <3>3
    <3> QED BY <3>2, <3>3
  <2>2. CASE ~(r = p /\ m = l)
    <3>1. CASE Exists(r, m)
      BY <1>8, <1>10, <2>2, <3>1 DEF HuntInv, CursorCountsAnswers
    <3>2. CASE ~Exists(r, m)
      <4>1. ReadLevel(r, m)'.index = 0 /\ answered'[r][m] = {}
        BY <1>8, <1>10, <2>2, <3>2 DEF HuntInv, NoRecordNoAnswers, FreshLevel
      <4> QED BY <2>0, <4>1
    <3> QED BY <3>1, <3>2
  <2> QED BY <2>1, <2>2
<1>18. BadgeAgreesWithProgress'
  <2> SUFFICES ASSUME NEW r \in Players, NEW m \in Levels
               PROVE  /\ Cardinality(MintedByGame(r, m)') <= 1
                      /\ MintedByGame(r, m)' # {} <=> Exists(r, m)' /\ ReadLevel(r, m)'.minted
                      /\ MintedByGame(r, m)' # {} => ReadLevel(r, m)'.completed
    BY DEF BadgeAgreesWithProgress
  <2>1. MintedByGame(r, m)' = MintedByGame(r, m)
    BY <1>2 DEF MintedByGame
  <2>2. CASE r = p /\ m = l
    BY <1>3, <1>5, <1>9, <2>1, <2>2 DEF HuntInv, BadgeAgreesWithProgress, FreshLevel
  <2>3. CASE ~(r = p /\ m = l)
    BY <1>8, <2>1, <2>3 DEF HuntInv, BadgeAgreesWithProgress, FreshLevel
  <2> QED BY <2>2, <2>3
<1>19. NothingLost
  <2> SUFFICES ASSUME NEW r \in Players, NEW m \in Levels, Exists(r, m)
               PROVE  /\ Exists(r, m)'
                      /\ ReadLevel(r, m)'.index >= ReadLevel(r, m).index
                      /\ ReadLevel(r, m)'.attempts >= ReadLevel(r, m).attempts
                      /\ ReadLevel(r, m).completed => ReadLevel(r, m)'.completed
                      /\ ReadLevel(r, m).minted => ReadLevel(r, m)'.minted
    BY DEF NothingLost
  <2>1. ReadLevel(r, m) \in LevelProgress
    BY ReadType DEF HuntInv, Exists
  <2>2. CASE r = p /\ m = l
    BY <1>3, <1>5, <1>9, <2>1, <2>2 DEF LevelProgress
  <2>3. CASE ~(r = p /\ m = l)
    BY <1>8, <2>1, <2>3 DEF LevelProgress
  <2> QED BY <2>2, <2>3
<1> QED BY <1>7, <1>13, <1>14, <1>15, <1>16, <1>17, <1>18, <1>19 DEF HuntInv

(* claim_level_completion_nft: the badge and the flag change together. *)
LEMMA ClaimCorrect ==
    ASSUME HuntInv, NEW p \in Players, NEW l \in Levels, ClaimLevelNft(p, l)
    PROVE  HuntInv' /\ NothingLost
<1> DEFINE rec == Seen(p, l)
           new == [rec EXCEPT !.minted = TRUE]
<1>0. PICK c \in NftContracts : c = nftContract
  BY DEF ClaimLevelNft, HuntInv, HuntTypeOK, TypeOK, AdminTypeOK
<1>1. /\ rec # NoRecord /\ rec.completed /\ ~rec.minted
      /\ NFT!MintLevelBadge(c, Game, p, l)
      /\ WriteLevel(p, l, new)
      /\ KeepPlayer(p)
      /\ UNCHANGED <<adminVars, bankVars, ledger, historyVars>>
  BY <1>0 DEF ClaimLevelNft
<1>2. Exists(p, l) /\ rec = ReadLevel(p, l) /\ rec \in LevelProgress
  <2>1. ~FreshLevel.completed
    BY DEF FreshLevel
  <2>2. Exists(p, l)
    BY <1>1, <2>1, SeenIsRead DEF HuntInv
  <2> QED BY <2>2, SeenIsRead, ReadType DEF HuntInv, Exists
<1> HIDE DEF rec
<1>3. /\ new \in LevelProgress
      /\ new.index = rec.index /\ new.attempts = rec.attempts
      /\ new.lastLedger = rec.lastLedger /\ new.completed = rec.completed /\ new.minted
  BY <1>2 DEF LevelProgress
<1> HIDE DEF new
<1>4. /\ levelV1' \in [Players -> [Levels -> LevelProgress \cup {NoRecord}]]
      /\ levelV2' \in [Players -> [Levels -> LevelProgress \cup {NoRecord}]]
      /\ playerV1' \in [Players -> Levels \cup {Absent}]
      /\ playerV2' \in [Players -> Levels \cup {Absent}]
      /\ \A r \in Players, m \in Levels :
            ReadLevel(r, m)' = IF r = p /\ m = l THEN new
                               ELSE IF r = p /\ Resets(p, m) THEN FreshLevel
                               ELSE ReadLevel(r, m)
      /\ RecordsAreConsistent'
  BY <1>1, <1>3, RecordWrite DEF HuntInv
(* The player has a record, so nothing is initialised. *)
<1>5. \A m \in Levels : ~Resets(p, m)
  BY <1>2 DEF HuntInv, RecordsAreConsistent, Resets
<1>6. /\ ReadLevel(p, l)' = new /\ Exists(p, l)'
      /\ \A r \in Players, m \in Levels : ~(r = p /\ m = l) =>
            ReadLevel(r, m)' = ReadLevel(r, m) /\ (Exists(r, m)' <=> Exists(r, m))
  BY <1>3, <1>4, <1>5, NoRecordIsNone DEF Exists
<1>8. /\ NFT!NftTypeOK'
      /\ nft[c].badge[p][l] = NoOne
      /\ \A d \in NftContracts, r \in Players, m \in Levels :
            nft'[d].badge[r][m] = IF d = c /\ r = p /\ m = l THEN Game ELSE nft[d].badge[r][m]
  <2>1. NFT!NftTypeOK /\ Game \in {Game} \cup OtherMinters /\ NFT!MintLevelBadge(c, Game, p, l)
    BY <1>1 DEF HuntInv, HuntTypeOK
  <2> QED BY <2>1, MintEffect
<1>9. BankInv' /\ TypeOK'
  <2>1. BankInv'
    BY <1>1, BankUnchanged DEF HuntInv
  <2>2. AdminTypeOK'
    BY <1>1 DEF HuntInv, HuntTypeOK, TypeOK, AdminTypeOK, adminVars
  <2> QED BY <2>1, <2>2 DEF TypeOK, BankInv
<1>10. answered' = answered /\ compacted' = compacted /\ ledger' = ledger
       /\ slot' = slot /\ indexCount' = indexCount
  BY <1>1 DEF historyVars, bankVars
<1>11. HuntTypeOK'
  BY <1>4, <1>8, <1>9, <1>10 DEF HuntInv, HuntTypeOK
<1>12. ProgressIsPaced' /\ NoRecordNoAnswers'
  BY <1>2, <1>3, <1>6, <1>10 DEF HuntInv, ProgressIsPaced, NoRecordNoAnswers
<1>13. CursorCountsAnswers'
  BY <1>2, <1>3, <1>6, <1>10 DEF HuntInv, CursorCountsAnswers
<1>14. BadgeAgreesWithProgress'
  <2> SUFFICES ASSUME NEW r \in Players, NEW m \in Levels
               PROVE  /\ Cardinality(MintedByGame(r, m)') <= 1
                      /\ MintedByGame(r, m)' # {} <=> Exists(r, m)' /\ ReadLevel(r, m)'.minted
                      /\ MintedByGame(r, m)' # {} => ReadLevel(r, m)'.completed
    BY DEF BadgeAgreesWithProgress
  <2>1. CASE r = p /\ m = l
    <3>1. MintedByGame(p, l) = {}
      BY <1>1, <1>2 DEF HuntInv, BadgeAgreesWithProgress
    <3>2. MintedByGame(p, l)' = {c}
      BY <1>8, <3>1 DEF MintedByGame
    <3>3. Cardinality({c}) = 1
      BY FS_Singleton
    <3>4. Exists(p, l)' /\ ReadLevel(p, l)'.minted /\ ReadLevel(p, l)'.completed
      BY <1>1, <1>3, <1>6
    <3>5. {c} # {}
      OBVIOUS
    <3> QED BY <2>1, <3>2, <3>3, <3>4, <3>5
  <2>2. CASE ~(r = p /\ m = l)
    <3>1. MintedByGame(r, m)' = MintedByGame(r, m)
      BY <1>8, <2>2 DEF MintedByGame
    <3> QED BY <1>6, <2>2, <3>1 DEF HuntInv, BadgeAgreesWithProgress
  <2> QED BY <2>1, <2>2
<1>15. NothingLost
  <2> SUFFICES ASSUME NEW r \in Players, NEW m \in Levels, Exists(r, m)
               PROVE  /\ Exists(r, m)'
                      /\ ReadLevel(r, m)'.index >= ReadLevel(r, m).index
                      /\ ReadLevel(r, m)'.attempts >= ReadLevel(r, m).attempts
                      /\ ReadLevel(r, m).completed => ReadLevel(r, m)'.completed
                      /\ ReadLevel(r, m).minted => ReadLevel(r, m)'.minted
    BY DEF NothingLost
  <2>1. ReadLevel(r, m) \in LevelProgress
    BY ReadType DEF HuntInv, Exists
  <2> QED BY <1>2, <1>3, <1>6, <2>1 DEF LevelProgress
<1> QED BY <1>4, <1>9, <1>11, <1>12, <1>13, <1>14, <1>15 DEF HuntInv

(* Steps that leave the records and the answers alone lose nothing. *)
LEMMA NoProgressNothingLost ==
    ASSUME HuntTypeOK, UNCHANGED progressVars
    PROVE  /\ NothingLost
           /\ \A p \in Players, l \in Levels :
                 /\ ReadLevel(p, l)' = ReadLevel(p, l)
                 /\ Exists(p, l)' <=> Exists(p, l)
                 /\ IsNew(p)' <=> IsNew(p)
<1>1. \A p \in Players, l \in Levels :
         /\ ReadLevel(p, l)' = ReadLevel(p, l)
         /\ Exists(p, l)' <=> Exists(p, l)
         /\ IsNew(p)' <=> IsNew(p)
  BY DEF progressVars, ReadLevel, Exists, IsNew, ReadPlayer
<1>2. NothingLost
  <2> SUFFICES ASSUME NEW p \in Players, NEW l \in Levels, Exists(p, l)
               PROVE  /\ Exists(p, l)'
                      /\ ReadLevel(p, l)'.index >= ReadLevel(p, l).index
                      /\ ReadLevel(p, l)'.attempts >= ReadLevel(p, l).attempts
                      /\ ReadLevel(p, l).completed => ReadLevel(p, l)'.completed
                      /\ ReadLevel(p, l).minted => ReadLevel(p, l)'.minted
    BY DEF NothingLost
  <2>1. ReadLevel(p, l) \in LevelProgress
    BY ReadType DEF Exists
  <2> QED BY <1>1, <2>1 DEF LevelProgress
<1> QED BY <1>1, <1>2

(* Such a step keeps the invariant if it keeps the bank's, moves no badge  *)
(* of the game, turns no ledger back, and records in compacted the levels  *)
(* whose slots it touched below the count.                                 *)
LEMMA OutsideStepCorrect ==
    ASSUME HuntInv, UNCHANGED <<progressVars, answered>>,
           TypeOK', BankInv', NFT!NftTypeOK',
           ledger' \in ledger .. MaxLedger,
           compacted' \subseteq Levels, compacted \subseteq compacted',
           \A l \in Levels \ compacted' :
              /\ indexCount[l] <= indexCount'[l]
              /\ \A i \in Slots : i < indexCount[l] => slot'[l][i] = slot[l][i],
           \A p \in Players, l \in Levels : MintedByGame(p, l)' = MintedByGame(p, l)
    PROVE  HuntInv' /\ NothingLost
<1>1. NothingLost /\ \A p \in Players, l \in Levels :
                        /\ ReadLevel(p, l)' = ReadLevel(p, l)
                        /\ Exists(p, l)' <=> Exists(p, l)
                        /\ IsNew(p)' <=> IsNew(p)
  BY NoProgressNothingLost DEF HuntInv
<1>2. ledger \in Nat /\ ledger' \in 0 .. MaxLedger /\ ledger <= ledger'
  BY HuntAssumption DEF HuntInv, HuntTypeOK
<1>3. HuntTypeOK'
  BY <1>2 DEF HuntInv, HuntTypeOK, progressVars
<1>4. RecordsAreConsistent'
  BY <1>1 DEF HuntInv, RecordsAreConsistent, progressVars
<1>5. ProgressIsPaced'
  <2> SUFFICES ASSUME NEW p \in Players, NEW l \in Levels, Exists(p, l)
               PROVE  /\ ReadLevel(p, l).index <= ReadLevel(p, l).attempts
                      /\ ReadLevel(p, l).attempts <= ReadLevel(p, l).lastLedger
                      /\ ReadLevel(p, l).lastLedger <= ledger'
    BY <1>1 DEF ProgressIsPaced
  <2>1. ReadLevel(p, l) \in LevelProgress
    BY ReadType DEF HuntInv, Exists
  <2> QED BY <1>2, <2>1 DEF HuntInv, ProgressIsPaced, LevelProgress
<1>6. NoRecordNoAnswers'
  BY <1>1 DEF HuntInv, NoRecordNoAnswers
<1>7. CursorCountsAnswers'
  <2> SUFFICES ASSUME NEW p \in Players, NEW l \in Levels, l \notin compacted', Exists(p, l)
               PROVE  /\ ReadLevel(p, l).index <= indexCount'[l]
                      /\ answered[p][l] = {slot'[l][i] : i \in 0 .. ReadLevel(p, l).index - 1}
    BY <1>1 DEF CursorCountsAnswers
  <2> DEFINE n == ReadLevel(p, l).index
  <2>1. n <= indexCount[l] /\ answered[p][l] = {slot[l][i] : i \in 0 .. n - 1}
    BY DEF HuntInv, CursorCountsAnswers
  <2>2. n \in Nat
    BY ReadType DEF HuntInv, Exists, LevelProgress
  <2> HIDE DEF n
  <2>3. indexCount[l] \in 0 .. MaxQuestionsPerLevel /\ indexCount'[l] \in 0 .. MaxQuestionsPerLevel
    BY DEF HuntInv, BankInv, BankTypeOK
  <2>4. \A i \in 0 .. n - 1 : i \in Slots /\ i < indexCount[l]
    BY <2>1, <2>2, <2>3, Domains
  <2>5. \A i \in 0 .. n - 1 : slot'[l][i] = slot[l][i]
    BY <2>4
  <2>6. n <= indexCount'[l]
    BY <2>1, <2>2, <2>3, Domains
  <2> QED BY <2>1, <2>5, <2>6 DEF n
<1>8. BadgeAgreesWithProgress'
  BY <1>1 DEF HuntInv, BadgeAgreesWithProgress
<1> QED BY <1>1, <1>3, <1>4, <1>5, <1>6, <1>7, <1>8 DEF HuntInv

(* What steps outside the bank and the settings leave alone. *)
LEMMA OtherStepTypes ==
    ASSUME HuntInv, UNCHANGED <<adminVars, bankVars>>
    PROVE  /\ TypeOK' /\ BankInv'
           /\ \A l \in Levels : /\ indexCount[l] <= indexCount'[l]
                                /\ \A i \in Slots : i < indexCount[l] => slot'[l][i] = slot[l][i]
<1>1. BankInv'
  BY BankUnchanged DEF HuntInv
<1>2. AdminTypeOK'
  BY DEF HuntInv, HuntTypeOK, TypeOK, AdminTypeOK, adminVars
<1>3. slot' = slot /\ indexCount' = indexCount /\ \A l \in Levels : indexCount[l] \in Nat
  BY Domains DEF bankVars, HuntInv, BankInv, BankTypeOK
<1> QED BY <1>1, <1>2, <1>3 DEF TypeOK, BankInv

(* A ledger closes. *)
LEMMA CloseLedgerCorrect ==
    ASSUME HuntInv, CloseLedger
    PROVE  HuntInv' /\ NothingLost
<1>1. /\ ledger' \in ledger .. MaxLedger
      /\ UNCHANGED <<adminVars, bankVars, progressVars, nft, answered, compacted>>
  BY HuntAssumption DEF CloseLedger, historyVars, HuntInv, HuntTypeOK
<1>2. /\ TypeOK' /\ BankInv'
      /\ \A l \in Levels : /\ indexCount[l] <= indexCount'[l]
                           /\ \A i \in Slots : i < indexCount[l] => slot'[l][i] = slot[l][i]
  BY <1>1, OtherStepTypes
<1>3. NFT!NftTypeOK' /\ compacted' \subseteq Levels
  BY <1>1 DEF HuntInv, HuntTypeOK, NFT!NftTypeOK
<1>4. \A p \in Players, l \in Levels : MintedByGame(p, l)' = MintedByGame(p, l)
  BY <1>1 DEF MintedByGame
<1> QED BY <1>1, <1>2, <1>3, <1>4, OutsideStepCorrect

(* Settings change; the records, the bank and the badges do not. *)
LEMMA GameAdminStepCorrect ==
    ASSUME HuntInv, GameAdminStep
    PROVE  HuntInv' /\ NothingLost
<1>1. /\ AdminNext
      /\ UNCHANGED <<bankVars, progressVars, ledger, nft, answered, compacted>>
  BY DEF GameAdminStep, historyVars
<1>2. BankInv' /\ TypeOK'
  <2>1. BankInv'
    BY <1>1, BankUnchanged DEF HuntInv
  <2>2. AdminTypeOK'
    BY <1>1, AdminStepType DEF HuntInv, HuntTypeOK, TypeOK
  <2> QED BY <2>1, <2>2 DEF TypeOK, BankInv
<1>3. \A l \in Levels : /\ indexCount[l] <= indexCount'[l]
                        /\ \A i \in Slots : i < indexCount[l] => slot'[l][i] = slot[l][i]
  BY <1>1, Domains DEF bankVars, HuntInv, BankInv, BankTypeOK
<1>4. /\ NFT!NftTypeOK' /\ compacted' \subseteq Levels
      /\ ledger' \in ledger .. MaxLedger
  BY <1>1, HuntAssumption DEF HuntInv, HuntTypeOK, NFT!NftTypeOK
<1>5. \A p \in Players, l \in Levels : MintedByGame(p, l)' = MintedByGame(p, l)
  BY <1>1 DEF MintedByGame
<1> QED BY <1>1, <1>2, <1>3, <1>4, <1>5, OutsideStepCorrect

(* Questions are added, moved or retired while players are in the level. *)
LEMMA BankStepKeepsHunt ==
    ASSUME HuntInv, BankStep
    PROVE  HuntInv' /\ NothingLost
<1>1. /\ BankNext
      /\ compacted' = compacted \cup {l \in Levels : indexCount'[l] < indexCount[l]}
      /\ UNCHANGED <<adminVars, progressVars, ledger, nft, answered>>
  BY DEF BankStep
<1>2. BankInv' /\ TypeOK'
  <2>1. BankInv'
    BY <1>1, BankStepCorrect DEF HuntInv
  <2>2. AdminTypeOK'
    BY <1>1 DEF HuntInv, HuntTypeOK, TypeOK, AdminTypeOK, adminVars
  <2> QED BY <2>1, <2>2 DEF TypeOK, BankInv
<1>3. \A l \in Levels \ compacted' :
         /\ indexCount[l] <= indexCount'[l]
         /\ \A i \in Slots : i < indexCount[l] => slot'[l][i] = slot[l][i]
  <2> SUFFICES ASSUME NEW l \in Levels, l \notin compacted'
               PROVE  /\ indexCount[l] <= indexCount'[l]
                      /\ \A i \in Slots : i < indexCount[l] => slot'[l][i] = slot[l][i]
    OBVIOUS
  <2>1. ~(indexCount'[l] < indexCount[l])
    BY <1>1
  <2> QED BY <1>1, <2>1, BankStepKeepsSlots DEF HuntInv
<1>4. /\ NFT!NftTypeOK' /\ compacted' \subseteq Levels /\ compacted \subseteq compacted'
      /\ ledger' \in ledger .. MaxLedger
  BY <1>1, HuntAssumption DEF HuntInv, HuntTypeOK, NFT!NftTypeOK
<1>5. \A p \in Players, l \in Levels : MintedByGame(p, l)' = MintedByGame(p, l)
  BY <1>1 DEF MintedByGame
<1> QED BY <1>1, <1>2, <1>3, <1>4, <1>5, OutsideStepCorrect

(* The NFT contracts are administered, and other minters mint on them. *)
LEMMA NftStepCorrect ==
    ASSUME HuntInv, NftAdminStep \/ OtherMint
    PROVE  HuntInv' /\ NothingLost
<1>1. UNCHANGED <<adminVars, bankVars, progressVars, ledger, answered, compacted>>
  BY DEF NftAdminStep, OtherMint, historyVars
<1>2. /\ TypeOK' /\ BankInv'
      /\ \A l \in Levels : /\ indexCount[l] <= indexCount'[l]
                           /\ \A i \in Slots : i < indexCount[l] => slot'[l][i] = slot[l][i]
  BY <1>1, OtherStepTypes
<1>3. NFT!NftTypeOK
  BY DEF HuntInv, HuntTypeOK
<1>4. NFT!NftTypeOK' /\ \A p \in Players, l \in Levels : MintedByGame(p, l)' = MintedByGame(p, l)
  <2>1. CASE NftAdminStep
    <3>1. PICK c \in NftContracts : NFT!NftAdminNext(c)
      BY <2>1 DEF NftAdminStep
    <3> QED BY <1>3, <3>1, NftAdminEffect DEF MintedByGame
  <2>2. CASE OtherMint
    <3>1. PICK c \in NftContracts, m \in OtherMinters, q \in Players, k \in Levels :
             NFT!MintLevelBadge(c, m, q, k)
      BY <2>2 DEF OtherMint
    <3>2. m \in {Game} \cup OtherMinters /\ m # Game /\ NoOne # Game
      BY HuntAssumption
    <3>3. /\ NFT!NftTypeOK'
          /\ nft[c].badge[q][k] = NoOne
          /\ \A d \in NftContracts, p \in Players, l \in Levels :
                nft'[d].badge[p][l] = IF d = c /\ p = q /\ l = k THEN m ELSE nft[d].badge[p][l]
      BY <1>3, <3>1, <3>2, MintEffect
    <3> QED BY <3>2, <3>3 DEF MintedByGame
  <2> QED BY <2>1, <2>2
<1>5. compacted' \subseteq Levels /\ ledger' \in ledger .. MaxLedger
  BY <1>1, HuntAssumption DEF HuntInv, HuntTypeOK
<1> QED BY <1>1, <1>2, <1>4, <1>5, OutsideStepCorrect

-----------------------------------------------------------------------------
(* The initial states, of a new deployment and of a legacy one. *)

LEMMA HuntInitCorrect == HuntInit => HuntInv
<1> SUFFICES ASSUME HuntInit PROVE HuntInv
  OBVIOUS
<1>1. BankInv /\ TypeOK
  BY AdminInitCorrect, BankInitCorrect DEF HuntInit, BankInv, TypeOK
<1>2. NFT!NftTypeOK /\ \A p \in Players, l \in Levels : MintedByGame(p, l) = {}
  BY HuntAssumption DEF HuntInit, NFT!NftInit, NFT!NftTypeOK, NFT!NftRecord, MintedByGame
<1>3. PICK known \in SUBSET Players, right \in SUBSET Players :
         /\ LegacyPlayers(known, right)
         /\ right \subseteq known
         /\ known # {} => schemaVersion = LegacySchemaVersion /\ ledger = 1
  BY DEF HuntInit, ProgressInit
<1>4. ledger \in 0 .. MaxLedger /\ ledger \in Nat
  BY HuntAssumption DEF HuntInit, ProgressInit
<1>5. /\ playerV2 = [p \in Players |-> Absent]
      /\ levelV2 = [p \in Players |-> [l \in Levels |-> NoRecord]]
      /\ compacted = {}
  BY DEF HuntInit, ProgressInit, Blank
<1>6. 1 \in Levels /\ 1 \in QuestionIds /\ 0 \in Slots /\ NextLevel(1) \in Levels /\ 1 # Absent
  BY BankAssumption DEF Levels, QuestionIds, Slots, NextLevel, Absent
<1> DEFINE Legacy(p) == LegacyLevel(p \in right)
<1>7. \A p \in Players :
         /\ Legacy(p) \in LevelProgress /\ Legacy(p) # NoRecord
         /\ Legacy(p).index = IF p \in right THEN 1 ELSE 0
         /\ Legacy(p).attempts = 1 /\ Legacy(p).lastLedger = 1
         /\ Legacy(p).minted = FALSE
  <2> SUFFICES ASSUME NEW p \in Players
               PROVE  /\ Legacy(p) \in LevelProgress /\ Legacy(p) # NoRecord
                      /\ Legacy(p).index = IF p \in right THEN 1 ELSE 0
                      /\ Legacy(p).attempts = 1 /\ Legacy(p).lastLedger = 1
                      /\ Legacy(p).minted = FALSE
    OBVIOUS
  <2> DEFINE flag  == p \in right /\ 1 >= DefaultCap
             index == IF p \in right THEN 1 ELSE 0
  <2>1. flag \in BOOLEAN /\ index \in Nat
    OBVIOUS
  <2> HIDE DEF flag, index
  <2>2. Legacy(p) = [index |-> index, completed |-> flag,
                     attempts |-> 1, minted |-> FALSE, lastLedger |-> 1]
    BY DEF LegacyLevel, flag, index
  <2> HIDE DEF Legacy
  <2>3. Legacy(p) \in LevelProgress
    BY <2>1, <2>2 DEF LevelProgress
  <2>4. /\ Legacy(p).index = index /\ Legacy(p).attempts = 1 /\ Legacy(p).lastLedger = 1
        /\ Legacy(p).minted = FALSE
    BY <2>2
  <2> QED BY <2>3, <2>4, NoRecordIsNone DEF index
<1>8. \A p \in Players, l \in Levels :
         /\ levelV1[p][l] = IF p \in known /\ l = 1 THEN Legacy(p) ELSE NoRecord
         /\ levelV2[p][l] = NoRecord
         /\ answered[p][l] = IF p \in right /\ l = 1 THEN {1} ELSE {}
         /\ playerV2[p] = Absent
  BY <1>3, <1>5 DEF LegacyPlayers
<1>9. \A p \in Players : playerV1[p] \in Levels \cup {Absent} /\ (playerV1[p] = Absent <=> p \notin known)
  <2> SUFFICES ASSUME NEW p \in Players
               PROVE  playerV1[p] \in Levels \cup {Absent} /\ (playerV1[p] = Absent <=> p \notin known)
    OBVIOUS
  <2>1. playerV1[p] = IF p \notin known THEN Absent
                      ELSE IF Legacy(p).completed THEN NextLevel(1) ELSE 1
    BY <1>3 DEF LegacyPlayers
  <2> HIDE DEF Legacy
  <2> QED BY <1>6, <2>1, Domains
<1>10. levelV1 \in [Players -> [Levels -> LevelProgress \cup {NoRecord}]]
  <2>1. levelV1 = [p \in Players |-> [l \in Levels |->
                      IF p \in known /\ l = 1 THEN Legacy(p) ELSE NoRecord]]
    BY <1>3 DEF LegacyPlayers
  <2> HIDE DEF Legacy
  <2> QED BY <1>7, <2>1
<1> HIDE DEF Legacy
<1>11. \A p \in Players, l \in Levels :
         /\ Exists(p, l) <=> p \in known /\ l = 1
         /\ Exists(p, l) => ReadLevel(p, l) = Legacy(p)
         /\ IsNew(p) <=> p \notin known
  BY <1>7, <1>8, <1>9 DEF Exists, ReadLevel, IsNew, ReadPlayer
<1>12. HuntTypeOK
  <2>1. playerV1 \in [Players -> Levels \cup {Absent}]
    BY <1>3, <1>9 DEF LegacyPlayers
  <2>2. answered \in [Players -> [Levels -> SUBSET QuestionIds]]
    BY <1>3, <1>6 DEF LegacyPlayers
  <2> QED BY <1>1, <1>2, <1>4, <1>5, <1>10, <2>1, <2>2 DEF HuntTypeOK
<1>13. RecordsAreConsistent
  BY <1>5, <1>8, <1>11 DEF RecordsAreConsistent
<1>14. ProgressIsPaced
  <2> SUFFICES ASSUME NEW p \in Players, NEW l \in Levels, Exists(p, l)
               PROVE  /\ ReadLevel(p, l).index <= ReadLevel(p, l).attempts
                      /\ ReadLevel(p, l).attempts <= ReadLevel(p, l).lastLedger
                      /\ ReadLevel(p, l).lastLedger <= ledger
    BY DEF ProgressIsPaced
  <2>1. ledger = 1
    BY <1>3, <1>11
  <2> QED BY <1>7, <1>11, <2>1
<1>15. NoRecordNoAnswers
  BY <1>3, <1>8, <1>11 DEF NoRecordNoAnswers
<1>16. CursorCountsAnswers
  <2> SUFFICES ASSUME NEW p \in Players, NEW l \in Levels, Exists(p, l)
               PROVE  /\ ReadLevel(p, l).index <= indexCount[l]
                      /\ answered[p][l] = {slot[l][i] : i \in 0 .. ReadLevel(p, l).index - 1}
    BY DEF CursorCountsAnswers
  <2>1. l = 1 /\ schemaVersion = LegacySchemaVersion
    BY <1>3, <1>11
  <2>2. indexCount[l] = 1 /\ slot[l][0] = 1
    BY <1>6, <2>1 DEF HuntInit, Init, BankInit, StoredBefore
  <2>3. CASE p \in right
    <3>1. ReadLevel(p, l).index = 1 /\ answered[p][l] = {1} /\ 0 .. 1 - 1 = {0}
      BY <1>7, <1>8, <1>11, <2>1, <2>3
    <3> QED BY <2>2, <3>1
  <2>4. CASE p \notin right
    <3>1. ReadLevel(p, l).index = 0 /\ answered[p][l] = {} /\ 0 .. 0 - 1 = {}
      BY <1>7, <1>8, <1>11, <2>1, <2>4
    <3> QED BY <2>2, <3>1
  <2> QED BY <2>3, <2>4
<1>17. BadgeAgreesWithProgress
  <2>1. Cardinality({}) = 0
    BY FS_EmptySet
  <2> QED BY <1>2, <1>7, <1>11, <2>1 DEF BadgeAgreesWithProgress
<1> QED BY <1>1, <1>12, <1>13, <1>14, <1>15, <1>16, <1>17 DEF HuntInv

-----------------------------------------------------------------------------
(* The theorems. *)

(* Every step of the hunt keeps the invariant and loses nothing. *)
LEMMA HuntStepCorrect ==
    ASSUME HuntInv, HuntNext
    PROVE  HuntInv' /\ NothingLost
<1>1. CASE PlayerNext
  <2>1. PICK p \in Players :
           \/ \E q \in QuestionIds, correct \in BOOLEAN : SubmitAnswer(p, q, correct)
           \/ \E l \in Levels : ClaimLevelNft(p, l)
    BY <1>1 DEF PlayerNext
  <2> QED BY <2>1, SubmitCorrect, ClaimCorrect
<1>2. CASE CloseLedger
  BY <1>2, CloseLedgerCorrect
<1>3. CASE GameAdminStep
  BY <1>3, GameAdminStepCorrect
<1>4. CASE BankStep
  BY <1>4, BankStepKeepsHunt
<1>5. CASE NftAdminStep \/ OtherMint
  BY <1>5, NftStepCorrect
<1> QED BY <1>1, <1>2, <1>3, <1>4, <1>5 DEF HuntNext

LEMMA HuntStutter ==
    ASSUME HuntInv, UNCHANGED progressAllVars
    PROVE  HuntInv'
<1>1. UNCHANGED <<adminVars, bankVars, progressVars, ledger, nft, answered, compacted>>
  BY DEF progressAllVars, historyVars
<1>2. /\ TypeOK' /\ BankInv'
      /\ \A l \in Levels : /\ indexCount[l] <= indexCount'[l]
                           /\ \A i \in Slots : i < indexCount[l] => slot'[l][i] = slot[l][i]
  BY <1>1, OtherStepTypes
<1>3. /\ NFT!NftTypeOK' /\ compacted' \subseteq Levels /\ ledger' \in ledger .. MaxLedger
  BY <1>1, HuntAssumption DEF HuntInv, HuntTypeOK, NFT!NftTypeOK
<1>4. \A p \in Players, l \in Levels : MintedByGame(p, l)' = MintedByGame(p, l)
  BY <1>1 DEF MintedByGame
<1> QED BY <1>1, <1>2, <1>3, <1>4, OutsideStepCorrect

(* The inductive invariant of the hunt: the question bank, the settings,   *)
(* the players' records in both layouts, and the badges on every NFT       *)
(* contract, through every interleaving of players, administrators, other  *)
(* minters and ledgers.                                                    *)
THEOREM HuntInvariance == HuntSpec => []HuntInv
<1>1. HuntInv /\ [HuntNext]_progressAllVars => HuntInv'
  BY HuntStepCorrect, HuntStutter
<1> QED BY <1>1, HuntInitCorrect, PTL DEF HuntSpec

(* Every record, flag and history variable keeps its type. *)
THEOREM HuntTypeCorrect == HuntSpec => []HuntTypeOK
<1>1. HuntInv => HuntTypeOK
  BY DEF HuntInv
<1> QED BY <1>1, HuntInvariance, PTL

(* The lazy migration keeps every record in one layout, and no level       *)
(* record without its player record.                                       *)
THEOREM RecordsCorrect == HuntSpec => []RecordsAreConsistent
<1>1. HuntInv => RecordsAreConsistent
  BY DEF HuntInv
<1> QED BY <1>1, HuntInvariance, PTL

(* One attempt per ledger and level, however long the hunt runs. *)
THEOREM PaceCorrect == HuntSpec => []ProgressIsPaced
<1>1. HuntInv => ProgressIsPaced
  BY DEF HuntInv
<1> QED BY <1>1, HuntInvariance, PTL

(* While a level's index has only grown, a player's cursor stands exactly  *)
(* behind the questions the player got right.                              *)
THEOREM CursorCorrect == HuntSpec => []CursorCountsAnswers
<1>1. HuntInv => CursorCountsAnswers
  BY DEF HuntInv
<1> QED BY <1>1, HuntInvariance, PTL

(* The game mints a player's badge of a level at most once over all NFT    *)
(* contracts, and its own flag and the contracts' entries agree.           *)
THEOREM BadgeCorrect == HuntSpec => []BadgeAgreesWithProgress
<1>1. HuntInv => BadgeAgreesWithProgress
  BY DEF HuntInv
<1> QED BY <1>1, HuntInvariance, PTL

(* No step of anybody takes progress away from a player. *)
THEOREM NeverLostCorrect == HuntSpec => ProgressNeverLost
<1>1. HuntInv /\ [HuntNext]_progressAllVars => [NothingLost]_progressAllVars
  BY HuntStepCorrect
<1> QED BY <1>1, HuntInvariance, PTL DEF HuntSpec, ProgressNeverLost, NothingLost
=============================================================================
