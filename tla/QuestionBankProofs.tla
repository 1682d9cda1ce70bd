------------------------- MODULE QuestionBankProofs --------------------------
(***************************************************************************)
(* Proofs about QuestionBank, for every number of levels, questions and    *)
(* slots and every cap an admin may choose.                                *)
(***************************************************************************)
EXTENDS QuestionBank, TLAPS

(* The level and slot sets are sets of naturals, 0 is not a level or id. *)
LEMMA Domains ==
    /\ Levels \subseteq Nat /\ QuestionIds \subseteq Nat /\ Slots \subseteq Nat
    /\ Absent \notin Levels /\ Absent \notin QuestionIds
    /\ MaxQuestionsPerLevel \in Nat /\ MaxQuestionCount \in Nat
    /\ \A i \in Nat : i < MaxQuestionsPerLevel <=> i \in Slots
BY BankAssumption DEF Levels, QuestionIds, Slots, Absent

(* The effective cap is between 1 and the contract-wide maximum, so a level *)
(* with room has a free slot.                                               *)
LEMMA CapBounds ==
    ASSUME BankTypeOK, NEW l \in Levels
    PROVE  CapForLevel(l) \in 1 .. MaxQuestionsPerLevel
BY BankAssumption, Domains DEF CapForLevel, BankTypeOK, Absent

LEMMA RoomMeansFreeSlot ==
    ASSUME BankTypeOK, NEW l \in Levels, HasRoom(l)
    PROVE  /\ indexCount[l] \in Slots
           /\ indexCount[l] + 1 \in 0 .. MaxQuestionsPerLevel
BY BankAssumption, Domains, CapBounds DEF HasRoom, BankTypeOK, Slots

(* Appending writes the id into the first free slot only. *)
LEMMA AppendedType ==
    ASSUME BankTypeOK, NEW l \in Levels, HasRoom(l), NEW q \in QuestionIds
    PROVE  /\ Appended(l, q) \in [Slots -> QuestionIds \cup {Absent}]
           /\ \A i \in Slots :
                 Appended(l, q)[i] = IF i = indexCount[l] THEN q ELSE slot[l][i]
BY RoomMeansFreeSlot DEF Appended, BankTypeOK

(* The search for a question that the index holds finds one of its slots. *)
LEMMA FirstSlotFinds ==
    ASSUME BankTypeOK, IndexedOnce, NEW l \in Levels, NEW q \in QuestionIds, Indexed(l, q)
    PROVE  /\ FirstSlot(l, q) \in Slots
           /\ FirstSlot(l, q) < indexCount[l]
           /\ slot[l][FirstSlot(l, q)] = q
<1>1. PICK i \in Slots : i < indexCount[l] /\ slot[l][i] = q
  BY DEF Indexed
<1>2. \A j \in Slots : j < i => slot[l][j] # q
  <2>1. SUFFICES ASSUME NEW j \in Slots, j < i, slot[l][j] = q PROVE FALSE
    OBVIOUS
  <2>2. j < indexCount[l]
    BY <1>1, <2>1, Domains DEF BankTypeOK
  <2>3. j = i
    BY <1>1, <2>1, <2>2 DEF IndexedOnce
  <2> QED BY <2>1, <2>3, Domains
<1> QED BY <1>1, <1>2 DEF FirstSlot

(* Compaction: below the removed slot nothing moves, above it every entry  *)
(* moves down by one, and the last slot is cleared.                        *)
LEMMA CompactedType ==
    ASSUME BankTypeOK, IndexedOnce, NEW l \in Levels, NEW q \in QuestionIds, Indexed(l, q)
    PROVE  /\ Compacted(l, q) \in [Slots -> QuestionIds \cup {Absent}]
           /\ indexCount[l] - 1 \in 0 .. MaxQuestionsPerLevel
           /\ \A i \in Slots : Compacted(l, q)[i] =
                 IF i = indexCount[l] - 1 THEN Absent
                 ELSE IF FirstSlot(l, q) <= i /\ i < indexCount[l] - 1 THEN slot[l][i + 1]
                 ELSE slot[l][i]
<1>1. FirstSlot(l, q) \in Slots /\ FirstSlot(l, q) < indexCount[l]
  BY FirstSlotFinds
<1>2. indexCount[l] \in 1 .. MaxQuestionsPerLevel
  <2>1. indexCount[l] \in 0 .. MaxQuestionsPerLevel
    BY DEF BankTypeOK
  <2>2. FirstSlot(l, q) \in Nat
    BY <1>1, Domains
  <2> QED BY <1>1, <2>1, <2>2, Domains
<1>3. \A i \in Slots : i < indexCount[l] - 1 => i + 1 \in Slots
  BY <1>2, Domains DEF Slots
<1> QED BY <1>2, <1>3, Domains DEF Compacted, BankTypeOK

-----------------------------------------------------------------------------
(* The index invariant, one level at a time. *)

IndexFits(s, n, L) ==
    /\ \A i \in Slots : i < n => s[i] \in L
    /\ \A q \in L : \E i \in Slots : i < n /\ s[i] = q
    /\ \A i, j \in Slots : i < n /\ j < n /\ s[i] = s[j] => i = j
    /\ \A i \in Slots : i >= n => s[i] = Absent

(* IndexInvariant says that every level's slots fit its live questions. *)
LEMMA LevelByLevel ==
    IndexInvariant <=> \A l \in Levels : IndexFits(slot[l], indexCount[l], Live(l))
BY DEF IndexInvariant, SlotsAreLive, LiveIsIndexed, IndexedOnce, TailIsClear, IndexFits, Indexed

LEMMA LevelByLevelNext ==
    IndexInvariant' <=> \A l \in Levels : IndexFits(slot'[l], indexCount'[l], Live(l)')
BY DEF IndexInvariant, SlotsAreLive, LiveIsIndexed, IndexedOnce, TailIsClear, IndexFits, Indexed

(* Appending a question that is not live yet makes it the last live one. *)
LEMMA AppendFits ==
    ASSUME BankTypeOK, NEW l \in Levels, HasRoom(l), NEW q \in QuestionIds, NEW L, q \notin L,
           IndexFits(slot[l], indexCount[l], L)
    PROVE  IndexFits(Appended(l, q), indexCount[l] + 1, L \cup {q})
<1> DEFINE n == indexCount[l]
           s == Appended(l, q)
<1>1. n \in Slots /\ n \in Nat
  BY RoomMeansFreeSlot, Domains
<1>2. \A i \in Slots : s[i] = IF i = n THEN q ELSE slot[l][i]
  BY AppendedType
<1>3. \A i \in Slots : i \in Nat /\ (i < n + 1 <=> i < n \/ i = n) /\ (i >= n + 1 => i >= n /\ i # n)
  BY <1>1, Domains
<1> HIDE DEF s
<1>4. \A i \in Slots : i < n + 1 => s[i] \in L \cup {q}
  BY <1>2, <1>3 DEF IndexFits
<1>5. \A p \in L \cup {q} : \E i \in Slots : i < n + 1 /\ s[i] = p
  BY <1>1, <1>2, <1>3 DEF IndexFits
<1>6. \A i, j \in Slots : i < n + 1 /\ j < n + 1 /\ s[i] = s[j] => i = j
  BY <1>2, <1>3 DEF IndexFits
<1>7. \A i \in Slots : i >= n + 1 => s[i] = Absent
  BY <1>2, <1>3 DEF IndexFits
<1> QED BY <1>4, <1>5, <1>6, <1>7 DEF IndexFits, s

(* Compaction removes one question and keeps every other one indexed. *)
LEMMA CompactFits ==
    ASSUME BankTypeOK, IndexedOnce, NEW l \in Levels, NEW q \in QuestionIds, Indexed(l, q),
           NEW L, IndexFits(slot[l], indexCount[l], L)
    PROVE  IndexFits(Compacted(l, q), indexCount[l] - 1, L \ {q})
<1> DEFINE last == indexCount[l] - 1
           f == FirstSlot(l, q)
           s == Compacted(l, q)
<1>1. /\ f \in Slots /\ f \in Nat /\ f <= last /\ f < last + 1
      /\ last \in Nat /\ indexCount[l] = last + 1
  <2>1. indexCount[l] \in 0 .. MaxQuestionsPerLevel
    BY DEF BankTypeOK
  <2>2. f \in Slots /\ f < indexCount[l]
    BY FirstSlotFinds
  <2>3. f \in Nat
    BY <2>2, Domains
  <2> HIDE DEF f
  <2> QED BY <2>1, <2>2, <2>3, Domains
<1>2. slot[l][f] = q
  BY FirstSlotFinds
<1>3. \A i \in Slots : s[i] = IF i = last THEN Absent
                              ELSE IF f <= i /\ i < last THEN slot[l][i + 1] ELSE slot[l][i]
  BY CompactedType
<1>4. last \in Slots /\ \A i \in Slots : i \in Nat /\ (i < last => i + 1 \in Slots)
  <2>1. indexCount[l] \in 0 .. MaxQuestionsPerLevel
    BY DEF BankTypeOK
  <2> QED BY <1>1, <2>1, Domains DEF Slots
<1> HIDE DEF s, f, last
<1>5. \A i \in Slots : i < last => s[i] \in L \ {q}
  <2> SUFFICES ASSUME NEW i \in Slots, i < last PROVE s[i] \in L \ {q}
    OBVIOUS
  <2>1. CASE f <= i
    <3>1. s[i] = slot[l][i + 1] /\ i + 1 \in Slots /\ i + 1 < last + 1 /\ i + 1 # f
      BY <1>1, <1>3, <1>4, <2>1
    <3>2. slot[l][i + 1] \in L
      BY <1>1, <3>1 DEF IndexFits
    <3>3. slot[l][i + 1] # slot[l][f]
      BY <1>1, <3>1 DEF IndexFits
    <3> QED BY <1>2, <3>1, <3>2, <3>3
  <2>2. CASE ~(f <= i)
    <3>1. s[i] = slot[l][i] /\ i < last + 1 /\ i # f
      BY <1>1, <1>3, <1>4, <2>2
    <3>2. slot[l][i] \in L
      BY <1>1, <3>1 DEF IndexFits
    <3>3. slot[l][i] # slot[l][f]
      BY <1>1, <3>1 DEF IndexFits
    <3> QED BY <1>2, <3>1, <3>2, <3>3
  <2> QED BY <2>1, <2>2
<1>6. \A p \in L \ {q} : \E i \in Slots : i < last /\ s[i] = p
  <2> SUFFICES ASSUME NEW p \in L, p # q PROVE \E i \in Slots : i < last /\ s[i] = p
    OBVIOUS
  <2>1. PICK j \in Slots : j < last + 1 /\ slot[l][j] = p
    BY <1>1 DEF IndexFits
  <2>2. j # f /\ j \in Nat
    BY <1>2, <1>4, <2>1
  <2>3. CASE j < f
    <3>1. j < last /\ s[j] = p
      BY <1>1, <1>3, <2>1, <2>2, <2>3
    <3> QED BY <3>1
  <2>4. CASE j > f
    <3>1. j - 1 \in Slots
      BY <1>1, <1>4, <2>2, <2>4, BankAssumption DEF Slots
    <3>2. j - 1 < last /\ f <= j - 1 /\ j - 1 # last /\ (j - 1) + 1 = j
      BY <1>1, <2>1, <2>2, <2>4
    <3>3. s[j - 1] = p
      BY <1>3, <2>1, <3>1, <3>2
    <3> QED BY <3>1, <3>2, <3>3
  <2> QED BY <1>1, <2>2, <2>3, <2>4
<1>7. \A i, j \in Slots : i < last /\ j < last /\ s[i] = s[j] => i = j
  <2> SUFFICES ASSUME NEW i \in Slots, NEW j \in Slots, i < last, j < last, s[i] = s[j]
               PROVE  i = j
    OBVIOUS
  <2> DEFINE src(k) == IF f <= k THEN k + 1 ELSE k
  <2>1. \A k \in {i, j} : src(k) \in Slots /\ src(k) < last + 1 /\ s[k] = slot[l][src(k)]
    BY <1>1, <1>3, <1>4
  <2>2. src(i) = src(j)
    BY <1>1, <2>1 DEF IndexFits
  <2> QED BY <1>1, <1>4, <2>2
<1>8. \A i \in Slots : i >= last => s[i] = Absent
  BY <1>1, <1>3, <1>4 DEF IndexFits
<1> QED BY <1>5, <1>6, <1>7, <1>8 DEF IndexFits, s, last

-----------------------------------------------------------------------------
(* The inductive invariant.  The index invariant alone is not inductive:   *)
(* a new question must not be live yet (IdsAreFresh) nor carry a stale     *)
(* retirement flag (RetiredAreStored).                                     *)

RetiredAreStored == \A q \in retired : questionLevel[q] # Absent

BankInv == BankTypeOK /\ RetiredAreStored /\ IdsAreFresh /\ IndexInvariant /\ LevelCapCoversIndex

(* The initial bank, empty or left behind by a legacy deployment. *)
LEMMA BankInitCorrect == Init => BankInv
<1> SUFFICES ASSUME Init PROVE BankInv
  OBVIOUS
<1> USE Domains DEF Init, BankInit, StoredBefore, Absent
<1>1. 1 \in Levels /\ 1 \in QuestionIds /\ 0 \in Slots
  BY BankAssumption DEF Levels, QuestionIds, Slots
<1>2. BankTypeOK
  BY <1>1, BankAssumption DEF BankTypeOK
<1>3. RetiredAreStored
  BY DEF RetiredAreStored
<1>4. IdsAreFresh
  BY <1>1, BankAssumption DEF IdsAreFresh, QuestionIds
<1>5. IndexInvariant
  <2> SUFFICES ASSUME NEW l \in Levels PROVE IndexFits(slot[l], indexCount[l], Live(l))
    BY LevelByLevel
  <2>1. CASE l = 1 /\ StoredBefore # {}
    <3>1. Live(l) = {1}
      BY <1>1, <2>1 DEF Live
    <3>2. indexCount[l] = 1 /\ \A i \in Slots : slot[l][i] = IF i = 0 THEN 1 ELSE 0
      BY <2>1
    <3> QED BY <1>1, <3>1, <3>2 DEF IndexFits
  <2>2. CASE ~(l = 1 /\ StoredBefore # {})
    <3>1. Live(l) = {}
      BY <2>2 DEF Live
    <3>2. indexCount[l] = 0 /\ \A i \in Slots : slot[l][i] = 0
      BY <2>2
    <3> QED BY <3>1, <3>2 DEF IndexFits
  <2> QED BY <2>1, <2>2
<1>6. LevelCapCoversIndex
  BY DEF LevelCapCoversIndex
<1> QED BY <1>2, <1>3, <1>4, <1>5, <1>6 DEF BankInv

(* The initial settings. *)
LEMMA AdminInitCorrect == Init => AdminTypeOK
<1> SUFFICES ASSUME AdminInit PROVE AdminTypeOK
  BY DEF Init
<1>1. schemaVersion \in 0 .. CurrentSchemaVersion
  BY DEF AdminInit, CurrentSchemaVersion, LegacySchemaVersion
<1>2. {admin, pendingAdmin, upgrader} \subseteq Accounts \cup {NoOne}
  BY DEF AdminInit
<1> QED BY <1>1, <1>2 DEF AdminInit, AdminTypeOK

(* add_question: the new question takes the first free slot of its level. *)
LEMMA AddCorrect ==
    ASSUME BankInv, NEW l \in Levels, AddQuestion(l)
    PROVE  BankInv'
<1> DEFINE q == questionCount + 1
<1> USE DEF BankInv
<1>1. q \in QuestionIds /\ questionLevel[q] = Absent /\ q \notin retired
  <2>1. q \in QuestionIds /\ ~(q <= questionCount)
    BY BankAssumption DEF BankTypeOK, AddQuestion, QuestionIds
  <2>2. questionLevel[q] = Absent
    BY <2>1 DEF IdsAreFresh
  <2> QED BY <2>1, <2>2 DEF RetiredAreStored
<1> HIDE DEF q
<1>2. /\ HasRoom(l)
      /\ questionCount < MaxQuestionCount
      /\ questionCount' = q
      /\ questionLevel' = [questionLevel EXCEPT ![q] = l]
      /\ slot' = [slot EXCEPT ![l] = Appended(l, q)]
      /\ indexCount' = [indexCount EXCEPT ![l] = indexCount[l] + 1]
      /\ UNCHANGED <<retired, globalCap, levelCap>>
  BY DEF AddQuestion, q
<1>3. BankTypeOK'
  <2>1. questionCount' \in 0 .. MaxQuestionCount
    BY <1>1, <1>2, BankAssumption DEF QuestionIds
  <2>2. slot' \in [Levels -> [Slots -> QuestionIds \cup {Absent}]]
    BY <1>1, <1>2, AppendedType DEF BankTypeOK
  <2>3. indexCount' \in [Levels -> 0 .. MaxQuestionsPerLevel]
    BY <1>2, RoomMeansFreeSlot DEF BankTypeOK
  <2> QED BY <1>1, <1>2, <2>1, <2>2, <2>3 DEF BankTypeOK
<1>4. RetiredAreStored'
  BY <1>1, <1>2, Domains DEF RetiredAreStored, BankTypeOK
<1>5. IdsAreFresh'
  <2>1. \A p \in QuestionIds : p <= q <=> p <= questionCount \/ p = q
    BY Domains DEF q, BankTypeOK
  <2> QED BY <1>1, <1>2, <2>1, Domains DEF IdsAreFresh, BankTypeOK
<1>6. IndexInvariant'
  <2> SUFFICES ASSUME NEW m \in Levels PROVE IndexFits(slot'[m], indexCount'[m], Live(m)')
    BY LevelByLevelNext
  <2>1. IndexFits(slot[m], indexCount[m], Live(m))
    BY LevelByLevel
  <2>2. CASE m = l
    <3>1. q \notin Live(l) /\ Live(l)' = Live(l) \cup {q}
      BY <1>1, <1>2, Domains DEF Live, BankTypeOK
    <3>2. IndexFits(Appended(l, q), indexCount[l] + 1, Live(l) \cup {q})
      BY <1>1, <1>2, <2>1, <2>2, <3>1, AppendFits
    <3> QED BY <1>2, <2>2, <3>1, <3>2 DEF BankTypeOK
  <2>3. CASE m # l
    <3>1. Live(m)' = Live(m)
      BY <1>1, <1>2, <2>3, Domains DEF Live, BankTypeOK
    <3> QED BY <1>2, <2>1, <2>3, <3>1 DEF BankTypeOK
  <2> QED BY <2>2, <2>3
<1>7. LevelCapCoversIndex'
  <2>1. levelCap[l] # Absent => indexCount[l] + 1 <= levelCap[l]
    BY <1>2 DEF HasRoom, CapForLevel, BankTypeOK
  <2> QED BY <1>2, <2>1 DEF LevelCapCoversIndex, BankTypeOK
<1> QED BY <1>3, <1>4, <1>5, <1>6, <1>7

(* update_question that stays in place: live questions keep their level. *)
LEMMA UpdateCorrect ==
    ASSUME BankInv, NEW q \in QuestionIds, NEW l \in Levels, UpdateInPlace(q, l)
    PROVE  BankInv'
<1> USE DEF BankInv
<1>1. /\ questionLevel[q] # Absent
      /\ questionLevel[q] = l \/ q \in retired
      /\ questionLevel' = [questionLevel EXCEPT ![q] = l]
      /\ UNCHANGED <<retired, questionCount, slot, indexCount, globalCap, levelCap>>
  BY DEF UpdateInPlace
<1>2. \A m \in Levels : Live(m)' = Live(m)
  BY <1>1 DEF Live, BankTypeOK
<1>3. BankTypeOK'
  BY <1>1 DEF BankTypeOK
<1>4. RetiredAreStored' /\ IdsAreFresh'
  BY <1>1, Domains DEF RetiredAreStored, IdsAreFresh, BankTypeOK
<1>5. IndexInvariant'
  <2> SUFFICES ASSUME NEW m \in Levels PROVE IndexFits(slot'[m], indexCount'[m], Live(m)')
    BY LevelByLevelNext
  <2> QED BY <1>1, <1>2, LevelByLevel
<1>6. LevelCapCoversIndex'
  BY <1>1 DEF LevelCapCoversIndex
<1> QED BY <1>3, <1>4, <1>5, <1>6

(* update_question that moves a question: one level appends, one compacts. *)
LEMMA MoveCorrect ==
    ASSUME BankInv, NEW q \in QuestionIds, NEW l \in Levels, MoveQuestion(q, l)
    PROVE  BankInv'
<1> USE DEF BankInv
<1>0. PICK old \in Levels : questionLevel[q] = old
  BY DEF MoveQuestion, BankTypeOK
<1>1. old \in Levels /\ old # l
  BY <1>0 DEF MoveQuestion
<1>2. /\ HasRoom(l) /\ Indexed(old, q) /\ q \notin retired
      /\ questionLevel' = [questionLevel EXCEPT ![q] = l]
      /\ slot' = [slot EXCEPT ![l] = Appended(l, q), ![old] = Compacted(old, q)]
      /\ indexCount' = [indexCount EXCEPT ![l] = indexCount[l] + 1,
                                         ![old] = indexCount[old] - 1]
      /\ UNCHANGED <<retired, questionCount, globalCap, levelCap>>
  BY <1>0, <1>1 DEF MoveQuestion, BankTypeOK
<1>3. IndexedOnce
  BY DEF IndexInvariant
<1>4. /\ Live(l)' = Live(l) \cup {q} /\ q \notin Live(l)
      /\ Live(old)' = Live(old) \ {q}
      /\ \A m \in Levels \ {l, old} : Live(m)' = Live(m)
  BY <1>0, <1>1, <1>2 DEF Live, BankTypeOK
<1>5. /\ slot'[l] = Appended(l, q) /\ indexCount'[l] = indexCount[l] + 1
      /\ slot'[old] = Compacted(old, q) /\ indexCount'[old] = indexCount[old] - 1
      /\ \A m \in Levels \ {l, old} : slot'[m] = slot[m] /\ indexCount'[m] = indexCount[m]
  BY <1>1, <1>2 DEF BankTypeOK
<1>6. BankTypeOK'
  <2>1. slot' \in [Levels -> [Slots -> QuestionIds \cup {Absent}]]
    <3>1. /\ Appended(l, q) \in [Slots -> QuestionIds \cup {Absent}]
          /\ Compacted(old, q) \in [Slots -> QuestionIds \cup {Absent}]
      BY <1>1, <1>2, <1>3, AppendedType, CompactedType
    <3> QED BY <1>1, <1>2, <3>1 DEF BankTypeOK
  <2>2. indexCount' \in [Levels -> 0 .. MaxQuestionsPerLevel]
    <3>1. /\ indexCount[l] + 1 \in 0 .. MaxQuestionsPerLevel
          /\ indexCount[old] - 1 \in 0 .. MaxQuestionsPerLevel
      BY <1>1, <1>2, <1>3, RoomMeansFreeSlot, CompactedType
    <3> QED BY <1>1, <1>2, <3>1 DEF BankTypeOK
  <2> QED BY <1>2, <2>1, <2>2 DEF BankTypeOK
<1>7. RetiredAreStored' /\ IdsAreFresh'
  BY <1>0, <1>1, <1>2, Domains DEF RetiredAreStored, IdsAreFresh, BankTypeOK
<1>8. IndexInvariant'
  <2> SUFFICES ASSUME NEW m \in Levels PROVE IndexFits(slot'[m], indexCount'[m], Live(m)')
    BY LevelByLevelNext
  <2>1. IndexFits(slot[m], indexCount[m], Live(m))
    BY LevelByLevel
  <2>2. CASE m = l
    BY <1>2, <1>4, <1>5, <2>1, <2>2, AppendFits
  <2>3. CASE m = old
    BY <1>1, <1>2, <1>3, <1>4, <1>5, <2>1, <2>3, CompactFits
  <2>4. CASE m \notin {l, old}
    BY <1>4, <1>5, <2>1, <2>4
  <2> QED BY <2>2, <2>3, <2>4
<1>9. LevelCapCoversIndex'
  <2> SUFFICES ASSUME NEW m \in Levels, levelCap[m] # Absent
               PROVE  indexCount'[m] <= levelCap[m]
    BY <1>2 DEF LevelCapCoversIndex
  <2>1. indexCount[m] <= levelCap[m] /\ indexCount[m] \in Nat /\ levelCap[m] \in Nat
    BY DEF LevelCapCoversIndex, BankTypeOK
  <2>2. CASE m = l
    BY <1>2, <1>5, <2>1, <2>2 DEF HasRoom, CapForLevel
  <2>3. CASE m # l
    BY <1>5, <2>1, <2>3
  <2> QED BY <2>2, <2>3
<1> QED BY <1>6, <1>7, <1>8, <1>9

(* retire_question, also of a question that is retired already. *)
LEMMA RetireCorrect ==
    ASSUME BankInv, NEW q \in QuestionIds, RetireQuestion(q)
    PROVE  BankInv'
<1> USE DEF BankInv
<1>1. PICK l \in Levels : questionLevel[q] = l
  BY DEF RetireQuestion, BankTypeOK
<1>2. /\ retired' = retired \cup {q}
      /\ UNCHANGED <<questionLevel, questionCount, globalCap, levelCap>>
  BY DEF RetireQuestion
<1>3. RetiredAreStored' /\ IdsAreFresh'
  BY <1>1, <1>2, Domains DEF RetiredAreStored, IdsAreFresh
<1>4. /\ Live(l)' = Live(l) \ {q}
      /\ \A m \in Levels \ {l} : Live(m)' = Live(m)
  BY <1>1, <1>2 DEF Live
<1>5. CASE Indexed(l, q)
  <2>1. /\ slot' = [slot EXCEPT ![l] = Compacted(l, q)]
        /\ indexCount' = [indexCount EXCEPT ![l] = indexCount[l] - 1]
    BY <1>1, <1>5 DEF RetireQuestion, BankTypeOK
  <2>2. IndexedOnce
    BY DEF IndexInvariant
  <2>3. BankTypeOK'
    <3>1. slot' \in [Levels -> [Slots -> QuestionIds \cup {Absent}]]
      BY <1>1, <1>5, <2>1, <2>2, CompactedType DEF BankTypeOK
    <3>2. indexCount' \in [Levels -> 0 .. MaxQuestionsPerLevel]
      BY <1>1, <1>5, <2>1, <2>2, CompactedType DEF BankTypeOK
    <3> QED BY <1>2, <3>1, <3>2 DEF BankTypeOK
  <2>4. IndexInvariant'
    <3> SUFFICES ASSUME NEW m \in Levels PROVE IndexFits(slot'[m], indexCount'[m], Live(m)')
      BY LevelByLevelNext
    <3>1. IndexFits(slot[m], indexCount[m], Live(m))
      BY LevelByLevel
    <3>2. CASE m = l
      <4>1. IndexFits(Compacted(l, q), indexCount[l] - 1, Live(l) \ {q})
        BY <1>1, <1>5, <2>2, <3>1, <3>2, CompactFits
      <4> QED BY <1>1, <1>4, <2>1, <3>2, <4>1 DEF BankTypeOK
    <3>3. CASE m # l
      BY <1>1, <1>4, <2>1, <3>1, <3>3 DEF BankTypeOK
    <3> QED BY <3>2, <3>3
  <2>5. LevelCapCoversIndex'
    BY <1>1, <1>2, <2>1 DEF LevelCapCoversIndex, BankTypeOK
  <2> QED BY <1>3, <2>3, <2>4, <2>5
<1>6. CASE ~Indexed(l, q)
  <2>1. UNCHANGED <<slot, indexCount>>
    BY <1>1, <1>6 DEF RetireQuestion
  <2>2. q \notin Live(l)
    BY <1>1, <1>6 DEF IndexInvariant, LiveIsIndexed
  <2>3. IndexInvariant'
    <3>1. \A m \in Levels : Live(m)' = Live(m)
      BY <1>4, <2>2
    <3> QED BY <2>1, <3>1, LevelByLevel, LevelByLevelNext
  <2>4. BankTypeOK' /\ LevelCapCoversIndex'
    BY <1>2, <2>1 DEF BankTypeOK, LevelCapCoversIndex
  <2> QED BY <1>3, <2>3, <2>4
<1> QED BY <1>5, <1>6

(* The cap setters: a level cap is accepted only if it covers the index. *)
LEMMA CapsCorrect ==
    ASSUME BankInv,
           NEW n \in CapInputs,
           SetQuestionPerLevel(n) \/ \E l \in Levels : SetQuestionCapForLevel(l, n)
    PROVE  BankInv'
<1> USE DEF BankInv
<1>1. UNCHANGED <<questionLevel, retired, questionCount, slot, indexCount>>
  BY DEF SetQuestionPerLevel, SetQuestionCapForLevel
<1>2. BankTypeOK' /\ LevelCapCoversIndex'
  BY <1>1 DEF SetQuestionPerLevel, SetQuestionCapForLevel, BankTypeOK, LevelCapCoversIndex
<1>3. RetiredAreStored' /\ IdsAreFresh'
  BY <1>1 DEF RetiredAreStored, IdsAreFresh
<1>4. IndexInvariant'
  <2>1. \A m \in Levels : Live(m)' = Live(m)
    BY <1>1 DEF Live
  <2> QED BY <1>1, <2>1, LevelByLevel, LevelByLevelNext
<1> QED BY <1>2, <1>3, <1>4

(* Steps that leave the bank alone. *)
LEMMA BankUnchanged ==
    ASSUME BankInv, UNCHANGED bankVars
    PROVE  BankInv'
<1>1. UNCHANGED <<questionLevel, retired, questionCount, slot, indexCount, globalCap, levelCap>>
  BY DEF bankVars
<1>2. \A m \in Levels : Live(m)' = Live(m)
  BY <1>1 DEF Live
<1>3. IndexInvariant'
  BY <1>1, <1>2, LevelByLevel, LevelByLevelNext DEF BankInv
<1> QED BY <1>1, <1>3 DEF BankInv, BankTypeOK, RetiredAreStored, IdsAreFresh, LevelCapCoversIndex

(* Every step of the bank keeps its invariant. *)
LEMMA BankStepCorrect ==
    ASSUME BankInv, BankNext
    PROVE  BankInv'
<1>1. CASE \E l \in Levels : AddQuestion(l)
  BY <1>1, AddCorrect
<1>2. CASE \E q \in QuestionIds, l \in Levels : UpdateInPlace(q, l)
  BY <1>2, UpdateCorrect
<1>3. CASE \E q \in QuestionIds, l \in Levels : MoveQuestion(q, l)
  BY <1>3, MoveCorrect
<1>4. CASE \E q \in QuestionIds : RetireQuestion(q)
  BY <1>4, RetireCorrect
<1>5. CASE \E n \in CapInputs : SetQuestionPerLevel(n)
  BY <1>5, CapsCorrect
<1>6. CASE \E l \in Levels, n \in CapInputs : SetQuestionCapForLevel(l, n)
  BY <1>6, CapsCorrect
<1> QED BY <1>1, <1>2, <1>3, <1>4, <1>5, <1>6 DEF BankNext

(* Every administrative step keeps the types of the settings. *)
LEMMA AdminStepType ==
    ASSUME AdminTypeOK, AdminNext
    PROVE  AdminTypeOK'
<1> USE DEF AdminTypeOK
<1>1. CASE \E a \in Accounts : GameInit(a) \/ SetUpgrader(a) \/ ProposeAdmin(a)
  BY <1>1 DEF GameInit, SetUpgrader, ProposeAdmin, CurrentSchemaVersion
<1>2. CASE AcceptAdmin
  BY <1>2 DEF AcceptAdmin
<1>3. CASE \E a \in Accounts, r \in Roles : GrantRole(a, r) \/ RevokeRole(a, r)
  BY <1>3 DEF GrantRole, RevokeRole
<1>4. CASE \E h \in WasmHashes : Upgrade(h)
  BY <1>4 DEF Upgrade
<1>5. CASE \E c \in NftContracts : SetNftContractAddress(c)
  BY <1>5 DEF SetNftContractAddress
<1>6. CASE \E b \in BOOLEAN : SetPaused(b)
  BY <1>6 DEF SetPaused
<1>7. CASE \E v \in 0 .. CurrentSchemaVersion : MigrateSchema(v)
  BY <1>7 DEF MigrateSchema, CurrentSchemaVersion
<1> QED BY <1>1, <1>2, <1>3, <1>4, <1>5, <1>6, <1>7 DEF AdminNext

-----------------------------------------------------------------------------
(* The theorems. *)

(* The inductive invariant holds throughout every behaviour of the bank    *)
(* and of the settings beside it.                                          *)
THEOREM Invariance == Spec => [](AdminTypeOK /\ BankInv)
<1>1. Init => AdminTypeOK /\ BankInv
  BY AdminInitCorrect, BankInitCorrect
<1>2. AdminTypeOK /\ BankInv /\ [Next]_vars => (AdminTypeOK /\ BankInv)'
  <2> SUFFICES ASSUME AdminTypeOK, BankInv, [Next]_vars PROVE AdminTypeOK' /\ BankInv'
    OBVIOUS
  <2>1. CASE AdminNext /\ UNCHANGED bankVars
    BY <2>1, AdminStepType, BankUnchanged
  <2>2. CASE BankNext /\ UNCHANGED adminVars
    <3>1. BankInv'
      BY <2>2, BankStepCorrect
    <3>2. AdminTypeOK'
      BY <2>2 DEF adminVars, AdminTypeOK
    <3> QED BY <3>1, <3>2
  <2>3. CASE UNCHANGED vars
    <3>1. UNCHANGED adminVars /\ UNCHANGED bankVars
      BY <2>3 DEF vars
    <3>2. AdminTypeOK'
      BY <3>1 DEF adminVars, AdminTypeOK
    <3> QED BY <3>1, <3>2, BankUnchanged
  <2> QED BY <2>1, <2>2, <2>3 DEF Next
<1> QED BY <1>1, <1>2, PTL DEF Spec

(* Every stored value keeps its type, for every bank, index and cap size. *)
THEOREM TypeCorrect == Spec => []TypeOK
<1>1. AdminTypeOK /\ BankInv => TypeOK
  BY DEF BankInv, TypeOK
<1> QED BY <1>1, Invariance, PTL

(* The index invariant documented in the contract: after any sequence of   *)
(* additions, moves, rewrites and retirements the index of every level     *)
(* holds exactly its live questions, each once, without a gap.             *)
THEOREM IndexCorrect == Spec => []IndexInvariant
<1>1. AdminTypeOK /\ BankInv => IndexInvariant
  BY DEF BankInv
<1> QED BY <1>1, Invariance, PTL

(* A level never outgrows a cap that was set for it. *)
THEOREM CapCorrect == Spec => []LevelCapCoversIndex
<1>1. AdminTypeOK /\ BankInv => LevelCapCoversIndex
  BY DEF BankInv
<1> QED BY <1>1, Invariance, PTL

-----------------------------------------------------------------------------
(* The bank implements LevelOrder.  The order of one level is read off its *)
(* slots: p is asked before r if p's slot is below r's.                    *)

Before(s, n, p, r) ==
    \E i, j \in Slots : i < j /\ j < n /\ s[i] = p /\ s[j] = r

Pairs == QuestionIds \X QuestionIds

LEMMA AskedBeforeByLevel ==
    AskedBefore = {e \in Pairs : \E l \in Levels : Before(slot[l], indexCount[l], e[1], e[2])}
BY DEF AskedBefore, Before, Pairs

LEMMA AskedBeforeByLevelNext ==
    AskedBefore' = {e \in Pairs : \E l \in Levels : Before(slot'[l], indexCount'[l], e[1], e[2])}
BY DEF AskedBefore, Before, Pairs

(* A question that is asked before or after another is live in its level. *)
LEMMA BeforeIsLive ==
    ASSUME BankInv, NEW l \in Levels, NEW p, NEW r, Before(slot[l], indexCount[l], p, r)
    PROVE  p \in Live(l) /\ r \in Live(l)
<1>1. PICK i \in Slots, j \in Slots :
         i < j /\ j < indexCount[l] /\ slot[l][i] = p /\ slot[l][j] = r
  BY DEF Before
<1>2. i < indexCount[l]
  BY <1>1, Domains DEF BankInv, BankTypeOK
<1> QED BY <1>1, <1>2 DEF BankInv, IndexInvariant, SlotsAreLive

(* A question is live in one level only. *)
LEMMA OneLevel ==
    ASSUME NEW l \in Levels, NEW m \in Levels, NEW q \in Live(l), q \in Live(m)
    PROVE  l = m
BY DEF Live

(* Appending puts the new question behind every live one. *)
LEMMA AppendOrder ==
    ASSUME BankTypeOK, NEW l \in Levels, HasRoom(l), NEW q \in QuestionIds, NEW L,
           IndexFits(slot[l], indexCount[l], L), NEW p, NEW r
    PROVE  Before(Appended(l, q), indexCount[l] + 1, p, r) <=>
              Before(slot[l], indexCount[l], p, r) \/ (p \in L /\ r = q)
<1> DEFINE n == indexCount[l]
           s == Appended(l, q)
<1>1. n \in Slots /\ n \in Nat
  BY RoomMeansFreeSlot, Domains
<1>2. \A i \in Slots : s[i] = IF i = n THEN q ELSE slot[l][i]
  BY AppendedType
<1>3. \A i \in Slots : i \in Nat
  BY Domains
<1> HIDE DEF s, n
<1>4. ASSUME Before(s, n + 1, p, r)
      PROVE  Before(slot[l], n, p, r) \/ (p \in L /\ r = q)
  <2>1. PICK i \in Slots, j \in Slots : i < j /\ j < n + 1 /\ s[i] = p /\ s[j] = r
    BY <1>4 DEF Before
  <2>2. i < n /\ s[i] = slot[l][i]
    <3>1. i \in Nat /\ j \in Nat
      BY <1>3
    <3>2. i < n /\ i # n
      BY <1>1, <2>1, <3>1
    <3> QED BY <1>2, <3>2
  <2>3. CASE j = n
    BY <1>2, <2>1, <2>2, <2>3 DEF IndexFits, n
  <2>4. CASE j # n
    <3>1. j < n /\ s[j] = slot[l][j]
      BY <1>1, <1>2, <1>3, <2>1, <2>4
    <3> QED BY <2>1, <2>2, <3>1 DEF Before
  <2> QED BY <2>3, <2>4
<1>5. ASSUME Before(slot[l], n, p, r)
      PROVE  Before(s, n + 1, p, r)
  <2>1. PICK i \in Slots, j \in Slots : i < j /\ j < n /\ slot[l][i] = p /\ slot[l][j] = r
    BY <1>5 DEF Before
  <2>2. i # n /\ j # n /\ j < n + 1
    <3>1. i \in Nat /\ j \in Nat
      BY <1>3
    <3> QED BY <1>1, <2>1, <3>1
  <2> QED BY <1>2, <2>1, <2>2 DEF Before
<1>6. ASSUME p \in L, r = q
      PROVE  Before(s, n + 1, p, r)
  <2>1. PICK i \in Slots : i < n /\ slot[l][i] = p
    BY <1>6 DEF IndexFits, n
  <2>2. i # n /\ n < n + 1
    BY <1>1, <1>3, <2>1
  <2>3. s[i] = p /\ s[n] = r
    BY <1>1, <1>2, <1>6, <2>1, <2>2
  <2> QED BY <1>1, <2>1, <2>2, <2>3 DEF Before
<1>7. Before(s, n + 1, p, r) <=> Before(slot[l], n, p, r) \/ (p \in L /\ r = q)
  BY <1>4, <1>5, <1>6
<1> QED BY <1>7 DEF s, n

(* Compaction keeps the order of the questions that stay. *)
LEMMA CompactOrder ==
    ASSUME BankTypeOK, IndexedOnce, NEW l \in Levels, NEW q \in QuestionIds, Indexed(l, q),
           NEW p, NEW r
    PROVE  Before(Compacted(l, q), indexCount[l] - 1, p, r) <=>
              Before(slot[l], indexCount[l], p, r) /\ p # q /\ r # q
<1> DEFINE last == indexCount[l] - 1
           f == FirstSlot(l, q)
           s == Compacted(l, q)
<1>1. indexCount[l] \in 0 .. MaxQuestionsPerLevel
  BY DEF BankTypeOK
<1>2. f \in Slots /\ f < indexCount[l] /\ slot[l][f] = q
  BY FirstSlotFinds
<1>3. f \in Nat /\ last \in Nat /\ f < last + 1 /\ indexCount[l] = last + 1
  <2>1. f \in Nat
    BY <1>2, Domains
  <2> HIDE DEF f
  <2> QED BY <1>1, <1>2, <2>1, Domains
<1>4. \A i \in Slots : s[i] = IF i = last THEN Absent
                              ELSE IF f <= i /\ i < last THEN slot[l][i + 1] ELSE slot[l][i]
  BY CompactedType
<1>5. \A i \in Slots : i \in Nat /\ (i < last => i + 1 \in Slots) /\ (i > f => i - 1 \in Slots)
  BY <1>1, <1>3, Domains, BankAssumption DEF Slots
<1>6. \A i \in Slots : i < last + 1 /\ slot[l][i] = q => i = f
  BY <1>2, <1>3 DEF IndexedOnce
<1> HIDE DEF s, f, last
(* Where the entry of a slot came from, and where it goes. *)
<1> DEFINE src(k) == IF f <= k THEN k + 1 ELSE k
           dst(k) == IF f < k THEN k - 1 ELSE k
<1>7. \A i \in Slots : i < last =>
         src(i) \in Slots /\ src(i) < last + 1 /\ src(i) # f /\ s[i] = slot[l][src(i)]
  BY <1>3, <1>4, <1>5
<1>8. \A i \in Slots : i < last + 1 /\ i # f =>
         dst(i) \in Slots /\ dst(i) < last /\ s[dst(i)] = slot[l][i]
  BY <1>3, <1>4, <1>5
<1>9. ASSUME Before(s, last, p, r)
      PROVE  Before(slot[l], last + 1, p, r) /\ p # q /\ r # q
  <2>1. PICK i \in Slots, j \in Slots : i < j /\ j < last /\ s[i] = p /\ s[j] = r
    BY <1>9 DEF Before
  <2>2. i < last /\ src(i) < src(j)
    BY <1>3, <1>5, <2>1
  <2> HIDE DEF src
  <2>3. /\ src(i) \in Slots /\ src(i) < last + 1 /\ src(i) # f /\ p = slot[l][src(i)]
        /\ src(j) \in Slots /\ src(j) < last + 1 /\ src(j) # f /\ r = slot[l][src(j)]
    BY <1>7, <2>1, <2>2
  <2> QED BY <1>6, <2>2, <2>3 DEF Before
<1>10. ASSUME Before(slot[l], last + 1, p, r), p # q, r # q
       PROVE  Before(s, last, p, r)
  <2>1. PICK i \in Slots, j \in Slots :
           i < j /\ j < last + 1 /\ slot[l][i] = p /\ slot[l][j] = r
    BY <1>10 DEF Before
  <2>2. i # f /\ j # f /\ i < last + 1
    <3>1. i \in Nat /\ j \in Nat
      BY <1>5
    <3>2. i < last + 1
      BY <1>3, <2>1, <3>1
    <3> QED BY <1>2, <1>10, <2>1, <3>2
  <2>3. dst(i) < dst(j)
    BY <1>3, <1>5, <2>1, <2>2
  <2> HIDE DEF dst
  <2>4. /\ dst(i) \in Slots /\ s[dst(i)] = p
        /\ dst(j) \in Slots /\ dst(j) < last /\ s[dst(j)] = r
    BY <1>8, <2>1, <2>2
  <2> QED BY <2>3, <2>4 DEF Before
<1>11. Before(s, last, p, r) <=> Before(slot[l], last + 1, p, r) /\ p # q /\ r # q
  BY <1>9, <1>10
<1> QED BY <1>3, <1>11 DEF s, last

(* Each step of the bank is a step of LevelOrder, or changes nothing that  *)
(* LevelOrder can see.                                                     *)

LiveByLevel == [l \in Levels |-> Live(l)]

LEMMA LiveNext == LiveByLevel' = [l \in Levels |-> Live(l)']
BY DEF LiveByLevel

(* What LevelOrder's NotMentioning is to the bank. *)
LEMMA NotMentioningIs ==
    ASSUME NEW q
    PROVE  Order!NotMentioning(q) = {e \in AskedBefore : e[1] # q /\ e[2] # q}
BY DEF Order!NotMentioning

(* add_question admits its question at the end of a level. *)
LEMMA AddAdmits ==
    ASSUME BankInv, NEW l \in Levels, AddQuestion(l)
    PROVE  Order!Next
<1> DEFINE q == questionCount + 1
<1> USE DEF BankInv
<1>1. q \in QuestionIds /\ questionLevel[q] = Absent /\ q \notin retired
  <2>1. q \in QuestionIds /\ ~(q <= questionCount)
    BY BankAssumption DEF BankTypeOK, AddQuestion, QuestionIds
  <2>2. questionLevel[q] = Absent
    BY <2>1 DEF IdsAreFresh
  <2> QED BY <2>1, <2>2 DEF RetiredAreStored
<1> HIDE DEF q
<1>2. /\ HasRoom(l)
      /\ questionLevel' = [questionLevel EXCEPT ![q] = l]
      /\ slot' = [slot EXCEPT ![l] = Appended(l, q)]
      /\ indexCount' = [indexCount EXCEPT ![l] = indexCount[l] + 1]
      /\ retired' = retired
  BY DEF AddQuestion, q
<1>3. \A m \in Levels : q \notin Live(m)
  BY <1>1, Domains DEF Live
<1>4. \A m \in Levels : Live(m)' = IF m = l THEN Live(m) \cup {q} ELSE Live(m)
  BY <1>1, <1>2, Domains DEF Live, BankTypeOK
<1>5. LiveByLevel' = [LiveByLevel EXCEPT ![l] = @ \cup {q}]
  BY <1>4, LiveNext DEF LiveByLevel
<1>6. AskedBefore' = AskedBefore \cup (Live(l) \X {q})
  <2>1. \A p, r \in QuestionIds, m \in Levels :
           Before(slot'[m], indexCount'[m], p, r) <=>
              Before(slot[m], indexCount[m], p, r) \/ (m = l /\ p \in Live(l) /\ r = q)
    <3> SUFFICES ASSUME NEW p \in QuestionIds, NEW r \in QuestionIds, NEW m \in Levels
                 PROVE  Before(slot'[m], indexCount'[m], p, r) <=>
                          Before(slot[m], indexCount[m], p, r) \/ (m = l /\ p \in Live(l) /\ r = q)
      OBVIOUS
    <3>1. CASE m = l
      <4>1. slot'[l] = Appended(l, q) /\ indexCount'[l] = indexCount[l] + 1
        BY <1>2 DEF BankTypeOK
      <4>2. IndexFits(slot[l], indexCount[l], Live(l))
        BY LevelByLevel
      <4>3. Before(Appended(l, q), indexCount[l] + 1, p, r) <=>
               Before(slot[l], indexCount[l], p, r) \/ (p \in Live(l) /\ r = q)
        BY <1>1, <1>2, <4>2, AppendOrder
      <4> QED BY <3>1, <4>1, <4>3
    <3>2. CASE m # l
      BY <1>2, <3>2 DEF BankTypeOK
    <3> QED BY <3>1, <3>2
  <2>2. Live(l) \X {q} = {e \in Pairs : e[1] \in Live(l) /\ e[2] = q}
    BY <1>1 DEF Live, Pairs
  <2>3. \A e \in Pairs : e[1] \in QuestionIds /\ e[2] \in QuestionIds
    BY DEF Pairs
  <2> QED BY <2>1, <2>2, <2>3, AskedBeforeByLevel, AskedBeforeByLevelNext
<1>7. Order!Admit(l, q)
  BY <1>1, <1>2, <1>3, <1>5, <1>6 DEF Order!Admit, LiveByLevel
<1> QED BY <1>1, <1>7 DEF Order!Next

(* retire_question withdraws a live question; retiring it again shows      *)
(* nothing.                                                                *)
LEMMA RetireWithdraws ==
    ASSUME BankInv, NEW q \in QuestionIds, RetireQuestion(q)
    PROVE  Order!Next \/ UNCHANGED Order!orderVars
<1> USE DEF BankInv
<1>1. PICK l \in Levels : questionLevel[q] = l
  BY DEF RetireQuestion, BankTypeOK
<1>2. /\ retired' = retired \cup {q}
      /\ questionLevel' = questionLevel
  BY DEF RetireQuestion
<1>3. \A m \in Levels : Live(m)' = IF m = l THEN Live(m) \ {q} ELSE Live(m)
  BY <1>1, <1>2 DEF Live
<1>4. CASE Indexed(l, q)
  <2>1. /\ slot' = [slot EXCEPT ![l] = Compacted(l, q)]
        /\ indexCount' = [indexCount EXCEPT ![l] = indexCount[l] - 1]
    BY <1>1, <1>4 DEF RetireQuestion, BankTypeOK
  <2>2. q \in Live(l)
    BY <1>4 DEF Indexed, IndexInvariant, SlotsAreLive
  <2>3. LiveByLevel' = [LiveByLevel EXCEPT ![l] = @ \ {q}]
    BY <1>3, LiveNext DEF LiveByLevel
  <2>4. AskedBefore' = {e \in AskedBefore : e[1] # q /\ e[2] # q}
    <3>1. \A p, r \in QuestionIds, m \in Levels :
             Before(slot'[m], indexCount'[m], p, r) <=>
                Before(slot[m], indexCount[m], p, r) /\ p # q /\ r # q
      <4> SUFFICES ASSUME NEW p \in QuestionIds, NEW r \in QuestionIds, NEW m \in Levels
                   PROVE  Before(slot'[m], indexCount'[m], p, r) <=>
                            Before(slot[m], indexCount[m], p, r) /\ p # q /\ r # q
        OBVIOUS
      <4>1. CASE m = l
        <5>1. slot'[l] = Compacted(l, q) /\ indexCount'[l] = indexCount[l] - 1
          BY <2>1 DEF BankTypeOK
        <5>2. Before(Compacted(l, q), indexCount[l] - 1, p, r) <=>
                 Before(slot[l], indexCount[l], p, r) /\ p # q /\ r # q
          BY <1>4, CompactOrder DEF IndexInvariant
        <5> QED BY <4>1, <5>1, <5>2
      <4>2. CASE m # l
        <5>1. slot'[m] = slot[m] /\ indexCount'[m] = indexCount[m]
          BY <2>1, <4>2 DEF BankTypeOK
        <5>2. q \notin Live(m)
          BY <2>2, <4>2, OneLevel
        <5>3. Before(slot[m], indexCount[m], p, r) => p # q /\ r # q
          BY <5>2, BeforeIsLive
        <5> QED BY <5>1, <5>3
      <4> QED BY <4>1, <4>2
    <3>2. \A e \in Pairs : e[1] \in QuestionIds /\ e[2] \in QuestionIds
      BY DEF Pairs
    <3> QED BY <3>1, <3>2, AskedBeforeByLevel, AskedBeforeByLevelNext
  <2>5. Order!Withdraw(l, q)
    <3>1. LiveByLevel[l] = Live(l)
      BY DEF LiveByLevel
    <3> QED BY <1>2, <2>2, <2>3, <2>4, <3>1, NotMentioningIs DEF Order!Withdraw, LiveByLevel
  <2> QED BY <2>5 DEF Order!Next
<1>5. CASE ~Indexed(l, q)
  <2>1. UNCHANGED <<slot, indexCount>>
    BY <1>1, <1>5 DEF RetireQuestion
  <2>2. q \notin Live(l) /\ q \in retired
    BY <1>1, <1>5 DEF IndexInvariant, LiveIsIndexed, Live
  <2>3. LiveByLevel' = LiveByLevel
    BY <1>3, <2>2, LiveNext DEF LiveByLevel
  <2>4. AskedBefore' = AskedBefore /\ retired' = retired
    BY <1>2, <2>1, <2>2 DEF AskedBefore
  <2> QED BY <2>3, <2>4 DEF Order!orderVars, LiveByLevel
<1> QED BY <1>4, <1>5

(* update_question that moves a question transfers it, behind every        *)
(* question of its new level.                                              *)
LEMMA MoveTransfers ==
    ASSUME BankInv, NEW q \in QuestionIds, NEW l \in Levels, MoveQuestion(q, l)
    PROVE  Order!Next
<1> USE DEF BankInv
<1>1. PICK old \in Levels : questionLevel[q] = old /\ old # l
  BY DEF MoveQuestion, BankTypeOK
<1>2. /\ HasRoom(l) /\ Indexed(old, q) /\ q \notin retired
      /\ questionLevel' = [questionLevel EXCEPT ![q] = l]
      /\ slot' = [slot EXCEPT ![l] = Appended(l, q), ![old] = Compacted(old, q)]
      /\ indexCount' = [indexCount EXCEPT ![l] = indexCount[l] + 1,
                                         ![old] = indexCount[old] - 1]
      /\ retired' = retired
  BY <1>1 DEF MoveQuestion, BankTypeOK
<1>3. /\ slot'[l] = Appended(l, q) /\ indexCount'[l] = indexCount[l] + 1
      /\ slot'[old] = Compacted(old, q) /\ indexCount'[old] = indexCount[old] - 1
      /\ \A m \in Levels \ {l, old} : slot'[m] = slot[m] /\ indexCount'[m] = indexCount[m]
  BY <1>1, <1>2 DEF BankTypeOK
<1>4. /\ q \in Live(old)
      /\ \A m \in Levels : m # old => q \notin Live(m)
      /\ \A m \in Levels : Live(m)' = IF m = l THEN Live(m) \cup {q}
                                      ELSE IF m = old THEN Live(m) \ {q} ELSE Live(m)
  BY <1>1, <1>2 DEF Live, BankTypeOK
<1>5. LiveByLevel' = [LiveByLevel EXCEPT ![old] = @ \ {q}, ![l] = @ \cup {q}]
  <2>1. LiveByLevel' = [m \in Levels |-> IF m = l THEN Live(m) \cup {q}
                                         ELSE IF m = old THEN Live(m) \ {q} ELSE Live(m)]
    BY <1>4, LiveNext
  <2> QED BY <1>1, <2>1 DEF LiveByLevel
<1>6. AskedBefore' = {e \in AskedBefore : e[1] # q /\ e[2] # q} \cup (Live(l) \X {q})
  <2>1. \A p, r \in QuestionIds, m \in Levels :
           Before(slot'[m], indexCount'[m], p, r) <=>
              \/ Before(slot[m], indexCount[m], p, r) /\ p # q /\ r # q
              \/ m = l /\ p \in Live(l) /\ r = q
    <3> SUFFICES ASSUME NEW p \in QuestionIds, NEW r \in QuestionIds, NEW m \in Levels
                 PROVE  Before(slot'[m], indexCount'[m], p, r) <=>
                          \/ Before(slot[m], indexCount[m], p, r) /\ p # q /\ r # q
                          \/ m = l /\ p \in Live(l) /\ r = q
      OBVIOUS
    <3>1. m # old => (Before(slot[m], indexCount[m], p, r) => p # q /\ r # q)
      BY <1>4, BeforeIsLive
    <3>2. CASE m = l
      <4>1. IndexFits(slot[l], indexCount[l], Live(l))
        BY LevelByLevel
      <4>2. Before(Appended(l, q), indexCount[l] + 1, p, r) <=>
               Before(slot[l], indexCount[l], p, r) \/ (p \in Live(l) /\ r = q)
        BY <1>2, <4>1, AppendOrder
      <4> QED BY <1>1, <1>3, <3>1, <3>2, <4>2
    <3>3. CASE m = old
      <4>1. Before(Compacted(old, q), indexCount[old] - 1, p, r) <=>
               Before(slot[old], indexCount[old], p, r) /\ p # q /\ r # q
        BY <1>2, CompactOrder DEF IndexInvariant
      <4> QED BY <1>1, <1>3, <3>3, <4>1
    <3>4. CASE m # l /\ m # old
      BY <1>3, <3>1, <3>4
    <3> QED BY <3>2, <3>3, <3>4
  <2>2. Live(l) \X {q} = {e \in Pairs : e[1] \in Live(l) /\ e[2] = q}
    BY DEF Live, Pairs
  <2>3. \A e \in Pairs : e[1] \in QuestionIds /\ e[2] \in QuestionIds
    BY DEF Pairs
  <2> QED BY <2>1, <2>2, <2>3, AskedBeforeByLevel, AskedBeforeByLevelNext
<1>7. Order!Transfer(old, l, q)
  <2>1. LiveByLevel[old] = Live(old) /\ LiveByLevel[l] = Live(l)
    BY DEF LiveByLevel
  <2> QED BY <1>1, <1>2, <1>4, <1>5, <1>6, <2>1, NotMentioningIs DEF Order!Transfer, LiveByLevel
<1> QED BY <1>1, <1>7 DEF Order!Next

(* Every other step is invisible: what is live where, in which order, and  *)
(* what was retired, stays.                                                *)
LEMMA InvisibleSteps ==
    ASSUME UNCHANGED <<slot, indexCount, retired>>, \A l \in Levels : Live(l)' = Live(l)
    PROVE  UNCHANGED Order!orderVars
<1>1. LiveByLevel' = LiveByLevel
  BY LiveNext DEF LiveByLevel
<1>2. AskedBefore' = AskedBefore
  BY DEF AskedBefore
<1> QED BY <1>1, <1>2 DEF Order!orderVars, LiveByLevel

LEMMA BankStepImplements ==
    ASSUME BankInv, BankNext
    PROVE  Order!Next \/ UNCHANGED Order!orderVars
<1>1. CASE \E l \in Levels : AddQuestion(l)
  BY <1>1, AddAdmits
<1>2. CASE \E q \in QuestionIds, l \in Levels : UpdateInPlace(q, l)
  <2>1. PICK q \in QuestionIds, l \in Levels : UpdateInPlace(q, l)
    BY <1>2
  <2>2. /\ UNCHANGED <<slot, indexCount, retired>>
        /\ questionLevel' = [questionLevel EXCEPT ![q] = l]
        /\ questionLevel[q] = l \/ q \in retired
    BY <2>1 DEF UpdateInPlace
  <2>3. \A m \in Levels : Live(m)' = Live(m)
    BY <2>2 DEF Live, BankInv, BankTypeOK
  <2> QED BY <2>2, <2>3, InvisibleSteps
<1>3. CASE \E q \in QuestionIds, l \in Levels : MoveQuestion(q, l)
  BY <1>3, MoveTransfers
<1>4. CASE \E q \in QuestionIds : RetireQuestion(q)
  BY <1>4, RetireWithdraws
<1>5. CASE \/ \E n \in CapInputs : SetQuestionPerLevel(n)
           \/ \E l \in Levels, n \in CapInputs : SetQuestionCapForLevel(l, n)
  <2>1. UNCHANGED <<questionLevel, slot, indexCount, retired>>
    BY <1>5 DEF SetQuestionPerLevel, SetQuestionCapForLevel
  <2> QED BY <2>1, InvisibleSteps DEF Live
<1> QED BY <1>1, <1>2, <1>3, <1>4, <1>5 DEF BankNext

(* An empty bank, or one with the legacy deployment's single question. *)
LEMMA InitImplements == Init => Order!Init
<1> SUFFICES ASSUME Init PROVE Order!Init
  OBVIOUS
<1>1. 1 \in Levels /\ 1 \in QuestionIds /\ 1 # Absent
  BY BankAssumption DEF Levels, QuestionIds, Absent
<1>2. retired = {} /\ \A l \in Levels : indexCount[l] \in {0, 1}
  BY DEF Init, BankInit
<1>3. AskedBefore = {}
  <2> SUFFICES ASSUME NEW l \in Levels, NEW i \in Slots, NEW j \in Slots, i < j, j < indexCount[l]
               PROVE  FALSE
    BY DEF AskedBefore
  <2>1. i \in Nat /\ j \in Nat
    BY Domains
  <2> QED BY <1>2, <2>1
<1>4. \A l \in Levels : Live(l) = IF l = 1 THEN StoredBefore ELSE {}
  BY <1>1, Domains DEF Init, BankInit, Live, StoredBefore
<1>5. \/ LiveByLevel = [l \in Levels |-> {}]
      \/ \E l \in Levels, q \in QuestionIds :
            LiveByLevel = [m \in Levels |-> IF m = l THEN {q} ELSE {}]
  <2>1. CASE schemaVersion = LegacySchemaVersion
    <3>1. LiveByLevel = [m \in Levels |-> IF m = 1 THEN {1} ELSE {}]
      BY <1>4, <2>1 DEF LiveByLevel, StoredBefore
    <3> QED BY <1>1, <3>1
  <2>2. CASE schemaVersion # LegacySchemaVersion
    <3>1. LiveByLevel = [m \in Levels |-> {}]
      BY <1>4, <2>2 DEF LiveByLevel, StoredBefore
    <3> QED BY <3>1
  <2> QED BY <2>1, <2>2
<1> QED BY <1>2, <1>3, <1>5 DEF Order!Init, LiveByLevel

(* The bank implements LevelOrder: whatever the slots, counters, caps and  *)
(* compactions do, a player who works through a level meets its questions  *)
(* in the order in which they came to the level, each new one last.        *)
THEOREM Refinement == Spec => ImplementsLevelOrder
<1>1. BankInv /\ [Next]_vars => [Order!Next]_(Order!orderVars)
  <2> SUFFICES ASSUME BankInv, [Next]_vars
               PROVE  Order!Next \/ UNCHANGED Order!orderVars
    OBVIOUS
  <2>1. CASE BankNext
    BY <2>1, BankStepImplements
  <2>2. CASE UNCHANGED bankVars
    BY <2>2, InvisibleSteps DEF bankVars, Live
  <2> QED BY <2>1, <2>2 DEF Next, vars
<1> QED BY <1>1, InitImplements, Invariance, PTL DEF Spec, ImplementsLevelOrder, Order!Spec
=============================================================================
