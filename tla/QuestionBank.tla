---------------------------- MODULE QuestionBank -----------------------------
(***************************************************************************)
(* The questions of the game contract, the per-level index that decides    *)
(* which question a player is asked next, and the caps on that index.      *)
(* Bodies, answers and hints are abstracted: no operation below branches   *)
(* on them once they have passed the size checks.                          *)
(***************************************************************************)
EXTENDS GameAdmin

CONSTANTS
    LastLevel,              \* Levels::Master (4 in the code)
    MaxQuestionCount,       \* the largest QuestionCount (u64::MAX in the code)
    MaxQuestionsPerLevel,   \* MAX_QUESTIONS_PER_LEVEL (1 000 in the code)
    DefaultCap,             \* the cap when none is configured (5 in the code)
    CapInputs               \* caps an admin may pass to the cap setters

ASSUME BankAssumption ==
    /\ LastLevel \in Nat \ {0}
    /\ MaxQuestionCount \in Nat \ {0}
    /\ MaxQuestionsPerLevel \in Nat \ {0}
    /\ DefaultCap \in 1 .. MaxQuestionsPerLevel
    /\ CapInputs \subseteq Nat

Levels      == 1 .. LastLevel
QuestionIds == 1 .. MaxQuestionCount
Slots       == 0 .. MaxQuestionsPerLevel - 1
Absent      == 0    \* an entry that is not in storage (unwrap_or(0))

VARIABLES
    questionLevel,  \* level of each stored Question, Absent if there is none
    retired,        \* ids with a RetiredQuestion entry
    questionCount,  \* DataKey::QuestionCount
    slot,           \* slot[l][i]: DataKey::QuestionsByLevel(l, i)
    indexCount,     \* DataKey::QuestionPerLevelIndex(l)
    globalCap,      \* DataKey::QuestionPerLevel
    levelCap        \* DataKey::QuestionCapByLevel(l)

bankVars == <<questionLevel, retired, questionCount, slot, indexCount, globalCap, levelCap>>

BankTypeOK ==
    /\ questionLevel \in [QuestionIds -> Levels \cup {Absent}]
    /\ retired \subseteq QuestionIds
    /\ questionCount \in 0 .. MaxQuestionCount
    /\ slot \in [Levels -> [Slots -> QuestionIds \cup {Absent}]]
    /\ indexCount \in [Levels -> 0 .. MaxQuestionsPerLevel]
    /\ globalCap \in 0 .. MaxQuestionsPerLevel
    /\ levelCap \in [Levels -> 0 .. MaxQuestionsPerLevel]

(* Either nothing has been stored yet, or a deployment that predates the   *)
(* versioned records left one question behind, the first of the first      *)
(* level.                                                                  *)
StoredBefore == IF schemaVersion = LegacySchemaVersion THEN {1} ELSE {}

BankInit ==
    /\ questionLevel = [q \in QuestionIds |-> IF q \in StoredBefore THEN 1 ELSE Absent]
    /\ retired = {}
    /\ questionCount = IF schemaVersion = LegacySchemaVersion THEN 1 ELSE 0
    /\ slot = [l \in Levels |-> [i \in Slots |->
                  IF l = 1 /\ i = 0 /\ StoredBefore # {} THEN 1 ELSE Absent]]
    /\ indexCount = [l \in Levels |-> IF l = 1 /\ StoredBefore # {} THEN 1 ELSE 0]
    /\ globalCap = Absent
    /\ levelCap = [l \in Levels |-> Absent]

-----------------------------------------------------------------------------
(* The index helpers. *)

(* get_cap_for_level: the level's own cap, else the global one, else 5. *)
CapForLevel(l) ==
    CASE levelCap[l] # Absent -> levelCap[l]
      [] levelCap[l] = Absent /\ globalCap # Absent -> globalCap
      [] OTHER -> DefaultCap

HasRoom(l) == indexCount[l] < CapForLevel(l)

Indexed(l, q) == \E i \in Slots : i < indexCount[l] /\ slot[l][i] = q

FirstSlot(l, q) ==
    CHOOSE i \in Slots : /\ i < indexCount[l] /\ slot[l][i] = q
                         /\ \A j \in Slots : j < i => slot[l][j] # q

Appended(l, q) == [slot[l] EXCEPT ![indexCount[l]] = q]

(* Two slips in the compaction that the properties must notice: the last   *)
(* slot is left behind, or is moved into the gap.                          *)
CompactedWithoutClearing(l, q) ==
    [i \in Slots |-> IF FirstSlot(l, q) <= i /\ i < indexCount[l] - 1
                     THEN slot[l][i + 1] ELSE slot[l][i]]
CompactedBySwapping(l, q) ==
    LET last == indexCount[l] - 1
    IN  [i \in Slots |-> IF i = last THEN Absent
                         ELSE IF i = FirstSlot(l, q) THEN slot[l][last]
                         ELSE slot[l][i]]

(* Later entries shift down by one and the last occupied slot is removed. *)
Compacted(l, q) ==
    LET last == indexCount[l] - 1
    IN  [i \in Slots |-> IF i = last THEN Absent
                         ELSE IF FirstSlot(l, q) <= i /\ i < last THEN slot[l][i + 1]
                         ELSE slot[l][i]]

-----------------------------------------------------------------------------
(* Admin entry points. *)

(* add_question and add_question_with_hash differ only in where the hash   *)
(* of the answer comes from.                                               *)
AddQuestion(l) ==
    LET q == questionCount + 1
    IN  /\ RequireAdmin
        /\ questionCount < MaxQuestionCount
        /\ HasRoom(l)
        /\ questionCount' = q
        /\ questionLevel' = [questionLevel EXCEPT ![q] = l]
        /\ slot' = [slot EXCEPT ![l] = Appended(l, q)]
        /\ indexCount' = [indexCount EXCEPT ![l] = @ + 1]
        /\ UNCHANGED <<retired, globalCap, levelCap>>

(* update_question that keeps the level, or that rewrites the level of a   *)
(* retired question, which no index holds.                                 *)
UpdateInPlace(q, l) ==
    /\ RequireAdmin
    /\ questionLevel[q] # Absent
    /\ questionLevel[q] = l \/ q \in retired
    /\ questionLevel' = [questionLevel EXCEPT ![q] = l]
    /\ UNCHANGED <<retired, questionCount, slot, indexCount, globalCap, levelCap>>

(* update_question that moves a live question to another level. *)
MoveQuestion(q, l) ==
    LET old == questionLevel[q]
    IN  /\ RequireAdmin
        /\ old # Absent /\ old # l /\ q \notin retired
        /\ HasRoom(l)
        /\ Indexed(old, q)
        /\ questionLevel' = [questionLevel EXCEPT ![q] = l]
        /\ slot' = [slot EXCEPT ![l] = Appended(l, q), ![old] = Compacted(old, q)]
        /\ indexCount' = [indexCount EXCEPT ![l] = @ + 1, ![old] = @ - 1]
        /\ UNCHANGED <<retired, questionCount, globalCap, levelCap>>

(* retire_question: a question that is not in its level's index (already   *)
(* retired) is flagged again and nothing else happens.                     *)
RetireQuestion(q) ==
    LET l == questionLevel[q]
    IN  /\ RequireAdmin
        /\ l # Absent
        /\ retired' = retired \cup {q}
        /\ IF Indexed(l, q)
           THEN /\ slot' = [slot EXCEPT ![l] = Compacted(l, q)]
                /\ indexCount' = [indexCount EXCEPT ![l] = @ - 1]
           ELSE UNCHANGED <<slot, indexCount>>
        /\ UNCHANGED <<questionLevel, questionCount, globalCap, levelCap>>

(* Slips in the cap setters: no upper bound, no look at the index. *)
SetQuestionPerLevelUnbounded(amount) ==
    /\ RequireAdmin
    /\ globalCap' = amount
    /\ UNCHANGED <<questionLevel, retired, questionCount, slot, indexCount, levelCap>>
SetQuestionCapBelowIndex(l, cap) ==
    /\ RequireAdmin
    /\ cap \in 1 .. MaxQuestionsPerLevel
    /\ levelCap' = [levelCap EXCEPT ![l] = cap]
    /\ UNCHANGED <<questionLevel, retired, questionCount, slot, indexCount, globalCap>>

SetQuestionPerLevel(amount) ==
    /\ RequireAdmin
    /\ amount \in 1 .. MaxQuestionsPerLevel
    /\ globalCap' = amount
    /\ UNCHANGED <<questionLevel, retired, questionCount, slot, indexCount, levelCap>>

SetQuestionCapForLevel(l, cap) ==
    /\ RequireAdmin
    /\ cap \in 1 .. MaxQuestionsPerLevel
    /\ cap >= indexCount[l]
    /\ levelCap' = [levelCap EXCEPT ![l] = cap]
    /\ UNCHANGED <<questionLevel, retired, questionCount, slot, indexCount, globalCap>>

BankNext ==
    \/ \E l \in Levels : AddQuestion(l)
    \/ \E q \in QuestionIds, l \in Levels : UpdateInPlace(q, l) \/ MoveQuestion(q, l)
    \/ \E q \in QuestionIds : RetireQuestion(q)
    \/ \E n \in CapInputs : SetQuestionPerLevel(n)
    \/ \E l \in Levels, n \in CapInputs : SetQuestionCapForLevel(l, n)

vars == <<adminVars, bankVars>>

Init == AdminInit /\ BankInit

Next ==
    \/ AdminNext /\ UNCHANGED bankVars
    \/ BankNext /\ UNCHANGED adminVars

Spec == Init /\ [][Next]_vars

-----------------------------------------------------------------------------
(* Properties. *)

(* Every stored value has the type its storage key gives it. *)
TypeOK == AdminTypeOK /\ BankTypeOK

Live(l) == {q \in QuestionIds : questionLevel[q] = l /\ q \notin retired}

(* Points 1 to 4 of the index invariant stated above index_count in the    *)
(* contract: through every interleaving of additions, moves, rewrites and  *)
(* retirements the first N slots of a level hold its live questions, each  *)
(* exactly once, and the slots from N on are empty.                        *)
SlotsAreLive ==
    \A l \in Levels, i \in Slots : i < indexCount[l] => slot[l][i] \in Live(l)
LiveIsIndexed ==
    \A l \in Levels : \A q \in Live(l) : Indexed(l, q)
IndexedOnce ==
    \A l \in Levels, i, j \in Slots :
        /\ i < indexCount[l] /\ j < indexCount[l] /\ slot[l][i] = slot[l][j]
        => i = j
TailIsClear ==
    \A l \in Levels, i \in Slots : i >= indexCount[l] => slot[l][i] = Absent

IndexInvariant == SlotsAreLive /\ LiveIsIndexed /\ IndexedOnce /\ TailIsClear

(* A level with a cap of its own never holds more questions than that cap, *)
(* although the cap is checked by three different entry points at          *)
(* different times.  (The global cap has no such guarantee:                *)
(* set_question_per_level does not look at the index.)                     *)
LevelCapCoversIndex ==
    \A l \in Levels : levelCap[l] # Absent => indexCount[l] <= levelCap[l]

(* Ids are handed out in order and a question is stored under an id        *)
(* exactly when the id has been handed out.                                *)
IdsAreFresh ==
    \A q \in QuestionIds : questionLevel[q] # Absent <=> q <= questionCount

(* p is asked before q in the level that holds both. *)
AskedBefore ==
    {e \in QuestionIds \X QuestionIds :
        \E l \in Levels, i, j \in Slots :
            i < j /\ j < indexCount[l] /\ e = <<slot[l][i], slot[l][j]>>}

Order == INSTANCE LevelOrder WITH
    live <- [l \in Levels |-> Live(l)],
    before <- AskedBefore,
    withdrawn <- retired

(* The bank implements LevelOrder: slots, counters and compaction never    *)
(* reorder the questions that stay, and a retired question never returns   *)
(* to an index.                                                            *)
ImplementsLevelOrder == Order!Spec
=============================================================================
