---------------------------- MODULE OutboxProofs -----------------------------
(***************************************************************************)
(* Proofs about Outbox, for every number of instances, events, attempts    *)
(* and faults.                                                             *)
(***************************************************************************)
EXTENDS Outbox, FiniteSetTheorems, TLAPS

(* An event that is not parked has attempts left, and so has every event   *)
(* of a batch according to the copy that was read with it.                 *)
AttemptsLeft ==
    /\ \A e \in Events : status[e] # "DEAD_LETTER" => attempts[e] < MaxAttempts
    /\ \A w \in Workers : \A e \in batch[w] : copy[w][e] < MaxAttempts

(* The attempts in the table and in the copies count real failures; one    *)
(* more has happened to the event whose failure is about to be recorded.   *)
CopiesAreReal ==
    \A w \in Workers : \A e \in batch[w] :
        /\ copy[w][e] <= failures[e]
        /\ pc[w] = "fail" /\ IsCurrent(w, e) => copy[w][e] + 1 <= failures[e]

OutboxInv == OutboxTypeOK /\ AttemptsLeft /\ CopiesAreReal /\ AttemptsAreReal /\ ClaimIsExclusive

(* Events are naturals, and a batch has one current event. *)
LEMMA EventsAreNat == Events \subseteq Nat /\ MaxAttempts \in Nat \ {0} /\ MaxFaults \in Nat
BY OutboxAssumption DEF Events

LEMMA OneCurrent ==
    ASSUME OutboxTypeOK, NEW w \in Workers, NEW d \in Events, NEW e \in Events,
           IsCurrent(w, d), IsCurrent(w, e)
    PROVE  d = e
BY EventsAreNat DEF IsCurrent

(* What an instance holds it is alone in holding, so nobody can claim it. *)
LEMMA ClaimableIsFree ==
    ASSUME ClaimIsExclusive, NEW e \in Events, status[e] \in Claimable \/ status[e] = "none",
           NEW w \in Workers
    PROVE  ~Holds(w, e)
BY DEF ClaimIsExclusive, Claimable

(* A drain that goes on or ends holds nothing. *)
LEMMA AdvanceReleases ==
    ASSUME OutboxTypeOK, NEW w \in Workers, NEW e \in Events, Advance(w, e)
    PROVE  /\ pc' \in [Workers -> {"idle", "claim", "handle", "mark", "fail"}]
           /\ batch' \in [Workers -> SUBSET Events]
           /\ copy' = copy
           /\ \A v \in Workers : v # w => pc'[v] = pc[v] /\ batch'[v] = batch[v]
           /\ pc'[w] \in {"idle", "claim"} /\ batch'[w] \subseteq batch[w]
BY DEF Advance, OutboxTypeOK

LEMMA AbandonReleases ==
    ASSUME OutboxTypeOK, NEW w \in Workers, Abandon(w)
    PROVE  /\ pc' \in [Workers -> {"idle", "claim", "handle", "mark", "fail"}]
           /\ batch' \in [Workers -> SUBSET Events]
           /\ copy' = copy
           /\ \A v \in Workers : v # w => pc'[v] = pc[v] /\ batch'[v] = batch[v]
           /\ pc'[w] \in {"idle", "claim"} /\ batch'[w] \subseteq batch[w]
BY DEF Abandon, OutboxTypeOK

(* Letting go of an event, or of nothing, leaves what the others hold.     *)
LEMMA ReleaseKeepsClaims ==
    ASSUME OutboxInv, NEW w \in Workers, NEW e \in Events, NEW s,
           status' = status \/ (Holds(w, e) /\ status' = [status EXCEPT ![e] = s]),
           \A v \in Workers : v # w => pc'[v] = pc[v] /\ batch'[v] = batch[v],
           pc'[w] \in {"idle", "claim"}
    PROVE  ClaimIsExclusive'
<1> SUFFICES ASSUME NEW v \in Workers, NEW d \in Events, Holds(v, d)'
             PROVE  /\ (status[d] = "PROCESSING" \/ (status[d] = "PROCESSED" /\ pc[v] = "fail"))'
                    /\ \A u \in Workers : Holds(u, d)' => u = v
  BY DEF ClaimIsExclusive
<1>1. \A u \in Workers : Holds(u, d)' => u # w /\ Holds(u, d)
  BY DEF Holds, IsCurrent
<1>2. v # w /\ Holds(v, d)
  BY <1>1
<1>3. /\ status[d] = "PROCESSING" \/ (status[d] = "PROCESSED" /\ pc[v] = "fail")
      /\ \A u \in Workers : Holds(u, d) => u = v
  BY <1>2 DEF ClaimIsExclusive, OutboxInv
<1>4. status'[d] = status[d]
  BY <1>2, <1>3 DEF OutboxInv, OutboxTypeOK
<1> QED BY <1>1, <1>2, <1>3, <1>4

(* The same for the attempts: with the batch of an instance that lets go   *)
(* getting smaller, and the table and the failures left alone.             *)
LEMMA ReleaseKeepsAttempts ==
    ASSUME OutboxInv, NEW w \in Workers,
           \A v \in Workers : v # w => pc'[v] = pc[v] /\ batch'[v] = batch[v],
           pc'[w] \in {"idle", "claim"}, batch'[w] \subseteq batch[w],
           UNCHANGED <<copy, failures>>
    PROVE  /\ CopiesAreReal'
           /\ \A v \in Workers : \A d \in batch'[v] : copy'[v][d] < MaxAttempts
<1>1. \A v \in Workers : batch'[v] \subseteq batch[v]
  OBVIOUS
<1>2. \A v \in Workers : \A d \in batch'[v] : copy'[v][d] < MaxAttempts
  BY <1>1 DEF OutboxInv, AttemptsLeft
<1>3. CopiesAreReal'
  BY <1>1 DEF OutboxInv, CopiesAreReal, IsCurrent
<1> QED BY <1>2, <1>3

LEMMA ForgetType ==
    ASSUME OutboxTypeOK, NEW w \in Workers, Forget(w)
    PROVE  handled' \in [Workers -> SUBSET Events]
BY DEF Forget, OutboxTypeOK

-----------------------------------------------------------------------------

(* Nothing exists at first. *)
LEMMA OutboxInitCorrect == Init => OutboxInv
<1> SUFFICES ASSUME Init PROVE OutboxInv
  OBVIOUS
<1> USE EventsAreNat DEF Init
<1>1. OutboxTypeOK
  BY DEF OutboxTypeOK, Statuses
<1>2. AttemptsLeft /\ CopiesAreReal /\ AttemptsAreReal
  BY DEF AttemptsLeft, CopiesAreReal, AttemptsAreReal
<1>3. ClaimIsExclusive
  BY DEF ClaimIsExclusive, Holds
<1> QED BY <1>1, <1>2, <1>3 DEF OutboxInv

(* Events appear and become due without anybody holding them. *)
LEMMA EventStepCorrect ==
    ASSUME OutboxInv, NEW e \in Events, CreateEvent(e) \/ BackoffElapses(e)
    PROVE  OutboxInv'
<1> USE DEF OutboxInv
<1>1. /\ UNCHANGED <<attempts, pc, batch, copy, faults, failures, handled>>
      /\ \A d \in Events : status'[d] = status[d] \/ (status[d] = "none" /\ status'[d] = "PENDING")
  BY DEF CreateEvent, BackoffElapses, workerVars, historyVars, OutboxTypeOK
<1>2. OutboxTypeOK'
  BY <1>1 DEF CreateEvent, BackoffElapses, OutboxTypeOK, Statuses, Claimable
<1>3. AttemptsLeft' /\ CopiesAreReal' /\ AttemptsAreReal'
  BY <1>1 DEF AttemptsLeft, CopiesAreReal, AttemptsAreReal, IsCurrent
<1>4. ClaimIsExclusive'
  BY <1>1 DEF ClaimIsExclusive, Holds, IsCurrent
<1> QED BY <1>2, <1>3, <1>4

(* A drain reads events that have attempts left, and the attempts they     *)
(* really had.                                                             *)
LEMMA StartDrainCorrect ==
    ASSUME OutboxInv, NEW w \in Workers, StartDrain(w)
    PROVE  OutboxInv'
<1> USE DEF OutboxInv
<1>1. /\ UNCHANGED <<status, attempts, due, faults, failures, handled>>
      /\ pc' = [pc EXCEPT ![w] = "claim"]
      /\ batch' = [batch EXCEPT ![w] = Oldest(PendingEvents)]
      /\ copy' = [copy EXCEPT ![w] = attempts]
  BY DEF StartDrain, tableVars, historyVars
<1>2. Oldest(PendingEvents) \subseteq {e \in Events : status[e] \in Claimable}
  BY DEF Oldest, PendingEvents, Claimable
<1>3. OutboxTypeOK'
  BY <1>1, <1>2 DEF OutboxTypeOK
<1>4. AttemptsLeft'
  BY <1>1, <1>2 DEF AttemptsLeft, OutboxTypeOK, Claimable
<1>5. CopiesAreReal' /\ AttemptsAreReal'
  BY <1>1, <1>2 DEF CopiesAreReal, AttemptsAreReal, OutboxTypeOK, IsCurrent
<1>6. ClaimIsExclusive'
  BY <1>1 DEF ClaimIsExclusive, Holds, IsCurrent, OutboxTypeOK
<1> QED BY <1>3, <1>4, <1>5, <1>6

-----------------------------------------------------------------------------

(* A claim makes an instance the holder of an event nobody held.           *)
LEMMA ClaimCorrect ==
    ASSUME OutboxInv, NEW w \in Workers, NEW e \in Events, Claim(w, e)
    PROVE  OutboxInv'
<1> USE EventsAreNat DEF OutboxInv
<1>1. /\ pc[w] = "claim" /\ IsCurrent(w, e) /\ status[e] \in Claimable
      /\ status' = [status EXCEPT ![e] = "PROCESSING"]
      /\ pc' = [pc EXCEPT ![w] = IF e \in Handled THEN "handle" ELSE "fail"]
      /\ failures' = IF e \in Handled THEN failures ELSE [failures EXCEPT ![e] = @ + 1]
      /\ handled' = [handled EXCEPT ![w] = IF e \in Handled THEN @ \cup {e} ELSE @]
      /\ UNCHANGED <<attempts, due, batch, copy, faults>>
  BY DEF Claim
<1>2. /\ failures' \in [Events -> Nat]
      /\ \A d \in Events : failures[d] <= failures'[d]
      /\ e \notin Handled => failures'[e] = failures[e] + 1
  BY <1>1 DEF OutboxTypeOK
<1>3. OutboxTypeOK'
  BY <1>1, <1>2 DEF OutboxTypeOK, Statuses
<1>4. AttemptsLeft'
  BY <1>1 DEF AttemptsLeft, OutboxTypeOK, Claimable
<1>5. CopiesAreReal'
  <2> SUFFICES ASSUME NEW v \in Workers, NEW d \in batch[v]
               PROVE  /\ copy[v][d] <= failures'[d]
                      /\ pc'[v] = "fail" /\ IsCurrent(v, d) => copy[v][d] + 1 <= failures'[d]
    BY <1>1 DEF CopiesAreReal, IsCurrent
  <2>1. d \in Events /\ copy[v][d] \in Nat /\ failures[d] \in Nat /\ failures'[d] \in Nat
    BY <1>2 DEF OutboxTypeOK
  <2>2. copy[v][d] <= failures'[d]
    BY <1>2, <2>1 DEF CopiesAreReal
  <2>3. CASE v # w
    BY <1>1, <1>2, <2>1, <2>2, <2>3 DEF CopiesAreReal
  <2>4. ASSUME v = w, pc'[v] = "fail", IsCurrent(v, d) PROVE copy[v][d] + 1 <= failures'[d]
    <3>1. d = e /\ e \notin Handled
      BY <1>1, <2>1, <2>4, OneCurrent DEF OutboxTypeOK
    <3> QED BY <1>2, <2>1, <3>1 DEF CopiesAreReal
  <2> QED BY <2>2, <2>3, <2>4
<1>6. AttemptsAreReal'
  BY <1>1, <1>2 DEF AttemptsAreReal, OutboxTypeOK
<1>7. ClaimIsExclusive'
  <2>1. \A v \in Workers : ~Holds(v, e)
    BY <1>1, ClaimableIsFree
  <2>2. \A v \in Workers, d \in Events : Holds(v, d)' => Holds(v, d) \/ (v = w /\ d = e)
    BY <1>1, OneCurrent DEF Holds, IsCurrent, OutboxTypeOK
  <2>3. \A v \in Workers, d \in Events : Holds(v, d) => v # w /\ d # e
    BY <1>1, <2>1 DEF Holds
  <2> QED BY <1>1, <2>2, <2>3 DEF ClaimIsExclusive, OutboxTypeOK
<1> QED BY <1>3, <1>4, <1>5, <1>6, <1>7

(* What somebody else took is left to them.                                *)
LEMMA SkipCorrect ==
    ASSUME OutboxInv, NEW w \in Workers, NEW e \in Events, SkipClaimed(w, e)
    PROVE  OutboxInv'
<1> USE DEF OutboxInv
<1>1. Advance(w, e) /\ Forget(w) /\ UNCHANGED <<status, attempts, due, faults, failures>>
  BY DEF SkipClaimed, tableVars
<1>2. /\ pc' \in [Workers -> {"idle", "claim", "handle", "mark", "fail"}]
      /\ batch' \in [Workers -> SUBSET Events]
      /\ copy' = copy
      /\ \A v \in Workers : v # w => pc'[v] = pc[v] /\ batch'[v] = batch[v]
      /\ pc'[w] \in {"idle", "claim"} /\ batch'[w] \subseteq batch[w]
  BY <1>1, AdvanceReleases
<1>3. OutboxTypeOK'
  BY <1>1, <1>2, ForgetType DEF OutboxTypeOK
<1>4. AttemptsLeft' /\ CopiesAreReal'
  BY <1>1, <1>2, ReleaseKeepsAttempts DEF AttemptsLeft
<1>5. AttemptsAreReal'
  BY <1>1 DEF AttemptsAreReal
<1>6. ClaimIsExclusive'
  BY <1>1, <1>2, ReleaseKeepsClaims
<1> QED BY <1>3, <1>4, <1>5, <1>6

(* A drain that ends early lets go without recording anything; an update   *)
(* of claimEvent that was applied all the same leaves the event claimed,   *)
(* and nobody holds it.                                                    *)
LEMMA AbandonCorrect ==
    ASSUME OutboxInv, NEW w \in Workers,
           Dies(w) \/ (\E e \in Events : ClaimErrs(w, e))
    PROVE  OutboxInv'
<1> USE EventsAreNat DEF OutboxInv
<1>1. /\ Fault /\ Abandon(w) /\ Forget(w) /\ UNCHANGED <<attempts, due, failures>>
      /\ \/ status' = status
         \/ \E e \in Events : status[e] \in Claimable /\ status' = [status EXCEPT ![e] = "PROCESSING"]
  BY DEF Dies, ClaimErrs, tableVars
<1>2. /\ pc' \in [Workers -> {"idle", "claim", "handle", "mark", "fail"}]
      /\ batch' \in [Workers -> SUBSET Events]
      /\ copy' = copy
      /\ \A v \in Workers : v # w => pc'[v] = pc[v] /\ batch'[v] = batch[v]
      /\ pc'[w] \in {"idle", "claim"} /\ batch'[w] \subseteq batch[w]
  BY <1>1, AbandonReleases
<1>3. faults' \in 0 .. MaxFaults
  BY <1>1 DEF Fault, OutboxTypeOK
<1>4. status' \in [Events -> Statuses]
  BY <1>1 DEF OutboxTypeOK, Statuses
<1>5. OutboxTypeOK'
  BY <1>1, <1>2, <1>3, <1>4, ForgetType DEF OutboxTypeOK
<1>6. \A e \in Events : status'[e] # status[e] => status[e] \in Claimable /\ status'[e] = "PROCESSING"
  BY <1>1 DEF OutboxTypeOK
<1>7. AttemptsLeft' /\ CopiesAreReal'
  BY <1>1, <1>2, <1>6, ReleaseKeepsAttempts DEF AttemptsLeft, Claimable
<1>8. AttemptsAreReal'
  BY <1>1, <1>6 DEF AttemptsAreReal
<1>9. ClaimIsExclusive'
  <2>1. \A v \in Workers, d \in Events : Holds(v, d)' => v # w /\ Holds(v, d)
    BY <1>2 DEF Holds, IsCurrent
  <2>2. \A v \in Workers, d \in Events : Holds(v, d) => status[d] \notin Claimable
    BY DEF ClaimIsExclusive, Claimable
  <2>3. \A v \in Workers, d \in Events : Holds(v, d)' => status'[d] = status[d] /\ pc'[v] = pc[v]
    BY <1>2, <1>6, <2>1, <2>2
  <2> QED BY <2>1, <2>3 DEF ClaimIsExclusive
<1> QED BY <1>5, <1>7, <1>8, <1>9

(* A handler that succeeds only moves its instance on. *)
LEMMA HandlerSucceedsCorrect ==
    ASSUME OutboxInv, NEW w \in Workers, NEW e \in Events, HandlerSucceeds(w, e)
    PROVE  OutboxInv'
<1> USE DEF OutboxInv
<1>1. /\ pc[w] = "handle" /\ pc' = [pc EXCEPT ![w] = "mark"]
      /\ UNCHANGED <<status, attempts, due, batch, copy, faults, failures, handled>>
  BY DEF HandlerSucceeds, tableVars, historyVars
<1>2. OutboxTypeOK' /\ AttemptsLeft' /\ AttemptsAreReal'
  BY <1>1 DEF OutboxTypeOK, AttemptsLeft, AttemptsAreReal
<1>3. CopiesAreReal'
  BY <1>1 DEF CopiesAreReal, IsCurrent, OutboxTypeOK
<1>4. ClaimIsExclusive'
  BY <1>1 DEF ClaimIsExclusive, Holds, IsCurrent, OutboxTypeOK
<1> QED BY <1>2, <1>3, <1>4

(* A failure, of the handler or of markAsProcessed, is counted before it   *)
(* is recorded; the event may have been marked processed.                  *)
LEMMA FailureCorrect ==
    ASSUME OutboxInv, NEW w \in Workers, NEW e \in Events,
           HandlerFails(w, e) \/ MarkErrs(w, e)
    PROVE  OutboxInv'
<1> USE EventsAreNat DEF OutboxInv
<1>1. /\ pc[w] \in {"handle", "mark"} /\ IsCurrent(w, e)
      /\ pc' = [pc EXCEPT ![w] = "fail"]
      /\ failures' = [failures EXCEPT ![e] = @ + 1]
      /\ status' = status \/ status' = [status EXCEPT ![e] = "PROCESSED"]
      /\ faults' = faults \/ Fault
      /\ UNCHANGED <<attempts, due, batch, copy, handled>>
  BY DEF HandlerFails, MarkErrs, tableVars
<1>2. /\ failures' \in [Events -> Nat]
      /\ \A d \in Events : failures[d] <= failures'[d]
      /\ failures'[e] = failures[e] + 1
  BY <1>1 DEF OutboxTypeOK
<1>3. status' \in [Events -> Statuses] /\ faults' \in 0 .. MaxFaults
  BY <1>1 DEF OutboxTypeOK, Statuses, Terminal, Fault
<1>4. OutboxTypeOK'
  BY <1>1, <1>2, <1>3 DEF OutboxTypeOK
<1>5. Holds(w, e) /\ status[e] \in {"PROCESSING", "PROCESSED"}
  BY <1>1 DEF Holds, ClaimIsExclusive
<1>6. AttemptsLeft'
  BY <1>1, <1>5 DEF AttemptsLeft, OutboxTypeOK
<1>7. CopiesAreReal'
  <2> SUFFICES ASSUME NEW v \in Workers, NEW d \in batch[v]
               PROVE  /\ copy[v][d] <= failures'[d]
                      /\ pc'[v] = "fail" /\ IsCurrent(v, d) => copy[v][d] + 1 <= failures'[d]
    BY <1>1 DEF CopiesAreReal, IsCurrent
  <2>1. d \in Events /\ copy[v][d] \in Nat /\ failures[d] \in Nat /\ failures'[d] \in Nat
    BY <1>2 DEF OutboxTypeOK
  <2>2. copy[v][d] <= failures[d]
    BY DEF CopiesAreReal
  <2>3. CASE v # w
    BY <1>1, <1>2, <2>1, <2>2, <2>3 DEF CopiesAreReal
  <2>4. ASSUME v = w, IsCurrent(v, d) PROVE d = e
    BY <1>1, <2>1, <2>4, OneCurrent
  <2> QED BY <1>2, <2>1, <2>2, <2>3, <2>4
<1>8. AttemptsAreReal'
  BY <1>1, <1>2 DEF AttemptsAreReal, OutboxTypeOK
<1>9. ClaimIsExclusive'
  <2>1. \A v \in Workers, d \in Events : Holds(v, d)' => Holds(v, d)
    BY <1>1 DEF Holds, IsCurrent, OutboxTypeOK
  <2>2. \A v \in Workers : Holds(v, e) => v = w
    BY <1>5 DEF ClaimIsExclusive
  <2>3. status[e] = "PROCESSING" \/ pc'[w] = "fail"
    BY <1>1 DEF OutboxTypeOK
  <2> SUFFICES ASSUME NEW v \in Workers, NEW d \in Events, Holds(v, d)'
               PROVE  /\ (status[d] = "PROCESSING" \/ (status[d] = "PROCESSED" /\ pc[v] = "fail"))'
                      /\ \A u \in Workers : Holds(u, d)' => u = v
    BY DEF ClaimIsExclusive
  <2>4. CASE d = e
    BY <1>1, <1>5, <2>1, <2>2, <2>4 DEF OutboxTypeOK
  <2>5. CASE d # e
    <3>1. status'[d] = status[d] /\ (pc[v] = "fail" => pc'[v] = "fail")
      BY <1>1, <2>5 DEF OutboxTypeOK
    <3> QED BY <2>1, <3>1 DEF ClaimIsExclusive
  <2> QED BY <2>4, <2>5
<1> QED BY <1>4, <1>6, <1>7, <1>8, <1>9

(* What is recorded about an event is recorded by its holder, from a copy  *)
(* that had attempts left and counted real failures only.                  *)
LEMMA OutcomeCorrect ==
    ASSUME OutboxInv, NEW w \in Workers, NEW e \in Events,
           MarkAsProcessed(w, e) \/ HandleFailure(w, e)
    PROVE  OutboxInv'
<1> USE EventsAreNat DEF OutboxInv
<1> DEFINE n == copy[w][e] + 1
<1>1. /\ pc[w] \in {"mark", "fail"} /\ IsCurrent(w, e)
      /\ Advance(w, e) /\ Forget(w) /\ UNCHANGED <<faults, failures>>
  BY DEF MarkAsProcessed, HandleFailure
<1>2. /\ pc' \in [Workers -> {"idle", "claim", "handle", "mark", "fail"}]
      /\ batch' \in [Workers -> SUBSET Events]
      /\ copy' = copy
      /\ \A v \in Workers : v # w => pc'[v] = pc[v] /\ batch'[v] = batch[v]
      /\ pc'[w] \in {"idle", "claim"} /\ batch'[w] \subseteq batch[w]
  BY <1>1, AdvanceReleases
<1>3. Holds(w, e)
  BY <1>1 DEF Holds
<1>4. \/ /\ status' = [status EXCEPT ![e] = "PROCESSED"]
         /\ UNCHANGED <<attempts, due>>
      \/ /\ attempts' = [attempts EXCEPT ![e] = n]
         /\ status' = [status EXCEPT ![e] = IF n >= MaxAttempts THEN "DEAD_LETTER" ELSE "FAILED"]
         /\ due' = [due EXCEPT ![e] = n >= MaxAttempts]
         /\ n <= failures[e]
  BY <1>1 DEF MarkAsProcessed, HandleFailure, IsCurrent, CopiesAreReal
<1>5. n \in 1 .. MaxAttempts
  BY <1>1 DEF IsCurrent, AttemptsLeft, OutboxTypeOK
<1>6. OutboxTypeOK'
  <2> HIDE DEF n
  <2>1. status' \in [Events -> Statuses]
    BY <1>4 DEF OutboxTypeOK, Statuses, Terminal, Claimable
  <2>2. attempts' \in [Events -> 0 .. MaxAttempts] /\ due' \in [Events -> BOOLEAN]
    <3>1. n \in 0 .. MaxAttempts
      BY <1>5
    <3>2. (n >= MaxAttempts) \in BOOLEAN
      OBVIOUS
    <3>3. attempts' \in [Events -> 0 .. MaxAttempts]
      BY <1>4, <3>1 DEF OutboxTypeOK
    <3>4. due' \in [Events -> BOOLEAN]
      BY <1>4, <3>2, Zenon DEF OutboxTypeOK
    <3> QED BY <3>3, <3>4
  <2>3. handled' \in [Workers -> SUBSET Events]
    BY <1>1, ForgetType
  <2> QED BY <1>1, <1>2, <2>1, <2>2, <2>3 DEF OutboxTypeOK
<1>7. \E s : status' = [status EXCEPT ![e] = s]
  BY <1>4
<1>8. ClaimIsExclusive'
  BY <1>2, <1>3, <1>7, ReleaseKeepsClaims
<1>9. CopiesAreReal' /\ \A v \in Workers : \A d \in batch'[v] : copy'[v][d] < MaxAttempts
  BY <1>1, <1>2, ReleaseKeepsAttempts
<1>10. status[e] # "DEAD_LETTER"
  BY <1>3 DEF ClaimIsExclusive
<1>11. AttemptsLeft'
  <2> HIDE DEF n
  <2>1. \A d \in Events : status'[d] # "DEAD_LETTER" => attempts'[d] < MaxAttempts
    BY <1>4, <1>5, <1>10 DEF AttemptsLeft, OutboxTypeOK
  <2> QED BY <1>9, <2>1 DEF AttemptsLeft
<1>12. AttemptsAreReal'
  <2> HIDE DEF n
  <2> QED BY <1>1, <1>4, <1>5 DEF AttemptsAreReal, OutboxTypeOK
<1> QED BY <1>6, <1>8, <1>9, <1>11, <1>12

-----------------------------------------------------------------------------

(* Every step preserves the invariant.                                     *)
LEMMA OutboxStepCorrect == OutboxInv /\ [Next]_vars => OutboxInv'
<1> SUFFICES ASSUME OutboxInv, [Next]_vars PROVE OutboxInv'
  OBVIOUS
<1>1. ASSUME NEW e \in Events, CreateEvent(e) \/ BackoffElapses(e) PROVE OutboxInv'
  BY <1>1, EventStepCorrect
<1>2. ASSUME NEW w \in Workers, StartDrain(w) PROVE OutboxInv'
  BY <1>2, StartDrainCorrect
<1>3. ASSUME NEW w \in Workers, Proceed(w) PROVE OutboxInv'
  <2> PICK e \in Events :
         \/ Claim(w, e) \/ SkipClaimed(w, e)
         \/ Finish(w, e)
         \/ MarkAsProcessed(w, e) \/ HandleFailure(w, e)
    BY <1>3 DEF Proceed
  <2>1. CASE Claim(w, e)
    BY <2>1, ClaimCorrect
  <2>2. CASE SkipClaimed(w, e)
    BY <2>2, SkipCorrect
  <2>3. CASE HandlerSucceeds(w, e)
    BY <2>3, HandlerSucceedsCorrect
  <2>4. CASE HandlerFails(w, e)
    BY <2>4, FailureCorrect
  <2>5. CASE MarkAsProcessed(w, e) \/ HandleFailure(w, e)
    BY <2>5, OutcomeCorrect
  <2> QED BY <2>1, <2>2, <2>3, <2>4, <2>5 DEF Finish
<1>4. ASSUME NEW w \in Workers, NEW e \in Events, MarkErrs(w, e) PROVE OutboxInv'
  BY <1>4, FailureCorrect
<1>5. ASSUME NEW w \in Workers, Dies(w) \/ (\E e \in Events : ClaimErrs(w, e)) PROVE OutboxInv'
  BY <1>5, AbandonCorrect
<1>6. CASE UNCHANGED vars
  BY <1>6 DEF vars, tableVars, workerVars, historyVars, OutboxInv, OutboxTypeOK, AttemptsLeft,
              CopiesAreReal, AttemptsAreReal, ClaimIsExclusive, Holds, IsCurrent
<1> QED BY <1>1, <1>2, <1>3, <1>4, <1>5, <1>6 DEF Next

(* The invariant of the outbox, from which the theorems below follow.      *)
THEOREM OutboxInvariance == Spec => []OutboxInv
BY OutboxInitCorrect, OutboxStepCorrect, PTL DEF Spec

(* Every column and every copy keeps its type, and the attempts of an      *)
(* event never exceed the budget of handleFailure.                         *)
THEOREM OutboxTypeCorrect == Spec => []OutboxTypeOK
<1>1. OutboxInv => OutboxTypeOK
  BY DEF OutboxInv
<1> QED BY <1>1, OutboxInvariance, PTL

(* The conditional update of claimEvent excludes: an event is handled by   *)
(* one instance at a time, whatever stale batches the others hold.         *)
THEOREM ClaimExclusion == Spec => []ClaimIsExclusive
<1>1. OutboxInv => ClaimIsExclusive
  BY DEF OutboxInv
<1> QED BY <1>1, OutboxInvariance, PTL

(* handleFailure never parks an event before its attempts really failed,   *)
(* although it computes them from a copy that may be stale.                *)
THEOREM AttemptsCorrect == Spec => []AttemptsAreReal
<1>1. OutboxInv => AttemptsAreReal
  BY DEF OutboxInv
<1> QED BY <1>1, OutboxInvariance, PTL

(* Saving whole copies never revives a processed or parked event, except   *)
(* by the instance whose own markAsProcessed reported an error.            *)
THEOREM SettledCorrect == Spec => SettledStaysSettled
<1> DEFINE Kept ==
       \A e \in Events :
          status[e] \in Terminal /\ status'[e] # status[e] =>
             status[e] = "PROCESSED" /\ \E w \in Workers : pc[w] = "fail" /\ IsCurrent(w, e)
<1>1. ASSUME OutboxInv, Next PROVE Kept
  <2> SUFFICES ASSUME NEW e \in Events, status[e] \in Terminal, status'[e] # status[e]
               PROVE  status[e] = "PROCESSED" /\ \E w \in Workers : pc[w] = "fail" /\ IsCurrent(w, e)
    OBVIOUS
  <2>1. status \in [Events -> Statuses]
    BY <1>1 DEF OutboxInv, OutboxTypeOK
  <2>2. \E w \in Workers, d \in Events : MarkAsProcessed(w, d) \/ MarkErrs(w, d) \/ HandleFailure(w, d)
    BY <1>1, <2>1 DEF Next, Proceed, Finish, CreateEvent, BackoffElapses, StartDrain, Claim,
                      SkipClaimed, HandlerSucceeds, HandlerFails, ClaimErrs, Dies, tableVars,
                      Terminal, Claimable
  <2>3. PICK w \in Workers, d \in Events :
           MarkAsProcessed(w, d) \/ MarkErrs(w, d) \/ HandleFailure(w, d)
    BY <2>2
  <2>4. d = e
    BY <2>1, <2>3 DEF MarkAsProcessed, MarkErrs, HandleFailure
  <2>5. pc[w] \in {"mark", "fail"} /\ IsCurrent(w, e)
    BY <2>3, <2>4 DEF MarkAsProcessed, MarkErrs, HandleFailure
  <2>6. status[e] = "PROCESSING" \/ (status[e] = "PROCESSED" /\ pc[w] = "fail")
    BY <1>1, <2>5 DEF OutboxInv, ClaimIsExclusive, Holds
  <2> QED BY <2>5, <2>6 DEF Terminal
<1>2. OutboxInv /\ [Next]_vars => [Kept]_vars
  BY <1>1
<1> QED BY <1>2, OutboxInvariance, PTL DEF Spec, SettledStaysSettled

-----------------------------------------------------------------------------
(* What faults strand. *)

Lost == {e \in Events : Stranded(e)}

(* A step without a fault strands nothing. *)
LEMMA EventStepStrandsNothing ==
    ASSUME OutboxInv, NEW e \in Events, CreateEvent(e) \/ BackoffElapses(e),
           NEW d \in Events, Stranded(d)'
    PROVE  Stranded(d)
<1>1. UNCHANGED <<pc, batch>>
  BY DEF CreateEvent, BackoffElapses, workerVars
<1>2. status'[d] = "PROCESSING" => status[d] = "PROCESSING"
  BY DEF CreateEvent, BackoffElapses, OutboxInv, OutboxTypeOK
<1> QED BY <1>1, <1>2 DEF Stranded, Holds, IsCurrent

LEMMA DrainStrandsNothing ==
    ASSUME OutboxInv, NEW w \in Workers, NEW d \in Events, Stranded(d)',
           StartDrain(w) \/ Proceed(w)
    PROVE  Stranded(d)
<1>1. CASE StartDrain(w)
  <2>1. pc[w] = "idle" /\ status' = status /\ \A v \in Workers : v # w => pc'[v] = pc[v] /\ batch'[v] = batch[v]
    BY <1>1 DEF StartDrain, tableVars, OutboxInv, OutboxTypeOK
  <2> QED BY <2>1 DEF Stranded, Holds, IsCurrent
<1>2. ASSUME NEW e \in Events, Claim(w, e)
      PROVE  Stranded(d)
  <2>1. /\ pc[w] = "claim" /\ IsCurrent(w, e) /\ batch' = batch
        /\ pc'[w] \in {"handle", "fail"}
        /\ \A v \in Workers : v # w => pc'[v] = pc[v]
        /\ \A c \in Events : c # e => status'[c] = status[c]
    BY <1>2 DEF Claim, OutboxInv, OutboxTypeOK
  <2>2. Holds(w, e)'
    BY <2>1 DEF Holds, IsCurrent
  <2>3. d # e
    BY <2>2 DEF Stranded
  <2> QED BY <2>1, <2>3 DEF Stranded, Holds, IsCurrent
<1>3. ASSUME NEW e \in Events, SkipClaimed(w, e)
      PROVE  Stranded(d)
  <2>1. pc[w] = "claim" /\ status' = status /\ Advance(w, e)
    BY <1>3 DEF SkipClaimed, tableVars
  <2>2. \A v \in Workers : v # w => pc'[v] = pc[v] /\ batch'[v] = batch[v]
    BY <2>1, AdvanceReleases DEF OutboxInv
  <2> QED BY <2>1, <2>2 DEF Stranded, Holds, IsCurrent
<1>4. ASSUME NEW e \in Events, Finish(w, e)
      PROVE  Stranded(d)
  <2>1. /\ status' = status /\ batch' = batch /\ pc'[w] \in {"mark", "fail"}
        /\ \A v \in Workers : v # w => pc'[v] = pc[v]
    BY <1>4 DEF Finish, HandlerSucceeds, HandlerFails, tableVars, OutboxInv, OutboxTypeOK
  <2> QED BY <2>1 DEF Stranded, Holds, IsCurrent
<1>5. ASSUME NEW e \in Events, MarkAsProcessed(w, e) \/ HandleFailure(w, e)
      PROVE  Stranded(d)
  <2>1. /\ IsCurrent(w, e) /\ Advance(w, e)
        /\ status'[e] # "PROCESSING"
        /\ \A c \in Events : c # e => status'[c] = status[c]
    BY <1>5 DEF MarkAsProcessed, HandleFailure, OutboxInv, OutboxTypeOK
  <2>2. \A v \in Workers : v # w => pc'[v] = pc[v] /\ batch'[v] = batch[v]
    BY <2>1, AdvanceReleases DEF OutboxInv
  <2>3. d # e
    BY <2>1 DEF Stranded
  <2>4. ~Holds(w, d)
    BY <2>1, <2>3, OneCurrent DEF Holds, OutboxInv
  <2>5. \A v \in Workers : v # w => ~Holds(v, d)
    BY <2>2 DEF Stranded, Holds, IsCurrent
  <2>6. \A v \in Workers : ~Holds(v, d)
    BY <2>4, <2>5
  <2> QED BY <2>1, <2>3, <2>6 DEF Stranded
<1> QED BY <1>1, <1>2, <1>3, <1>4, <1>5 DEF Proceed

(* A fault strands the event its instance was looking at, if any. *)
LEMMA FaultStrandsOne ==
    ASSUME OutboxInv, NEW w \in Workers,
           Dies(w) \/ \E e \in Events : ClaimErrs(w, e) \/ MarkErrs(w, e)
    PROVE  /\ faults' = faults + 1
           /\ \A d, e \in Events : Stranded(d)' /\ ~Stranded(d) /\ Stranded(e)' /\ ~Stranded(e) => d = e
<1>1. faults' = faults + 1
  BY DEF Dies, ClaimErrs, MarkErrs, Fault
<1>2. ASSUME NEW d \in Events, Stranded(d)', ~Stranded(d)
      PROVE  IsCurrent(w, d)
  <2>1. CASE Dies(w)
    <3>1. status' = status /\ Abandon(w)
      BY <2>1 DEF Dies, tableVars
    <3>2. \A v \in Workers : v # w => pc'[v] = pc[v] /\ batch'[v] = batch[v]
      BY <3>1, AbandonReleases DEF OutboxInv
    <3> QED BY <1>2, <3>1, <3>2 DEF Stranded, Holds, IsCurrent
  <2>2. ASSUME NEW e \in Events, ClaimErrs(w, e)
        PROVE  IsCurrent(w, d)
    <3>1. /\ Abandon(w) /\ pc[w] = "claim" /\ IsCurrent(w, e)
          /\ \A c \in Events : c # e => status'[c] = status[c]
      BY <2>2 DEF ClaimErrs, OutboxInv, OutboxTypeOK
    <3>2. \A v \in Workers : v # w => pc'[v] = pc[v] /\ batch'[v] = batch[v]
      BY <3>1, AbandonReleases DEF OutboxInv
    <3>3. CASE d = e
      BY <3>1, <3>3
    <3>4. CASE d # e
      <4>1. status[d] = "PROCESSING"
        BY <1>2, <3>1, <3>4 DEF Stranded
      <4> QED BY <1>2, <3>2, <4>1 DEF Stranded, Holds, IsCurrent
    <3> QED BY <3>3, <3>4
  <2>3. ASSUME NEW e \in Events, MarkErrs(w, e)
        PROVE  IsCurrent(w, d)
    <3>1. /\ batch' = batch /\ pc'[w] = "fail" /\ pc[w] = "mark"
          /\ \A v \in Workers : v # w => pc'[v] = pc[v]
          /\ \A c \in Events : status'[c] = "PROCESSING" => status[c] = "PROCESSING"
      BY <2>3 DEF MarkErrs, OutboxInv, OutboxTypeOK
    <3> QED BY <1>2, <3>1 DEF Stranded, Holds, IsCurrent
  <2> QED BY <2>1, <2>2, <2>3
<1>3. \A d, e \in Events : Stranded(d)' /\ ~Stranded(d) /\ Stranded(e)' /\ ~Stranded(e) => d = e
  BY <1>2, OneCurrent DEF OutboxInv
<1> QED BY <1>1, <1>3

LEMMA LostIsFinite == IsFiniteSet(Lost) /\ Cardinality(Lost) \in Nat
<1>1. IsFiniteSet(Events)
  <2>1. 1 \in Int /\ NumEvents \in Int
    BY OutboxAssumption
  <2> QED BY <2>1, FS_Interval DEF Events
<1>2. Lost \in SUBSET Events
  BY DEF Lost
<1> QED BY <1>1, <1>2, FS_Subset, FS_CardinalityType

(* Either a step adds nothing to what is lost, or it is a fault and adds   *)
(* one event at most.                                                      *)
LEMMA StepStrands ==
    ASSUME OutboxInv, [Next]_vars
    PROVE  \/ Lost' \subseteq Lost /\ faults' = faults
           \/ faults' = faults + 1 /\ \E e \in Events : Lost' \subseteq Lost \cup {e}
           \/ faults' = faults + 1 /\ Lost' \subseteq Lost
<1>1. CASE UNCHANGED vars
  BY <1>1 DEF vars, tableVars, workerVars, Lost, Stranded, Holds, IsCurrent
<1>2. ASSUME NEW e \in Events, CreateEvent(e) \/ BackoffElapses(e)
      PROVE  Lost' \subseteq Lost /\ faults' = faults
  <2>1. \A d \in Events : Stranded(d)' => Stranded(d)
    BY <1>2, EventStepStrandsNothing
  <2>2. faults' = faults
    BY <1>2 DEF CreateEvent, BackoffElapses
  <2> QED BY <2>1, <2>2 DEF Lost
<1>3. ASSUME NEW w \in Workers, StartDrain(w) \/ Proceed(w)
      PROVE  Lost' \subseteq Lost /\ faults' = faults
  <2>1. \A d \in Events : Stranded(d)' => Stranded(d)
    BY <1>3, DrainStrandsNothing
  <2>2. faults' = faults
    BY <1>3 DEF StartDrain, Proceed, Claim, SkipClaimed, Finish, HandlerSucceeds, HandlerFails,
                MarkAsProcessed, HandleFailure
  <2> QED BY <2>1, <2>2 DEF Lost
<1>4. ASSUME NEW w \in Workers, Dies(w) \/ \E e \in Events : ClaimErrs(w, e) \/ MarkErrs(w, e)
      PROVE  \/ faults' = faults + 1 /\ \E e \in Events : Lost' \subseteq Lost \cup {e}
             \/ faults' = faults + 1 /\ Lost' \subseteq Lost
  <2>1. /\ faults' = faults + 1
        /\ \A d, e \in Events : Stranded(d)' /\ ~Stranded(d) /\ Stranded(e)' /\ ~Stranded(e) => d = e
    BY <1>4, FaultStrandsOne
  <2>2. CASE \E e \in Events : Stranded(e)' /\ ~Stranded(e)
    <3>1. PICK e \in Events : Stranded(e)' /\ ~Stranded(e)
      BY <2>2
    <3>2. Lost' \subseteq Lost \cup {e}
      BY <2>1, <3>1 DEF Lost
    <3> QED BY <2>1, <3>2
  <2>3. CASE \A e \in Events : Stranded(e)' => Stranded(e)
    BY <2>1, <2>3 DEF Lost
  <2> QED BY <2>2, <2>3
<1> QED BY <1>1, <1>2, <1>3, <1>4 DEF Next

(* An event nobody works on that is still marked PROCESSING is the work of *)
(* a fault of its own; a drain without faults strands nothing.             *)
THEOREM StrandedCorrect == Spec => []StrandedOnlyByFaults
<1>1. StrandedOnlyByFaults <=> Cardinality(Lost) <= faults
  BY DEF StrandedOnlyByFaults, Lost
<1>2. Init => StrandedOnlyByFaults
  <2>1. Init => Lost = {} /\ faults = 0
    BY DEF Init, Lost, Stranded
  <2> QED BY <1>1, <2>1, FS_EmptySet
<1>3. OutboxInv /\ StrandedOnlyByFaults /\ [Next]_vars => StrandedOnlyByFaults'
  <2> SUFFICES ASSUME OutboxInv, StrandedOnlyByFaults, [Next]_vars
               PROVE  Cardinality(Lost') <= faults'
    BY DEF StrandedOnlyByFaults, Lost
  <2>1. IsFiniteSet(Lost) /\ Cardinality(Lost) \in Nat /\ Cardinality(Lost) <= faults /\ faults \in Nat
    BY <1>1, LostIsFinite, EventsAreNat DEF OutboxInv, OutboxTypeOK
  <2>2. ASSUME NEW T, IsFiniteSet(T), Lost' \subseteq T
        PROVE  Cardinality(Lost') <= Cardinality(T)
    BY <2>2, FS_Subset
  <2>3. ASSUME Lost' \subseteq Lost
        PROVE  Cardinality(Lost') <= Cardinality(Lost)
    BY <2>1, <2>2, <2>3
  <2>4. ASSUME NEW e \in Events, Lost' \subseteq Lost \cup {e}
        PROVE  Cardinality(Lost') <= Cardinality(Lost) + 1
    <3>1. /\ IsFiniteSet(Lost \cup {e})
          /\ Cardinality(Lost \cup {e}) = Cardinality(Lost) \/ Cardinality(Lost \cup {e}) = Cardinality(Lost) + 1
      BY <2>1, FS_AddElement
    <3>2. Cardinality(Lost') <= Cardinality(Lost \cup {e})
      BY <2>2, <2>4, <3>1
    <3>3. IsFiniteSet(Lost') /\ Cardinality(Lost') \in Nat
      BY <2>4, <3>1, FS_Subset, FS_CardinalityType
    <3> QED BY <2>1, <3>1, <3>2, <3>3
  <2>5. Cardinality(Lost') \in Nat
    BY <2>1, <2>3, <2>4, StepStrands, FS_Subset, FS_AddElement, FS_CardinalityType
  <2> QED BY <2>1, <2>3, <2>4, <2>5, StepStrands
<1> QED BY <1>2, <1>3, OutboxInvariance, PTL DEF Spec
=============================================================================
