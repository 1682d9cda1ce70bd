------------------------------- MODULE Outbox --------------------------------
(***************************************************************************)
(* The transactional outbox of the backend.  Every backend instance runs   *)
(* processOutbox from a timer; the instances share nothing but the event   *)
(* table.  A drain reads a batch of events, and then, one event at a time, *)
(* claims it, runs its handler and records the outcome.  Each database     *)
(* statement is atomic; between two of them the other instances may do     *)
(* anything.                                                               *)
(*                                                                         *)
(* A drain works on the copies it read: recording a failure saves the copy *)
(* back, with the attempts it had when it was read plus one.               *)
(***************************************************************************)
EXTENDS Naturals, FiniteSets

CONSTANTS
    Workers,        \* backend instances
    NumEvents,      \* bound on the events ever created, numbered by createdAt
    Handled,        \* events whose type has a registered handler
    MaxAttempts,    \* DEFAULT_MAX_ATTEMPTS (3)
    BatchSize,      \* DEFAULT_BATCH_SIZE (50)
    MaxFaults       \* bound on database errors and crashes

Events == 1 .. NumEvents

ASSUME OutboxAssumption ==
    /\ NumEvents \in Nat /\ MaxAttempts \in Nat \ {0}
    /\ BatchSize \in Nat \ {0} /\ MaxFaults \in Nat
    /\ Handled \subseteq Events

VARIABLES
    status,     \* status[e], "none" while the event does not exist
    attempts,   \* attempts[e]
    due,        \* nextAttemptAt is absent or has passed; read while FAILED
    pc,         \* where each instance stands; "idle" is isProcessing = false
    batch,      \* the events of the batch an instance still has to look at
    copy,       \* the attempts it read with the batch
    faults,     \* number of faults so far
    failures,   \* history: failures recorded or about to be, per event
    handled     \* history: events each instance handled in its current drain

tableVars   == <<status, attempts, due>>
workerVars  == <<pc, batch, copy>>
historyVars == <<failures, handled>>
vars == <<tableVars, workerVars, faults, historyVars>>

Terminal  == {"PROCESSED", "DEAD_LETTER"}
Claimable == {"PENDING", "FAILED"}
Statuses  == {"none", "PROCESSING"} \cup Claimable \cup Terminal

Init ==
    /\ status = [e \in Events |-> "none"]
    /\ attempts = [e \in Events |-> 0]
    /\ due = [e \in Events |-> TRUE]
    /\ pc = [w \in Workers |-> "idle"]
    /\ batch = [w \in Workers |-> {}]
    /\ copy = [w \in Workers |-> [e \in Events |-> 0]]
    /\ faults = 0
    /\ failures = [e \in Events |-> 0]
    /\ handled = [w \in Workers |-> {}]

-----------------------------------------------------------------------------

(* createEvent, committed with the transaction it is part of.  Events      *)
(* become visible in commit order, which need not be that of createdAt.    *)
CreateEvent(e) ==
    /\ status[e] = "none"
    /\ status' = [status EXCEPT ![e] = "PENDING"]
    /\ UNCHANGED <<attempts, due, workerVars, faults, historyVars>>

BackoffElapses(e) ==
    /\ status[e] = "FAILED" /\ ~due[e]
    /\ due' = [due EXCEPT ![e] = TRUE]
    /\ UNCHANGED <<status, attempts, workerVars, faults, historyVars>>

(* A slip: events that failed once are never read again. *)
PendingOnly == {e \in Events : status[e] = "PENDING"}

(* The filter of getPendingEvents. *)
PendingEvents ==
    {e \in Events : status[e] = "PENDING" \/ (status[e] = "FAILED" /\ due[e])}

Oldest(S) == {e \in S : Cardinality({d \in S : d < e}) < BatchSize}

(* The timer fires and the instance is not draining: getPendingEvents.  A  *)
(* drain that finds nothing to do changes nothing.                         *)
StartDrain(w) ==
    /\ pc[w] = "idle"
    /\ PendingEvents # {}
    /\ pc' = [pc EXCEPT ![w] = "claim"]
    /\ batch' = [batch EXCEPT ![w] = Oldest(PendingEvents)]
    /\ copy' = [copy EXCEPT ![w] = attempts]
    /\ UNCHANGED <<tableVars, faults, historyVars>>

IsCurrent(w, e) == e \in batch[w] /\ \A d \in batch[w] : e <= d

(* The drain goes on with the next event of the batch, or ends. *)
Advance(w, e) ==
    /\ batch' = [batch EXCEPT ![w] = @ \ {e}]
    /\ pc' = [pc EXCEPT ![w] = IF batch[w] = {e} THEN "idle" ELSE "claim"]
    /\ UNCHANGED copy

(* Leaving processOutbox: the finally clause resets isProcessing. *)
Abandon(w) ==
    /\ pc' = [pc EXCEPT ![w] = "idle"]
    /\ batch' = [batch EXCEPT ![w] = {}]
    /\ UNCHANGED copy

Forget(w) == handled' = [handled EXCEPT ![w] = IF pc'[w] = "idle" THEN {} ELSE @]

(* Slips: the update does not test the status; a type without a handler    *)
(* is skipped after the claim.                                             *)
ClaimUnconditionally(w, e) ==
    /\ pc[w] = "claim" /\ IsCurrent(w, e)
    /\ status' = [status EXCEPT ![e] = "PROCESSING"]
    /\ pc' = [pc EXCEPT ![w] = IF e \in Handled THEN "handle" ELSE "fail"]
    /\ failures' = IF e \in Handled THEN failures ELSE [failures EXCEPT ![e] = @ + 1]
    /\ handled' = [handled EXCEPT ![w] = IF e \in Handled THEN @ \cup {e} ELSE @]
    /\ UNCHANGED <<attempts, due, batch, copy, faults>>
ClaimAndSkipUnknown(w, e) ==
    /\ pc[w] = "claim" /\ IsCurrent(w, e)
    /\ status[e] \in Claimable
    /\ status' = [status EXCEPT ![e] = "PROCESSING"]
    /\ IF e \in Handled
       THEN pc' = [pc EXCEPT ![w] = "handle"] /\ UNCHANGED <<batch, copy, handled>>
       ELSE Advance(w, e) /\ Forget(w)
    /\ UNCHANGED <<attempts, due, faults, failures>>

(* claimEvent succeeds: the conditional update found a claimable status.   *)
(* It does not ask whether the backoff has passed.                         *)
Claim(w, e) ==
    /\ pc[w] = "claim" /\ IsCurrent(w, e)
    /\ status[e] \in Claimable
    /\ status' = [status EXCEPT ![e] = "PROCESSING"]
    /\ pc' = [pc EXCEPT ![w] = IF e \in Handled THEN "handle" ELSE "fail"]
    /\ failures' = IF e \in Handled THEN failures ELSE [failures EXCEPT ![e] = @ + 1]
    /\ handled' = [handled EXCEPT ![w] = IF e \in Handled THEN @ \cup {e} ELSE @]
    /\ UNCHANGED <<attempts, due, batch, copy, faults>>

(* Somebody else claimed or finished the event in the meantime. *)
SkipClaimed(w, e) ==
    /\ pc[w] = "claim" /\ IsCurrent(w, e)
    /\ status[e] \notin Claimable
    /\ Advance(w, e)
    /\ Forget(w)
    /\ UNCHANGED <<tableVars, faults, failures>>

HandlerSucceeds(w, e) ==
    /\ pc[w] = "handle" /\ IsCurrent(w, e)
    /\ pc' = [pc EXCEPT ![w] = "mark"]
    /\ UNCHANGED <<tableVars, batch, copy, faults, historyVars>>

HandlerFails(w, e) ==
    /\ pc[w] = "handle" /\ IsCurrent(w, e)
    /\ pc' = [pc EXCEPT ![w] = "fail"]
    /\ failures' = [failures EXCEPT ![e] = @ + 1]
    /\ UNCHANGED <<tableVars, batch, copy, faults, handled>>

MarkAsProcessed(w, e) ==
    /\ pc[w] = "mark" /\ IsCurrent(w, e)
    /\ status' = [status EXCEPT ![e] = "PROCESSED"]
    /\ Advance(w, e)
    /\ Forget(w)
    /\ UNCHANGED <<attempts, due, faults, failures>>

(* Slips: the budget is not looked at, or every failure is counted twice. *)
HandleFailureForever(w, e) ==
    /\ pc[w] = "fail" /\ IsCurrent(w, e)
    /\ attempts' = [attempts EXCEPT ![e] = copy[w][e] + 1]
    /\ status' = [status EXCEPT ![e] = "FAILED"]
    /\ due' = [due EXCEPT ![e] = FALSE]
    /\ Advance(w, e) /\ Forget(w)
    /\ UNCHANGED <<faults, failures>>
HandleFailureTwice(w, e) ==
    LET n == IF copy[w][e] + 2 > MaxAttempts THEN MaxAttempts ELSE copy[w][e] + 2
    IN  /\ pc[w] = "fail" /\ IsCurrent(w, e)
        /\ attempts' = [attempts EXCEPT ![e] = n]
        /\ status' = [status EXCEPT ![e] = IF n >= MaxAttempts THEN "DEAD_LETTER" ELSE "FAILED"]
        /\ due' = [due EXCEPT ![e] = n >= MaxAttempts]
        /\ Advance(w, e) /\ Forget(w)
        /\ UNCHANGED <<faults, failures>>

(* handleFailure saves the copy that was read when the drain began. *)
HandleFailure(w, e) ==
    LET n == copy[w][e] + 1
    IN  /\ pc[w] = "fail" /\ IsCurrent(w, e)
        /\ attempts' = [attempts EXCEPT ![e] = n]
        /\ status' = [status EXCEPT ![e] = IF n >= MaxAttempts THEN "DEAD_LETTER" ELSE "FAILED"]
        /\ due' = [due EXCEPT ![e] = n >= MaxAttempts]
        /\ Advance(w, e)
        /\ Forget(w)
        /\ UNCHANGED <<faults, failures>>

-----------------------------------------------------------------------------
(* Faults. *)

Fault == faults < MaxFaults /\ faults' = faults + 1

(* The update of claimEvent reports an error; it may have been applied. *)
ClaimErrs(w, e) ==
    /\ pc[w] = "claim" /\ IsCurrent(w, e)
    /\ Fault
    /\ \/ UNCHANGED status
       \/ status[e] \in Claimable /\ status' = [status EXCEPT ![e] = "PROCESSING"]
    /\ Abandon(w) /\ Forget(w)
    /\ UNCHANGED <<attempts, due, failures>>

(* markAsProcessed throws, whether or not its statement was applied: the   *)
(* catch clause treats it as a failure of the handler.                     *)
MarkErrs(w, e) ==
    /\ pc[w] = "mark" /\ IsCurrent(w, e)
    /\ Fault
    /\ status' \in {status, [status EXCEPT ![e] = "PROCESSED"]}
    /\ pc' = [pc EXCEPT ![w] = "fail"]
    /\ failures' = [failures EXCEPT ![e] = @ + 1]
    /\ UNCHANGED <<attempts, due, batch, copy, handled>>

(* handleFailure throws, or the instance dies and restarts: the event      *)
(* stays as it is and the rest of the batch is forgotten.                  *)
Dies(w) ==
    /\ pc[w] # "idle"
    /\ Fault
    /\ Abandon(w) /\ Forget(w)
    /\ UNCHANGED <<tableVars, failures>>

-----------------------------------------------------------------------------

Finish(w, e) == HandlerSucceeds(w, e) \/ HandlerFails(w, e)

(* What an instance does with the current event when nothing goes wrong    *)
(* with the database.                                                      *)
Proceed(w) ==
    \E e \in Events :
        \/ Claim(w, e) \/ SkipClaimed(w, e)
        \/ Finish(w, e)
        \/ MarkAsProcessed(w, e) \/ HandleFailure(w, e)

Next ==
    \/ \E e \in Events : CreateEvent(e) \/ BackoffElapses(e)
    \/ \E w \in Workers :
          \/ StartDrain(w)
          \/ Proceed(w)
          \/ \E e \in Events : ClaimErrs(w, e) \/ MarkErrs(w, e)
          \/ Dies(w)

(* The timer keeps firing, time passes and handlers return. *)
Fairness ==
    /\ \A e \in Events : WF_vars(BackoffElapses(e))
    /\ \A w \in Workers : WF_vars(StartDrain(w)) /\ WF_vars(Proceed(w))

Spec == Init /\ [][Next]_vars
FairSpec == Spec /\ Fairness

-----------------------------------------------------------------------------
(* Properties. *)

Holds(w, e) == pc[w] \in {"handle", "mark", "fail"} /\ IsCurrent(w, e)

(* Every value has its type; the attempt count stays within its budget. *)
OutboxTypeOK ==
    /\ status \in [Events -> Statuses]
    /\ attempts \in [Events -> 0 .. MaxAttempts]
    /\ due \in [Events -> BOOLEAN]
    /\ pc \in [Workers -> {"idle", "claim", "handle", "mark", "fail"}]
    /\ batch \in [Workers -> SUBSET Events]
    /\ copy \in [Workers -> [Events -> 0 .. MaxAttempts]]
    /\ faults \in 0 .. MaxFaults
    /\ failures \in [Events -> Nat]
    /\ handled \in [Workers -> SUBSET Events]

(* An event is in the hands of one instance at a time, and nobody can      *)
(* claim it for as long as it is, whatever stale batches the others still  *)
(* work through.                                                           *)
ClaimIsExclusive ==
    \A w \in Workers, e \in Events : Holds(w, e) =>
        /\ status[e] = "PROCESSING" \/ (status[e] = "PROCESSED" /\ pc[w] = "fail")
        /\ \A v \in Workers : Holds(v, e) => v = w

(* A processed or dead-lettered event is never touched again, although a   *)
(* drain saves whole copies that it read long before.  The one exception   *)
(* is the instance whose own markAsProcessed was applied but reported an   *)
(* error.                                                                  *)
SettledStaysSettled ==
    [][\A e \in Events :
          status[e] \in Terminal /\ status'[e] # status[e] =>
             status[e] = "PROCESSED" /\ \E w \in Workers : pc[w] = "fail" /\ IsCurrent(w, e)
      ]_vars

(* Stale copies may lose attempts but never invent one: no event is parked *)
(* before it really failed as often as its budget allows.                  *)
AttemptsAreReal ==
    \A e \in Events :
        /\ attempts[e] <= failures[e]
        /\ status[e] = "DEAD_LETTER" => failures[e] >= MaxAttempts

(* Marked PROCESSING, but no instance is working on it any more.  Nothing  *)
(* in the code ever takes such an event up again.                          *)
Stranded(e) == status[e] = "PROCESSING" /\ \A w \in Workers : ~Holds(w, e)

(* Each fault strands one event at most; without a fault none is. *)
StrandedOnlyByFaults ==
    Cardinality({e \in Events : Stranded(e)}) <= faults

(* Every event is eventually processed or parked, unless a fault strands   *)
(* it, even if it fails again and again and drains overwrite each other's  *)
(* attempt counts.                                                         *)
EventuallySettled ==
    \A e \in Events :
        status[e] # "none" ~> (status[e] \in Terminal \/ Stranded(e))

(* docs/background-job-policy.md: the outbox "claims an event before       *)
(* handling it, so one event is not processed twice by two concurrent      *)
(* drains".                                                                *)
NotTwiceByConcurrentDrains ==
    \A v, w \in Workers : v # w => handled[v] \cap handled[w] = {}
=============================================================================
