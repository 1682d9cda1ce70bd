----------------------------- MODULE RewardClaims -----------------------------
(***************************************************************************)
(* Claims of the reward of a challenge.  A claim is a transaction that     *)
(* looks for earlier claims, reads the reward with its counter, and then   *)
(* inserts its row and increments the counter; the database runs it with   *)
(* read-committed isolation, so each statement sees what is committed by   *)
(* then.  From the insertion to the commit the transaction holds the locks *)
(* of the row and of its unique keys: these statements are one step.       *)
(***************************************************************************)
EXTENDS Naturals, FiniteSets

CONSTANTS
    Rewards,        \* ids of the rewards ever created, all of one challenge
    ClaimUsers,
    DedupeKeys,     \* keys that retries of one issuance share
    Claimers,       \* claims that are processed at the same time
    MaxClaims       \* largest limit a reward is given; null is left out

NoKey == "null"

ASSUME ClaimsAssumption ==
    /\ MaxClaims \in Nat /\ NoKey \notin DedupeKeys
    /\ Rewards # {} /\ ClaimUsers # {} /\ IsFiniteSet(ClaimUsers)
    /\ Claimers # {} /\ IsFiniteSet(Claimers)

VARIABLES
    reward,     \* the reward rows
    claims,     \* the claim rows
    claimer,    \* the transactions under way
    deleting    \* rewards found to be without claims, about to be deactivated

claimVars == <<reward, claims, claimer, deleting>>

NoReward  == [exists |-> FALSE, isActive |-> FALSE, currentClaims |-> 0, maxClaims |-> 0]
ClaimRow  == [user : ClaimUsers, reward : Rewards, dedupeKey : DedupeKeys \cup {NoKey}]
NoClaimer == [stage |-> "none", row |-> [user |-> CHOOSE u \in ClaimUsers : TRUE,
              reward |-> CHOOSE r \in Rewards : TRUE, dedupeKey |-> NoKey]]

ClaimsInit ==
    /\ reward = [r \in Rewards |-> NoReward]
    /\ claims = {}
    /\ claimer = [t \in Claimers |-> NoClaimer]
    /\ deleting = {}

-----------------------------------------------------------------------------

CreateReward(r, limit) ==
    /\ ~reward[r].exists
    /\ reward' = [reward EXCEPT ![r] = [exists |-> TRUE, isActive |-> TRUE,
                                        currentClaims |-> 0, maxClaims |-> limit]]
    /\ UNCHANGED <<claims, claimer, deleting>>

SameKey(c, k) == k # NoKey /\ c.dedupeKey = k

(* Neither the key nor the user has a claim: the transaction goes on.  A   *)
(* retry that finds its key answers with that claim and changes nothing.   *)
BeginClaim(t, u, k) ==
    /\ claimer[t].stage = "none"
    /\ \A c \in claims : ~SameKey(c, k) /\ c.user # u
    /\ claimer' = [claimer EXCEPT ![t] =
                    [stage |-> "begun", row |-> [claimer[t].row EXCEPT !.user = u, !.dedupeKey = k]]]
    /\ UNCHANGED <<reward, claims, deleting>>

(* A slip: the limit is not looked at. *)
ClaimableWithoutLimit(r) == reward[r].isActive

Claimable(r) == reward[r].isActive /\ reward[r].currentClaims < reward[r].maxClaims

(* findOne returns any active reward of the challenge. *)
ReadReward(t, r) ==
    /\ claimer[t].stage = "begun"
    /\ Claimable(r)
    /\ claimer' = [claimer EXCEPT ![t] =
                    [stage |-> "insert", row |-> [claimer[t].row EXCEPT !.reward = r]]]
    /\ UNCHANGED <<reward, claims, deleting>>

(* The insertion violates neither (userId, rewardId) nor dedupeKey; the    *)
(* increment and the commit follow.                                        *)
CommitClaim(t) ==
    LET row == claimer[t].row
    IN  /\ claimer[t].stage = "insert"
        /\ \A c \in claims : ~SameKey(c, row.dedupeKey)
                               /\ ~(c.user = row.user /\ c.reward = row.reward)
        /\ claims' = claims \cup {row}
        /\ reward' = [reward EXCEPT ![row.reward].currentClaims = @ + 1]
        /\ claimer' = [claimer EXCEPT ![t] = NoClaimer]
        /\ UNCHANGED deleting

(* A check refuses the claim, the insertion conflicts, or a statement      *)
(* fails: the transaction rolls back.                                      *)
RollBack(t) ==
    /\ claimer[t].stage # "none"
    /\ claimer' = [claimer EXCEPT ![t] = NoClaimer]
    /\ UNCHANGED <<reward, claims, deleting>>

(* deleteReward counts the claims and then deactivates the reward.         *)
CountClaims(r) ==
    /\ reward[r].exists /\ r \notin deleting
    /\ \A c \in claims : c.reward # r
    /\ deleting' = deleting \cup {r}
    /\ UNCHANGED <<reward, claims, claimer>>

DeleteReward(r) ==
    /\ r \in deleting
    /\ reward' = [reward EXCEPT ![r].isActive = FALSE]
    /\ deleting' = deleting \ {r}
    /\ UNCHANGED <<claims, claimer>>

-----------------------------------------------------------------------------

ClaimsNext ==
    \/ \E r \in Rewards, limit \in 1 .. MaxClaims : CreateReward(r, limit)
    \/ \E t \in Claimers :
          \/ \E u \in ClaimUsers, k \in DedupeKeys \cup {NoKey} : BeginClaim(t, u, k)
          \/ \E r \in Rewards : ReadReward(t, r)
          \/ CommitClaim(t) \/ RollBack(t)
    \/ \E r \in Rewards : CountClaims(r) \/ DeleteReward(r)

ClaimsSpec == ClaimsInit /\ [][ClaimsNext]_claimVars

-----------------------------------------------------------------------------
(* Properties. *)

ClaimsTypeOK ==
    /\ reward \in [Rewards -> [exists : BOOLEAN, isActive : BOOLEAN,
                               currentClaims : 0 .. Cardinality(ClaimUsers), maxClaims : 0 .. MaxClaims]]
    /\ claims \subseteq ClaimRow
    /\ claimer \in [Claimers -> [stage : {"none", "begun", "insert"}, row : ClaimRow]]
    /\ deleting \subseteq Rewards

ClaimsOf(r) == {c \in claims : c.reward = r}

(* The counter of a reward agrees with its claims however transactions     *)
(* overlap.  The module's README promises "automatic enforcement" of the   *)
(* limit, but it is tested before the insertion without a lock, so it may  *)
(* be passed, though only by transactions that tested it side by side: by  *)
(* one claim less than there are transactions at a time.                   *)
ClaimsStayNearLimit ==
    \A r \in Rewards :
        /\ reward[r].currentClaims = Cardinality(ClaimsOf(r))
        /\ Cardinality(ClaimsOf(r)) < reward[r].maxClaims + Cardinality(Claimers)
=============================================================================
