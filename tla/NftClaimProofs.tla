--------------------------- MODULE NftClaimProofs ---------------------------
(***************************************************************************)
(* Proofs about NftClaim, for every number of claims, attempts, players    *)
(* and administrators, and every behaviour of the network.                 *)
(***************************************************************************)
EXTENDS NftClaim, TLAPS

-----------------------------------------------------------------------------
(* The inductive invariant. *)

BadgeOf(p) == nft[Contract].badge[p][Level]

(* The retry loop counts its attempts and stops at the last one. *)
LoopIsCounted ==
    \A c \in Claims :
        /\ claim[c] = "new" => attempt[c] = 0
        /\ claim[c] = "backoff" => attempt[c] < MaxRetries

(* Only well-formed claims come as far as a transaction, and a transaction *)
(* that an attempt polls for has the attempt's own recipient.              *)
SentHasRecipient ==
    \A t \in Txs :
        /\ at[t] \in {"submit", "confirm"} \/ tx[t] # "unsent" => target[t[1]] \in Players
        /\ at[t] = "confirm" =>
              tracked[t] \in Txs /\ target[tracked[t][1]] = target[t[1]]

(* A transaction that succeeded left the badge with the custodian. *)
SuccessIsMinted ==
    \A t \in Txs : tx[t] = "success" => BadgeOf(target[t[1]]) = Custodian

(* Only claims with a recipient are confirmed. *)
ConfirmedHasRecipient ==
    \A c \in Claims : answer[c] = "confirmed" => target[c] \in Players

ClaimInv ==
    /\ ClaimTypeOK
    /\ LoopIsCounted
    /\ SentHasRecipient
    /\ SuccessIsMinted
    /\ ConfirmedHasRecipient
    /\ ConfirmedIsMinted
    /\ MintedOnce

AnswersKept == \A c \in Claims : answer[c] # "none" => answer'[c] = answer[c]

-----------------------------------------------------------------------------
(* The badge contract. *)

LEMMA Constants ==
    /\ MaxRetries \in Nat \ {0}
    /\ NoOne \notin Players /\ Custodian # NoOne
    /\ \A t \in Txs : t[1] \in Claims /\ t[2] \in Attempts /\ t = <<t[1], t[2]>>
BY ClaimAssumption DEF Txs, Attempts

(* Storing the contract's record. *)
LEMMA NftWrite ==
    ASSUME NFT!NftTypeOK, NEW rec \in NFT!NftRecord, nft' = [nft EXCEPT ![Contract] = rec]
    PROVE  NFT!NftTypeOK' /\ nft'[Contract] = rec
BY DEF NFT!NftTypeOK

(* Minting changes one badge that was missing, and no other one. *)
LEMMA MintEffect ==
    ASSUME NFT!NftTypeOK, NEW m \in {Custodian, Game}, NEW p \in Players,
           NFT!MintLevelBadge(Contract, m, p, Level)
    PROVE  /\ NFT!NftTypeOK'
           /\ BadgeOf(p) = NoOne
           /\ \A r \in Players : BadgeOf(r)' = IF r = p THEN m ELSE BadgeOf(r)
<1> DEFINE badge == [nft[Contract].badge EXCEPT ![p][Level] = m]
           rec   == [nft[Contract] EXCEPT !.badge = badge]
<1>1. nft[Contract] \in NFT!NftRecord
  BY DEF NFT!NftTypeOK
<1>2. /\ badge \in [Players -> [{Level} -> {Custodian, Game} \cup {NoOne}]]
      /\ \A r \in Players : badge[r][Level] = IF r = p THEN m ELSE BadgeOf(r)
  BY <1>1 DEF NFT!NftRecord, BadgeOf
<1>3. nft' = [nft EXCEPT ![Contract] = rec] /\ BadgeOf(p) = NoOne
  BY DEF NFT!MintLevelBadge, NFT!HasLevelBadge, BadgeOf
<1> HIDE DEF badge
<1>4. rec \in NFT!NftRecord /\ rec.badge = badge
  BY <1>1, <1>2 DEF NFT!NftRecord
<1> HIDE DEF rec
<1>5. NFT!NftTypeOK' /\ nft'[Contract] = rec
  BY <1>3, <1>4, NftWrite
<1> QED BY <1>2, <1>3, <1>4, <1>5 DEF BadgeOf

(* Changing the minters moves no badge. *)
LEMMA RoleEffect ==
    ASSUME NFT!NftTypeOK,
           NFT!GrantMinterRole(Contract, Custodian) \/ NFT!RevokeMinterRole(Contract, Custodian)
    PROVE  NFT!NftTypeOK' /\ \A r \in Players : BadgeOf(r)' = BadgeOf(r)
<1>1. nft[Contract] \in NFT!NftRecord
  BY DEF NFT!NftTypeOK
<1>2. PICK M \in SUBSET {Custodian, Game} : nft' = [nft EXCEPT ![Contract] = [nft[Contract] EXCEPT !.minters = M]]
  <2>1. nft[Contract].minters \in SUBSET {Custodian, Game}
    BY <1>1 DEF NFT!NftRecord
  <2>2. CASE NFT!GrantMinterRole(Contract, Custodian)
    <3>1. nft' = [nft EXCEPT ![Contract] = [nft[Contract] EXCEPT !.minters = nft[Contract].minters \cup {Custodian}]]
      BY <2>2 DEF NFT!GrantMinterRole
    <3> QED BY <2>1, <3>1
  <2>3. CASE NFT!RevokeMinterRole(Contract, Custodian)
    <3>1. nft' = [nft EXCEPT ![Contract] = [nft[Contract] EXCEPT !.minters = nft[Contract].minters \ {Custodian}]]
      BY <2>3 DEF NFT!RevokeMinterRole
    <3> QED BY <2>1, <3>1
  <2> QED BY <2>2, <2>3
<1> DEFINE rec == [nft[Contract] EXCEPT !.minters = M]
<1>3. rec \in NFT!NftRecord /\ rec.badge = nft[Contract].badge
  BY <1>1 DEF NFT!NftRecord
<1> HIDE DEF rec
<1>4. NFT!NftTypeOK' /\ nft'[Contract] = rec
  <2>1. nft' = [nft EXCEPT ![Contract] = rec]
    BY <1>2 DEF rec
  <2> QED BY <1>3, <2>1, NftWrite
<1> QED BY <1>3, <1>4 DEF BadgeOf

-----------------------------------------------------------------------------
(* The invariants that read the chain only depend on recipients, results   *)
(* of transactions and badges.                                             *)

(* A claim that goes on is neither new nor answered. *)
LEMMA StartCorrect ==
    ASSUME ClaimInv, NEW c \in Claims, Request(c) \/ Retry(c)
    PROVE  ClaimInv' /\ AnswersKept
<1> USE Constants DEF ClaimInv
<1>1. /\ UNCHANGED <<target, answer, fresh, tracked, tx, nft>>
      /\ StartAttempt(c) /\ claim[c] \in {"new", "backoff"}
  BY DEF Request, Retry, networkVars
<1>2. attempt[c] \in 0 .. MaxRetries /\ attempt[c] < MaxRetries
  BY <1>1 DEF ClaimTypeOK, LoopIsCounted
<1>3. /\ claim' = [claim EXCEPT ![c] = "running"]
      /\ attempt' = [attempt EXCEPT ![c] = attempt[c] + 1]
      /\ at' = [at EXCEPT ![<<c, attempt[c] + 1>>] = "build"]
  BY <1>1 DEF StartAttempt
<1>4. attempt[c] + 1 \in 0 .. MaxRetries
  BY <1>2
<1>5. ClaimTypeOK'
  <2>1. NFT!NftTypeOK'
    BY <1>1 DEF ClaimTypeOK, NFT!NftTypeOK
  <2>2. claim' \in [Claims -> {"new", "running", "backoff", "answered", "lost"}]
    BY <1>3 DEF ClaimTypeOK
  <2>3. attempt' \in [Claims -> 0 .. MaxRetries]
    BY <1>3, <1>4 DEF ClaimTypeOK
  <2>4. at' \in [Txs -> {"none", "build", "submit", "confirm", "ended"}]
    BY <1>3 DEF ClaimTypeOK
  <2>5. \A d \in Claims : claim'[d] = "answered" <=> answer'[d] # "none"
    BY <1>1, <1>3 DEF ClaimTypeOK
  <2> QED BY <1>1, <2>1, <2>2, <2>3, <2>4, <2>5 DEF ClaimTypeOK
<1>6. LoopIsCounted'
  BY <1>3 DEF LoopIsCounted, ClaimTypeOK
<1>7. SentHasRecipient'
  <2>1. \A t \in Txs : at'[t] = at[t] \/ at'[t] = "build"
    BY <1>3 DEF ClaimTypeOK
  <2> QED BY <1>1, <2>1 DEF SentHasRecipient
<1>8. SuccessIsMinted' /\ ConfirmedHasRecipient' /\ ConfirmedIsMinted' /\ MintedOnce' /\ AnswersKept
  BY <1>1 DEF SuccessIsMinted, BadgeOf, ConfirmedHasRecipient, ConfirmedIsMinted, MintedOnce, AnswersKept
<1> QED BY <1>5, <1>6, <1>7, <1>8

(* Once an attempt failed, the loop goes on or the claim is answered with  *)
(* an error; an answer is only ever given to a claim without one.          *)
LEMMA LoopEffect ==
    ASSUME ClaimInv, NEW c \in Claims, claim[c] = "running",
           NEW d \in Decisions, FailTransiently(c) \/ Decide(c, d)
    PROVE  /\ claim' \in [Claims -> {"new", "running", "backoff", "answered", "lost"}]
           /\ answer' \in [Claims -> Decisions \cup {"none"}]
           /\ attempt' = attempt
           /\ \A b \in Claims : claim'[b] = "answered" <=> answer'[b] # "none"
           /\ LoopIsCounted'
           /\ AnswersKept
           /\ \A b \in Claims : answer'[b] = "confirmed" =>
                 answer[b] = "confirmed" \/ (b = c /\ d = "confirmed" /\ Decide(c, d))
<1> USE Constants DEF ClaimInv
<1>1. answer[c] = "none" /\ "error" \in Decisions /\ "none" \notin Decisions
  BY DEF ClaimTypeOK, Decisions
<1>2. ASSUME NEW e \in Decisions, Decide(c, e)
      PROVE  /\ claim' \in [Claims -> {"new", "running", "backoff", "answered", "lost"}]
             /\ answer' \in [Claims -> Decisions \cup {"none"}]
             /\ attempt' = attempt
             /\ \A b \in Claims : claim'[b] = "answered" <=> answer'[b] # "none"
             /\ LoopIsCounted'
             /\ AnswersKept
             /\ \A b \in Claims : answer'[b] = "confirmed" =>
                   answer[b] = "confirmed" \/ (b = c /\ e = "confirmed")
  <2>1. /\ claim' = [claim EXCEPT ![c] = "answered"]
        /\ answer' = [answer EXCEPT ![c] = e]
        /\ attempt' = attempt
    BY <1>2 DEF Decide
  <2>2. \A b \in Claims : claim'[b] = "answered" <=> answer'[b] # "none"
    BY <1>1, <2>1 DEF ClaimTypeOK
  <2>3. LoopIsCounted'
    BY <2>1 DEF LoopIsCounted, ClaimTypeOK
  <2> QED BY <1>1, <2>1, <2>2, <2>3 DEF ClaimTypeOK, AnswersKept
<1>3. CASE claim' = [claim EXCEPT ![c] = "backoff"] /\ UNCHANGED <<answer, attempt>> /\ attempt[c] # MaxRetries
  <2> claim \in [Claims -> {"new", "running", "backoff", "answered", "lost"}]
    BY DEF ClaimTypeOK
  <2>3. attempt[c] \in 0 .. MaxRetries
    BY DEF ClaimTypeOK
  <2>4. attempt[c] < MaxRetries
    BY <1>3, <2>3
  <2>1. LoopIsCounted'
    BY <1>3, <2>4 DEF LoopIsCounted
  <2>2. \A b \in Claims : claim'[b] = "answered" <=> answer'[b] # "none"
    BY <1>1, <1>3 DEF ClaimTypeOK
  <2> QED BY <1>3, <2>1, <2>2 DEF ClaimTypeOK, AnswersKept
<1>4. CASE Decide(c, "error")
  BY <1>1, <1>2, <1>4
<1>5. CASE Decide(c, d)
  BY <1>2, <1>5
<1> QED BY <1>3, <1>4, <1>5 DEF FailTransiently

(* The time limit of an attempt passes: nothing about the chain changes.   *)
LEMMA TimeOutCorrect ==
    ASSUME ClaimInv, NEW c \in Claims, TimeOut(c)
    PROVE  ClaimInv' /\ AnswersKept
<1> USE DEF ClaimInv
<1>1. /\ UNCHANGED <<target, at, fresh, tracked, tx, nft>>
      /\ FailTransiently(c) /\ claim[c] = "running"
  BY DEF TimeOut, attemptVars, networkVars
<1>2. "error" \in Decisions
  BY DEF Decisions
<1>3. /\ claim' \in [Claims -> {"new", "running", "backoff", "answered", "lost"}]
      /\ answer' \in [Claims -> Decisions \cup {"none"}]
      /\ attempt' = attempt
      /\ \A b \in Claims : claim'[b] = "answered" <=> answer'[b] # "none"
      /\ LoopIsCounted'
      /\ AnswersKept
      /\ \A b \in Claims : answer'[b] = "confirmed" => answer[b] = "confirmed"
  BY <1>1, <1>2, LoopEffect
<1>4. ClaimTypeOK'
  BY <1>1, <1>3 DEF ClaimTypeOK, NFT!NftTypeOK
<1>5. SentHasRecipient' /\ SuccessIsMinted' /\ MintedOnce'
  BY <1>1 DEF SentHasRecipient, SuccessIsMinted, BadgeOf, MintedOnce
<1>6. ConfirmedHasRecipient' /\ ConfirmedIsMinted'
  BY <1>1, <1>3 DEF ConfirmedHasRecipient, ConfirmedIsMinted
<1> QED BY <1>3, <1>4, <1>5, <1>6

(* An attempt returns.  What it tells the claim is true of the chain, and  *)
(* it ends up with nothing to poll for.                                    *)
LEMMA ReturnCorrect ==
    ASSUME ClaimInv, NEW t \in Txs, NEW outcome \in Decisions \cup {"transient"},
           Return(t, outcome), UNCHANGED <<target, nft>>,
           tx' = tx \/ (target[t[1]] \in Players /\ tx' = [tx EXCEPT ![t] = "inflight"]),
           outcome = "confirmed" =>
              target[t[1]] \in Players /\ BadgeOf(target[t[1]]) = Custodian
    PROVE  ClaimInv' /\ AnswersKept
<1> USE DEF ClaimInv
<1>1. t[1] \in Claims
  BY Constants
<1>2. /\ at' = [at EXCEPT ![t] = "ended"]
      /\ tracked' = [tracked EXCEPT ![t] = NoTx]
      /\ fresh' = fresh \ {t}
      /\ Deliver(t, outcome)
  BY DEF Return
<1>3. /\ claim' \in [Claims -> {"new", "running", "backoff", "answered", "lost"}]
      /\ answer' \in [Claims -> Decisions \cup {"none"}]
      /\ attempt' = attempt
      /\ \A b \in Claims : claim'[b] = "answered" <=> answer'[b] # "none"
      /\ LoopIsCounted'
      /\ AnswersKept
      /\ \A b \in Claims : answer'[b] = "confirmed" =>
            answer[b] = "confirmed" \/ (b = t[1] /\ outcome = "confirmed")
  <2>1. CASE UNCHANGED claimVars
    BY <2>1 DEF claimVars, ClaimTypeOK, LoopIsCounted, AnswersKept
  <2>2. CASE claim[t[1]] = "running" /\ outcome = "transient" /\ FailTransiently(t[1])
    <3>1. "error" \in Decisions
      BY DEF Decisions
    <3> QED BY <1>1, <2>2, <3>1, LoopEffect
  <2>3. CASE claim[t[1]] = "running" /\ outcome # "transient" /\ Decide(t[1], outcome)
    <3>1. outcome \in Decisions
      BY <2>3
    <3> QED BY <1>1, <2>3, <3>1, LoopEffect
  <2> QED BY <1>2, <2>1, <2>2, <2>3 DEF Deliver, Awaited
<1>4. \A u \in Txs : tx'[u] = tx[u] \/ (u = t /\ tx'[u] = "inflight" /\ target[t[1]] \in Players)
  BY DEF ClaimTypeOK
<1>5. ClaimTypeOK'
  <2>1. NFT!NftTypeOK'
    BY DEF ClaimTypeOK, NFT!NftTypeOK
  <2>2. tx' \in [Txs -> {"unsent", "inflight", "dropped", "success", "failed"}]
    BY DEF ClaimTypeOK
  <2>3. /\ at' \in [Txs -> {"none", "build", "submit", "confirm", "ended"}]
        /\ tracked' \in [Txs -> Txs \cup {NoTx}]
        /\ fresh' \subseteq Txs
    BY <1>2 DEF ClaimTypeOK
  <2> QED BY <1>3, <2>1, <2>2, <2>3 DEF ClaimTypeOK
<1>6. SentHasRecipient'
  <2>1. \A u \in Txs : /\ at'[u] = IF u = t THEN "ended" ELSE at[u]
                       /\ u # t => tracked'[u] = tracked[u]
    BY <1>2 DEF ClaimTypeOK
  <2> QED BY <1>4, <2>1 DEF SentHasRecipient
<1>7. SuccessIsMinted' /\ MintedOnce'
  BY <1>4 DEF SuccessIsMinted, BadgeOf, MintedOnce
<1>8. ConfirmedHasRecipient' /\ ConfirmedIsMinted'
  BY <1>3 DEF ConfirmedHasRecipient, ConfirmedIsMinted, BadgeOf
<1> QED BY <1>3, <1>5, <1>6, <1>7, <1>8

(* The steps of an attempt that do not return from it. *)
LEMMA SendCorrect ==
    ASSUME ClaimInv, NEW t \in Txs,
           \/ Build(t) \/ Submit(t)
           \/ \E u \in Txs : SubmitDuplicate(t, u)
    PROVE  ClaimInv' /\ AnswersKept
<1> USE DEF ClaimInv
<1>1. /\ UNCHANGED <<target, claim, answer, attempt, nft>>
      /\ target[t[1]] \in Players
  <2>1. t[1] \in Claims
    BY Constants
  <2>2. at[t] = "submit" => target[t[1]] \in Players
    BY DEF SentHasRecipient
  <2>3. target[t[1]] # NoOne => target[t[1]] \in Players
    BY <2>1 DEF ClaimTypeOK
  <2> QED BY <2>2, <2>3 DEF Build, Submit, SubmitDuplicate, claimVars, networkVars
<1>2. /\ \A u \in Txs : u # t => at'[u] = at[u] /\ tracked'[u] = tracked[u]
      /\ at'[t] = "confirm" => tracked'[t] \in Txs /\ target[tracked'[t][1]] = target[t[1]]
      /\ at' \in [Txs -> {"none", "build", "submit", "confirm", "ended"}]
      /\ tracked' \in [Txs -> Txs \cup {NoTx}]
      /\ fresh' \subseteq Txs
  <2>1. CASE Build(t)
    BY <2>1 DEF Build, ClaimTypeOK
  <2>2. CASE Submit(t)
    BY <2>2 DEF Submit, ClaimTypeOK
  <2>3. CASE \E u \in Txs : SubmitDuplicate(t, u)
    BY <2>3 DEF SubmitDuplicate, ClaimTypeOK
  <2> QED BY <2>1, <2>2, <2>3
<1>3. /\ \A u \in Txs : tx'[u] = tx[u] \/ (u = t /\ tx'[u] = "inflight")
      /\ tx' \in [Txs -> {"unsent", "inflight", "dropped", "success", "failed"}]
  BY DEF Build, Submit, SubmitDuplicate, Accepts, networkVars, ClaimTypeOK
<1>4. ClaimTypeOK'
  BY <1>1, <1>2, <1>3 DEF ClaimTypeOK, NFT!NftTypeOK
<1>5. SentHasRecipient'
  BY <1>1, <1>2, <1>3 DEF SentHasRecipient
<1>6. SuccessIsMinted' /\ MintedOnce'
  BY <1>1, <1>3 DEF SuccessIsMinted, BadgeOf, MintedOnce
<1>7. LoopIsCounted' /\ ConfirmedHasRecipient' /\ ConfirmedIsMinted' /\ AnswersKept
  BY <1>1 DEF LoopIsCounted, ConfirmedHasRecipient, ConfirmedIsMinted, AnswersKept
<1> QED BY <1>4, <1>5, <1>6, <1>7

(* The steps of an attempt that return from it. *)
LEMMA AttemptStepCorrect ==
    ASSUME ClaimInv, NEW t \in Txs, AttemptStep(t)
    PROVE  ClaimInv' /\ AnswersKept
<1>1. CASE Build(t) \/ Submit(t) \/ \E u \in Txs : SubmitDuplicate(t, u)
  BY <1>1, SendCorrect
<1>2. CASE SubmitErrs(t)
  <2>1. target[t[1]] \in Players
    BY <1>2 DEF SubmitErrs, ClaimInv, SentHasRecipient
  <2>2. /\ Return(t, "transient") /\ UNCHANGED <<target, nft>>
        /\ tx' = tx \/ tx' = [tx EXCEPT ![t] = "inflight"]
    BY <1>2 DEF SubmitErrs, Accepts
  <2> QED BY <2>1, <2>2, ReturnCorrect
<1>3. CASE Confirm(t)
  <2>1. /\ Return(t, "confirmed") /\ UNCHANGED <<target, nft, tx>>
        /\ at[t] = "confirm" /\ tx[tracked[t]] = "success"
    BY <1>3 DEF Confirm, networkVars
  <2>2. tracked[t] \in Txs /\ target[tracked[t][1]] = target[t[1]] /\ target[t[1]] \in Players
    BY <2>1 DEF ClaimInv, SentHasRecipient
  <2>3. BadgeOf(target[t[1]]) = Custodian
    BY <2>1, <2>2 DEF ClaimInv, SuccessIsMinted
  <2>4. "confirmed" \in Decisions
    BY DEF Decisions
  <2> QED BY <2>1, <2>2, <2>3, <2>4, ReturnCorrect
<1>4. CASE RejectInput(t) \/ BuildFails(t) \/ SubmitRejected(t) \/ ContractRejects(t) \/ GiveUpPolling(t)
  <2>1. PICK outcome \in {"rejected", "transient", "pending"} :
           Return(t, outcome) /\ UNCHANGED <<target, nft, tx>>
    BY <1>4 DEF RejectInput, BuildFails, SubmitRejected, ContractRejects, GiveUpPolling, networkVars
  <2>2. outcome \in Decisions \cup {"transient"} /\ outcome # "confirmed"
    BY DEF Decisions
  <2> QED BY <2>1, <2>2, ReturnCorrect
<1> QED BY <1>1, <1>2, <1>3, <1>4 DEF AttemptStep

-----------------------------------------------------------------------------
(* The chain. *)

(* Where badges only appear, what was minted by the custodian stays so. *)
LEMMA BadgesStay ==
    ASSUME ClaimInv, UNCHANGED <<target, claimVars, at, tracked>>,
           NFT!NftTypeOK', fresh' \subseteq Txs,
           tx' \in [Txs -> {"unsent", "inflight", "dropped", "success", "failed"}],
           \A u \in Txs : tx'[u] # "unsent" => tx[u] # "unsent",
           \A r \in Players : BadgeOf(r) = Custodian => BadgeOf(r)' = Custodian
    PROVE  /\ ClaimTypeOK' /\ LoopIsCounted' /\ SentHasRecipient'
           /\ ConfirmedHasRecipient' /\ ConfirmedIsMinted' /\ AnswersKept
<1> USE DEF ClaimInv, claimVars
<1>1. ClaimTypeOK'
  BY DEF ClaimTypeOK
<1>2. SentHasRecipient'
  BY DEF SentHasRecipient
<1>3. ConfirmedHasRecipient' /\ ConfirmedIsMinted'
  BY DEF ConfirmedHasRecipient, ConfirmedIsMinted, BadgeOf
<1> QED BY <1>1, <1>2, <1>3 DEF LoopIsCounted, AnswersKept

(* A transaction that is included mints a badge its recipient did not      *)
(* have, so that no earlier one minted for the same recipient.             *)
LEMMA IncludeCorrect ==
    ASSUME ClaimInv, NEW t \in Txs, IncludeTx(t)
    PROVE  ClaimInv' /\ AnswersKept
<1> USE DEF ClaimInv
<1>1. /\ UNCHANGED <<target, claimVars, at, tracked>>
      /\ tx[t] = "inflight" /\ fresh' = {}
  BY DEF IncludeTx, Included
<1>2. target[t[1]] \in Players
  BY <1>1 DEF SentHasRecipient
<1>3. CASE Included(t, "success") /\ Mints(t)
  <2> DEFINE p == target[t[1]]
  <2>1. /\ NFT!NftTypeOK'
        /\ BadgeOf(p) = NoOne
        /\ \A r \in Players : BadgeOf(r)' = IF r = p THEN Custodian ELSE BadgeOf(r)
    <3>1. NFT!NftTypeOK
      BY DEF ClaimTypeOK
    <3>2. PICK r \in Players : r = p
      BY <1>2
    <3>3. NFT!MintLevelBadge(Contract, Custodian, r, Level)
      BY <1>3, <3>2 DEF Mints
    <3>4. /\ NFT!NftTypeOK'
          /\ BadgeOf(r) = NoOne
          /\ \A q \in Players : BadgeOf(q)' = IF q = r THEN Custodian ELSE BadgeOf(q)
      BY <3>1, <3>3, MintEffect
    <3> QED BY <3>2, <3>4
  <2>2. /\ tx' \in [Txs -> {"unsent", "inflight", "dropped", "success", "failed"}]
        /\ \A u \in Txs : /\ tx'[u] = "success" => u = t \/ tx[u] = "success"
                          /\ tx'[u] # "unsent" => tx[u] # "unsent"
    BY <1>1, <1>3 DEF Included, ClaimTypeOK
  <2> HIDE DEF p
  <2>3. \A r \in Players : BadgeOf(r) = Custodian => BadgeOf(r)' = Custodian
    BY <2>1
  <2>4. /\ ClaimTypeOK' /\ LoopIsCounted' /\ SentHasRecipient'
        /\ ConfirmedHasRecipient' /\ ConfirmedIsMinted' /\ AnswersKept
    BY <1>1, <2>1, <2>2, <2>3, BadgesStay
  <2>5. \A u \in Txs : tx[u] = "success" =>
           target[u[1]] \in Players /\ BadgeOf(target[u[1]]) = Custodian /\ target[u[1]] # p
    BY <2>1, Constants DEF SentHasRecipient, SuccessIsMinted
  <2>6. SuccessIsMinted'
    <3>1. ASSUME NEW u \in Txs, tx'[u] = "success"
          PROVE  BadgeOf(target[u[1]])' = Custodian
      <4>1. target'[u[1]] = target[u[1]] /\ target[u[1]] \in Players
        BY <1>1, <1>2, <2>2, <2>5, <3>1
      <4>2. BadgeOf(target[u[1]]) = Custodian \/ target[u[1]] = p
        BY <2>2, <2>5, <3>1 DEF p
      <4>3. nft'[Contract].badge[target[u[1]]][Level] = Custodian
        BY <2>1, <4>1, <4>2 DEF BadgeOf
      <4> QED BY <4>1, <4>3 DEF BadgeOf
    <3> QED BY <3>1 DEF SuccessIsMinted
  <2>7. MintedOnce'
    BY <1>1, <2>2, <2>5 DEF MintedOnce, p
  <2> QED BY <2>4, <2>6, <2>7
<1>4. CASE Included(t, "failed") /\ UNCHANGED nft
  <2>1. /\ tx' \in [Txs -> {"unsent", "inflight", "dropped", "success", "failed"}]
        /\ \A u \in Txs : /\ tx'[u] = "success" => tx[u] = "success"
                          /\ tx'[u] # "unsent" => tx[u] # "unsent"
    BY <1>1, <1>4 DEF Included, ClaimTypeOK
  <2>2. NFT!NftTypeOK'
    BY <1>4 DEF ClaimTypeOK, NFT!NftTypeOK
  <2>3. \A r \in Players : BadgeOf(r) = Custodian => BadgeOf(r)' = Custodian
    BY <1>4 DEF BadgeOf
  <2>4. /\ ClaimTypeOK' /\ LoopIsCounted' /\ SentHasRecipient'
        /\ ConfirmedHasRecipient' /\ ConfirmedIsMinted' /\ AnswersKept
    BY <1>1, <2>1, <2>2, <2>3, BadgesStay
  <2>5. SuccessIsMinted' /\ MintedOnce'
    BY <1>1, <1>4, <2>1 DEF SuccessIsMinted, BadgeOf, MintedOnce
  <2> QED BY <2>4, <2>5
<1> QED BY <1>3, <1>4 DEF IncludeTx

(* The custodian's role, and badges the game mints. *)
LEMMA ContractStepCorrect ==
    ASSUME ClaimInv, ContractStep
    PROVE  ClaimInv' /\ AnswersKept
<1> USE DEF ClaimInv
<1>1. UNCHANGED <<target, claimVars, at, tracked, fresh, tx>>
  BY DEF ContractStep, attemptVars
<1>2. NFT!NftTypeOK
  BY DEF ClaimTypeOK
<1>3. NFT!NftTypeOK' /\ \A r \in Players : BadgeOf(r) = Custodian => BadgeOf(r)' = Custodian
  <2>1. CASE NFT!GrantMinterRole(Contract, Custodian) \/ NFT!RevokeMinterRole(Contract, Custodian)
    <3>1. NFT!NftTypeOK' /\ \A r \in Players : BadgeOf(r)' = BadgeOf(r)
      BY <1>2, <2>1, RoleEffect
    <3> QED BY <3>1
  <2>2. ASSUME NEW p \in Players, NFT!MintLevelBadge(Contract, Game, p, Level)
        PROVE  NFT!NftTypeOK' /\ \A r \in Players : BadgeOf(r) = Custodian => BadgeOf(r)' = Custodian
    <3>1. /\ NFT!NftTypeOK'
          /\ BadgeOf(p) = NoOne
          /\ \A r \in Players : BadgeOf(r)' = IF r = p THEN Game ELSE BadgeOf(r)
      BY <1>2, <2>2, MintEffect
    <3> QED BY <3>1, Constants
  <2> QED BY <2>1, <2>2 DEF ContractStep
<1>4. /\ ClaimTypeOK' /\ LoopIsCounted' /\ SentHasRecipient'
      /\ ConfirmedHasRecipient' /\ ConfirmedIsMinted' /\ AnswersKept
  BY <1>1, <1>3, BadgesStay DEF ClaimTypeOK
<1>5. SuccessIsMinted'
  BY <1>1, <1>3 DEF SuccessIsMinted, SentHasRecipient, BadgeOf
<1>6. MintedOnce'
  BY <1>1 DEF MintedOnce
<1> QED BY <1>4, <1>5, <1>6

(* A transaction expires. *)
LEMMA ExpireCorrect ==
    ASSUME ClaimInv, NEW t \in Txs, Expire(t)
    PROVE  ClaimInv' /\ AnswersKept
<1> USE DEF ClaimInv
<1>1. /\ UNCHANGED <<target, claimVars, at, tracked, fresh, nft>>
      /\ tx[t] = "inflight" /\ tx' = [tx EXCEPT ![t] = "dropped"]
  BY DEF Expire, attemptVars
<1>2. /\ tx' \in [Txs -> {"unsent", "inflight", "dropped", "success", "failed"}]
      /\ \A u \in Txs : /\ tx'[u] = "success" => tx[u] = "success"
                        /\ tx'[u] # "unsent" => tx[u] # "unsent"
  BY <1>1 DEF ClaimTypeOK
<1>3. NFT!NftTypeOK' /\ \A r \in Players : BadgeOf(r) = Custodian => BadgeOf(r)' = Custodian
  BY <1>1 DEF ClaimTypeOK, NFT!NftTypeOK, BadgeOf
<1>4. /\ ClaimTypeOK' /\ LoopIsCounted' /\ SentHasRecipient'
      /\ ConfirmedHasRecipient' /\ ConfirmedIsMinted' /\ AnswersKept
  BY <1>1, <1>2, <1>3, BadgesStay DEF ClaimTypeOK
<1>5. SuccessIsMinted' /\ MintedOnce'
  BY <1>1, <1>2 DEF SuccessIsMinted, BadgeOf, MintedOnce
<1> QED BY <1>4, <1>5

(* A restart ends every attempt and loses the callers, not the chain. *)
LEMMA RestartCorrect ==
    ASSUME ClaimInv, Restart
    PROVE  ClaimInv' /\ AnswersKept
<1> USE DEF ClaimInv
<1>1. UNCHANGED <<target, answer, attempt, tx, nft>>
  BY DEF Restart, networkVars
<1>2. \A c \in Claims : claim'[c] = claim[c] \/ (claim[c] \in {"running", "backoff"} /\ claim'[c] = "lost")
  BY DEF Restart
<1>3. /\ claim' \in [Claims -> {"new", "running", "backoff", "answered", "lost"}]
      /\ at' \in [Txs -> {"none", "build", "submit", "confirm", "ended"}]
      /\ fresh' = {}
      /\ tracked' \in [Txs -> Txs \cup {NoTx}]
      /\ \A t \in Txs : at'[t] \in {"none", "ended"}
  BY DEF Restart, ClaimTypeOK
<1>4. \A c \in Claims : claim'[c] = "answered" <=> answer'[c] # "none"
  BY <1>1, <1>2 DEF ClaimTypeOK
<1>5. ClaimTypeOK'
  BY <1>1, <1>3, <1>4 DEF ClaimTypeOK, NFT!NftTypeOK
<1>6. LoopIsCounted'
  BY <1>1, <1>2 DEF LoopIsCounted
<1>7. SentHasRecipient'
  BY <1>1, <1>3 DEF SentHasRecipient
<1>8. SuccessIsMinted' /\ ConfirmedHasRecipient' /\ ConfirmedIsMinted' /\ MintedOnce' /\ AnswersKept
  BY <1>1 DEF SuccessIsMinted, BadgeOf, ConfirmedHasRecipient, ConfirmedIsMinted, MintedOnce, AnswersKept
<1> QED BY <1>5, <1>6, <1>7, <1>8

(* At first nothing was asked for or sent. *)
LEMMA ClaimInitCorrect == Init => ClaimInv
<1> SUFFICES ASSUME Init PROVE ClaimInv
  OBVIOUS
<1>1. NFT!NftTypeOK
  BY DEF Init, NFT!NftTypeOK, NFT!NftRecord
<1>2. ClaimTypeOK
  BY <1>1, Constants DEF Init, ClaimTypeOK, Decisions
<1>3. LoopIsCounted /\ SentHasRecipient /\ SuccessIsMinted
  BY DEF Init, LoopIsCounted, SentHasRecipient, SuccessIsMinted
<1>4. ConfirmedHasRecipient /\ ConfirmedIsMinted /\ MintedOnce
  BY DEF Init, ConfirmedHasRecipient, ConfirmedIsMinted, MintedOnce
<1> QED BY <1>2, <1>3, <1>4 DEF ClaimInv

LEMMA ClaimStutter ==
    ASSUME ClaimInv, UNCHANGED vars
    PROVE  ClaimInv' /\ AnswersKept
<1> USE DEF ClaimInv, vars, claimVars, attemptVars, networkVars
<1>1. ClaimTypeOK' /\ LoopIsCounted' /\ SentHasRecipient'
  BY DEF ClaimTypeOK, NFT!NftTypeOK, LoopIsCounted, SentHasRecipient
<1>2. SuccessIsMinted' /\ ConfirmedHasRecipient' /\ ConfirmedIsMinted' /\ MintedOnce' /\ AnswersKept
  BY DEF SuccessIsMinted, BadgeOf, ConfirmedHasRecipient, ConfirmedIsMinted, MintedOnce, AnswersKept
<1> QED BY <1>1, <1>2

LEMMA ClaimStepCorrect ==
    ASSUME ClaimInv, [Next]_vars
    PROVE  ClaimInv' /\ AnswersKept
<1>1. ASSUME NEW c \in Claims, Request(c) \/ Retry(c) \/ TimeOut(c)
      PROVE  ClaimInv' /\ AnswersKept
  BY <1>1, StartCorrect, TimeOutCorrect
<1>2. ASSUME NEW t \in Txs, AttemptStep(t) \/ IncludeTx(t) \/ Expire(t)
      PROVE  ClaimInv' /\ AnswersKept
  BY <1>2, AttemptStepCorrect, IncludeCorrect, ExpireCorrect
<1> QED BY <1>1, <1>2, ContractStepCorrect, RestartCorrect, ClaimStutter DEF Next

-----------------------------------------------------------------------------

(* The inductive invariant of claims, transactions and badges. *)
THEOREM ClaimInvariance == Spec => []ClaimInv
<1>1. ClaimInv /\ [Next]_vars => ClaimInv'
  BY ClaimStepCorrect
<1> QED BY <1>1, ClaimInitCorrect, PTL DEF Spec

(* Every value keeps its type, no claim makes more than MaxRetries         *)
(* attempts, and exactly the answered claims have an answer.               *)
THEOREM ClaimTypeCorrect == Spec => []ClaimTypeOK
<1>1. ClaimInv => ClaimTypeOK
  BY DEF ClaimInv
<1> QED BY <1>1, ClaimInvariance, PTL

(* A claim is reported as confirmed only if its recipient owns the badge   *)
(* by the custodian's hand.                                                *)
THEOREM ConfirmedCorrect == Spec => []ConfirmedIsMinted
<1>1. ClaimInv => ConfirmedIsMinted
  BY DEF ClaimInv
<1> QED BY <1>1, ClaimInvariance, PTL

(* Retries, abandoned attempts and duplicate requests never mint twice for *)
(* one recipient.                                                          *)
THEOREM MintedOnceCorrect == Spec => []MintedOnce
<1>1. ClaimInv => MintedOnce
  BY DEF ClaimInv
<1> QED BY <1>1, ClaimInvariance, PTL

(* No step changes an answer that was given, not even the return of an     *)
(* attempt that had been abandoned.                                        *)
THEOREM AnsweredOnceCorrect == Spec => AnsweredOnce
<1>1. ClaimInv /\ [Next]_vars => [AnswersKept]_vars
  BY ClaimStepCorrect
<1> QED BY <1>1, ClaimInvariance, PTL DEF Spec, AnsweredOnce, AnswersKept
=============================================================================
