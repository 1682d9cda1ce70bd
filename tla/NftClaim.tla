------------------------------ MODULE NftClaim -------------------------------
(***************************************************************************)
(* POST /nft-claim/claim in live mode: the backend mints a level badge     *)
(* from its custodian account.  A claim makes up to MaxRetries attempts.   *)
(* An attempt loads the custodian's sequence number, builds and signs a    *)
(* new transaction, submits it and polls for its result.  The claim waits  *)
(* for an attempt for a limited time; an attempt that timed out is not     *)
(* stopped and goes on in the background while the next one runs.          *)
(*                                                                         *)
(* The network is external: it may answer an accepted submission with an   *)
(* error, keep a transaction in flight, drop it, or include it.  The badge *)
(* contract is StellarHuntsNft.                                            *)
(***************************************************************************)
EXTENDS Naturals, FiniteSets

CONSTANTS
    Claims,         \* requests
    Players,        \* accounts that may be named as recipient
    Accounts,       \* administrators of the badge contract
    Contract,       \* SOROBAN_NFT_CONTRACT_ID
    Custodian, Game,\* the two minters of the badge contract
    Level,          \* the level all claims of a model are about
    MaxRetries,     \* maxRetries (3)
    HostRefuses,    \* whether transactions may be refused for their fee or footprint
    NoOne

Attempts  == 1 .. MaxRetries
Txs       == Claims \X Attempts     \* a transaction is named after the attempt that built it
NoTx      == <<NoOne, 0>>
Decisions == {"confirmed", "pending", "rejected", "error"}

ASSUME ClaimAssumption ==
    /\ MaxRetries \in Nat \ {0}
    /\ HostRefuses \in BOOLEAN
    /\ NoOne \notin Claims \cup Players \cup {Custodian, Game}

VARIABLES
    target,     \* recipient of each claim, NoOne if the request is malformed
    claim,      \* "new", "running", "backoff", "answered" or "lost"
    answer,     \* what the caller was told
    attempt,    \* number of the attempt the claim waits for
    at,         \* at[t]: where attempt t stands
    fresh,      \* attempts whose loaded sequence number nobody has used up since
    tracked,    \* tracked[t]: the transaction attempt t polls for
    tx,         \* tx[t]: what became of a transaction
    nft

claimVars   == <<claim, answer, attempt>>
attemptVars == <<at, fresh, tracked>>
networkVars == <<tx, nft>>
vars == <<target, claimVars, attemptVars, networkVars>>

NFT == INSTANCE StellarHuntsNft WITH
    Minters <- {Custodian, Game},
    NftContracts <- {Contract},
    NftLevels <- {Level},
    PuzzleIds <- {}

Init ==
    /\ target \in [Claims -> Players \cup {NoOne}]
    /\ claim = [c \in Claims |-> "new"]
    /\ answer = [c \in Claims |-> "none"]
    /\ attempt = [c \in Claims |-> 0]
    /\ at = [t \in Txs |-> "none"]
    /\ fresh = {}
    /\ tracked = [t \in Txs |-> NoTx]
    /\ tx = [t \in Txs |-> "unsent"]
    /\ \E a \in Accounts :
          nft = [c \in {Contract} |->
                   [admin |-> a, pending |-> NoOne, paused |-> FALSE,
                    minters |-> {Custodian, Game},
                    badge  |-> [p \in Players |-> [l \in {Level} |-> NoOne]],
                    reward |-> [p \in Players |-> [q \in {} |-> NoOne]]]]

-----------------------------------------------------------------------------
(* The retry loop of NFTClaimService.claimNFT. *)

Awaited(t) == claim[t[1]] = "running" /\ attempt[t[1]] = t[2]

StartAttempt(c) ==
    /\ claim' = [claim EXCEPT ![c] = "running"]
    /\ attempt' = [attempt EXCEPT ![c] = @ + 1]
    /\ at' = [at EXCEPT ![<<c, attempt[c] + 1>>] = "build"]

Request(c) ==
    /\ claim[c] = "new"
    /\ StartAttempt(c)
    /\ UNCHANGED <<target, answer, fresh, tracked, networkVars>>

Retry(c) ==
    /\ claim[c] = "backoff"
    /\ StartAttempt(c)
    /\ UNCHANGED <<target, answer, fresh, tracked, networkVars>>

Decide(c, decision) ==
    /\ claim' = [claim EXCEPT ![c] = "answered"]
    /\ answer' = [answer EXCEPT ![c] = decision]
    /\ UNCHANGED attempt

(* A slip: one attempt too many. *)
FailTransientlyOnceMore(c) ==
    IF attempt[c] = MaxRetries + 1
    THEN Decide(c, "error")
    ELSE claim' = [claim EXCEPT ![c] = "backoff"] /\ UNCHANGED <<answer, attempt>>

(* The catch clause, for everything but a BadRequestException. *)
FailTransiently(c) ==
    IF attempt[c] = MaxRetries
    THEN Decide(c, "error")
    ELSE claim' = [claim EXCEPT ![c] = "backoff"] /\ UNCHANGED <<answer, attempt>>

(* A slip: whatever an attempt returns is passed on, late or not. *)
DeliverLate(t, outcome) ==
    IF outcome = "transient"
    THEN IF Awaited(t) THEN FailTransiently(t[1]) ELSE UNCHANGED claimVars
    ELSE Decide(t[1], outcome)

(* What an attempt returns matters only while the claim waits for it. *)
Deliver(t, outcome) ==
    IF ~Awaited(t) THEN UNCHANGED claimVars
    ELSE IF outcome = "transient" THEN FailTransiently(t[1])
    ELSE Decide(t[1], outcome)

Return(t, outcome) ==
    /\ at' = [at EXCEPT ![t] = "ended"]
    /\ tracked' = [tracked EXCEPT ![t] = NoTx]
    /\ fresh' = fresh \ {t}
    /\ Deliver(t, outcome)

(* A slip: the time limit covers the submission only. *)
TimeOutBeforeSubmission(c) ==
    /\ claim[c] = "running"
    /\ at[<<c, attempt[c]>>] # "confirm"
    /\ FailTransiently(c)
    /\ UNCHANGED <<target, attemptVars, networkVars>>

(* operationTimeoutMs has passed; the attempt itself is left running. *)
TimeOut(c) ==
    /\ claim[c] = "running"
    /\ FailTransiently(c)
    /\ UNCHANGED <<target, attemptVars, networkVars>>

(* The backend process is replaced: callers get no answer. *)
Restart ==
    /\ claim' = [c \in Claims |-> IF claim[c] \in {"running", "backoff"} THEN "lost" ELSE claim[c]]
    /\ at' = [t \in Txs |-> IF at[t] = "none" THEN "none" ELSE "ended"]
    /\ tracked' = [t \in Txs |-> NoTx]
    /\ fresh' = {}
    /\ UNCHANGED <<target, answer, attempt, networkVars>>

-----------------------------------------------------------------------------
(* One attempt: StellarHandlerService.realClaimNFT. *)

(* parseLevel or resolveRecipient throws, before anything is sent. *)
RejectInput(t) ==
    /\ at[t] = "build"
    /\ target[t[1]] = NoOne
    /\ Return(t, "rejected")
    /\ UNCHANGED <<target, networkVars>>

(* getAccount, build and sign. *)
Build(t) ==
    /\ at[t] = "build"
    /\ target[t[1]] # NoOne
    /\ at' = [at EXCEPT ![t] = "submit"]
    /\ fresh' = fresh \cup {t}
    /\ UNCHANGED <<target, claimVars, tracked, networkVars>>

(* Missing configuration, or an error from getAccount. *)
BuildFails(t) ==
    /\ at[t] = "build"
    /\ target[t[1]] # NoOne
    /\ Return(t, "transient")
    /\ UNCHANGED <<target, networkVars>>

(* The RPC takes a transaction whose sequence number is not used up. *)
Accepts(t) == t \in fresh /\ tx' = [tx EXCEPT ![t] = "inflight"]

(* sendTransaction answers PENDING. *)
Submit(t) ==
    /\ at[t] = "submit"
    /\ Accepts(t)
    /\ at' = [at EXCEPT ![t] = "confirm"]
    /\ tracked' = [tracked EXCEPT ![t] = t]
    /\ fresh' = fresh \ {t}
    /\ UNCHANGED <<target, claimVars, nft>>

(* sendTransaction answers DUPLICATE: another claim for the same recipient *)
(* built the very same transaction in the same second.  Attempts of one    *)
(* claim are at least two seconds apart, and the time bounds differ.       *)
SubmitDuplicate(t, u) ==
    /\ at[t] = "submit"
    /\ t[1] # u[1] /\ target[t[1]] = target[u[1]]
    /\ t \in fresh /\ tx[u] = "inflight"
    /\ at' = [at EXCEPT ![t] = "confirm"]
    /\ tracked' = [tracked EXCEPT ![t] = u]
    /\ fresh' = fresh \ {t}
    /\ UNCHANGED <<target, claimVars, networkVars>>

(* sendTransaction throws, whether or not the transaction got through, or  *)
(* answers TRY_AGAIN_LATER.                                                *)
SubmitErrs(t) ==
    /\ at[t] = "submit"
    /\ Accepts(t) \/ UNCHANGED tx
    /\ Return(t, "transient")
    /\ UNCHANGED <<target, nft>>

(* sendTransaction answers ERROR: the sequence number was used up since it *)
(* was loaded, or the host refuses what this deployment sends.             *)
SubmitRejected(t) ==
    /\ at[t] = "submit"
    /\ t \notin fresh \/ HostRefuses
    /\ Return(t, "rejected")
    /\ UNCHANGED <<target, networkVars>>

(* A slip: an accepted transaction is taken for a confirmed one. *)
ConfirmUnseen(t) ==
    /\ at[t] = "confirm"
    /\ Return(t, "confirmed")
    /\ UNCHANGED <<target, networkVars>>

(* getTransaction answers SUCCESS. *)
Confirm(t) ==
    /\ at[t] = "confirm"
    /\ tx[tracked[t]] = "success"
    /\ Return(t, "confirmed")
    /\ UNCHANGED <<target, networkVars>>

(* getTransaction answers FAILED. *)
ContractRejects(t) ==
    /\ at[t] = "confirm"
    /\ tx[tracked[t]] = "failed"
    /\ Return(t, "rejected")
    /\ UNCHANGED <<target, networkVars>>

(* The confirmation deadline passes without a result having been seen. *)
GiveUpPolling(t) ==
    /\ at[t] = "confirm"
    /\ Return(t, "pending")
    /\ UNCHANGED <<target, networkVars>>

-----------------------------------------------------------------------------
(* The network and the badge contract. *)

(* A transaction in flight carries the next sequence number of the account *)
(* (Accepts).  When it is included it evicts the others in flight, and     *)
(* what has been loaded but not sent yet is stale.                         *)
Included(t, result) ==
    /\ tx[t] = "inflight"
    /\ tx' = [u \in Txs |-> CASE u = t -> result
                              [] u # t /\ tx[u] = "inflight" -> "dropped"
                              [] OTHER -> tx[u]]
    /\ fresh' = {}

Mints(t) == NFT!MintLevelBadge(Contract, Custodian, target[t[1]], Level)

MintRefused(p) ==
    \/ ~NFT!CanMint(Contract, Custodian)
    \/ NFT!HasLevelBadge(Contract, p, Level)

IncludeTx(t) ==
    /\ \/ Included(t, "success") /\ Mints(t)
       \/ Included(t, "failed") /\ MintRefused(target[t[1]]) /\ UNCHANGED nft
    /\ UNCHANGED <<target, claimVars, at, tracked>>

(* The time bounds of a transaction pass. *)
Expire(t) ==
    /\ tx[t] = "inflight"
    /\ tx' = [tx EXCEPT ![t] = "dropped"]
    /\ UNCHANGED <<target, claimVars, attemptVars, nft>>

(* The custodian loses or regains its role (or the contract is paused,     *)
(* which has the same effect on it), or the player claims the badge        *)
(* through the game.                                                       *)
ContractStep ==
    /\ \/ NFT!GrantMinterRole(Contract, Custodian)
       \/ NFT!RevokeMinterRole(Contract, Custodian)
       \/ \E p \in Players : NFT!MintLevelBadge(Contract, Game, p, Level)
    /\ UNCHANGED <<target, claimVars, attemptVars, tx>>

-----------------------------------------------------------------------------

AttemptStep(t) ==
    \/ RejectInput(t) \/ Build(t) \/ BuildFails(t)
    \/ Submit(t) \/ SubmitErrs(t) \/ SubmitRejected(t)
    \/ \E u \in Txs : SubmitDuplicate(t, u)
    \/ Confirm(t) \/ ContractRejects(t) \/ GiveUpPolling(t)

Next ==
    \/ \E c \in Claims : Request(c) \/ Retry(c) \/ TimeOut(c)
    \/ \E t \in Txs : AttemptStep(t) \/ IncludeTx(t) \/ Expire(t)
    \/ ContractStep
    \/ Restart

(* Only the backend's own timers are assumed to fire. *)
Fairness == \A c \in Claims : WF_vars(TimeOut(c)) /\ WF_vars(Retry(c))

Spec == Init /\ [][Next]_vars
FairSpec == Spec /\ Fairness

-----------------------------------------------------------------------------
(* Properties. *)

(* Every value has its type; an answer is given exactly to the claims that *)
(* are answered.                                                           *)
ClaimTypeOK ==
    /\ NFT!NftTypeOK
    /\ target \in [Claims -> Players \cup {NoOne}]
    /\ claim \in [Claims -> {"new", "running", "backoff", "answered", "lost"}]
    /\ answer \in [Claims -> Decisions \cup {"none"}]
    /\ attempt \in [Claims -> 0 .. MaxRetries]
    /\ at \in [Txs -> {"none", "build", "submit", "confirm", "ended"}]
    /\ fresh \subseteq Txs
    /\ tracked \in [Txs -> Txs \cup {NoTx}]
    /\ tx \in [Txs -> {"unsent", "inflight", "dropped", "success", "failed"}]
    /\ \A c \in Claims : claim[c] = "answered" <=> answer[c] # "none"

(* A confirmed claim minted: its recipient owns the badge, by the          *)
(* custodian's hand, also if the transaction was another claim's.          *)
ConfirmedIsMinted ==
    \A c \in Claims : answer[c] = "confirmed" =>
        nft[Contract].badge[target[c]][Level] = Custodian

(* However many attempts, abandoned attempts and duplicate requests are in *)
(* flight, one transaction per recipient mints.                            *)
MintedOnce ==
    \A t, u \in Txs : tx[t] = "success" /\ tx[u] = "success" =>
        t = u \/ target[t[1]] # target[u[1]]

(* A claim is answered once: an attempt that was given up does not change  *)
(* the answer when it returns after all.                                   *)
AnsweredOnce ==
    [][\A c \in Claims : answer[c] # "none" => answer'[c] = answer[c]]_vars

(* Every request is answered, however the network behaves, unless the      *)
(* backend is restarted.                                                   *)
EventuallyAnswered ==
    \A c \in Claims : claim[c] = "running" ~> claim[c] \in {"answered", "lost"}

(* The comment on realClaimNFT: a transport error is "safe to retry        *)
(* because a duplicate resubmission is detected by the RPC (same source    *)
(* account + sequence) and resolves to the original transaction", that is, *)
(* a claim whose own transaction minted is never reported as rejected.     *)
RetryResolvesToOriginal ==
    \A c \in Claims, k \in Attempts :
        tx[<<c, k>>] = "success" => answer[c] # "rejected"
=============================================================================
