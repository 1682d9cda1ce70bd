--------------------------- MODULE StellarHuntsNft ---------------------------
(***************************************************************************)
(* The badge contract.  Several deployments may exist, because the game    *)
(* can be pointed at another one, so the state is a function of the        *)
(* contract's address.  A badge or puzzle reward entry is modelled by the  *)
(* minter recorded in it; NoOne stands for a missing entry.                *)
(***************************************************************************)
EXTENDS Naturals

CONSTANTS
    Accounts,       \* addresses that may administer a contract
    Players,        \* addresses that may own badges
    Minters,        \* the game and any other address that may mint
    NftContracts,
    NftLevels,      \* badge levels
    PuzzleIds,
    NoOne

VARIABLE nft

NftRecord ==
    [admin    : Accounts \cup {NoOne},
     pending  : Accounts \cup {NoOne},
     paused   : BOOLEAN,
     minters  : SUBSET Minters,
     badge    : [Players -> [NftLevels -> Minters \cup {NoOne}]],
     reward   : [Players -> [PuzzleIds -> Minters \cup {NoOne}]]]

NftTypeOK == nft \in [NftContracts -> NftRecord]

NftInit ==
    nft = [c \in NftContracts |->
             [admin |-> NoOne, pending |-> NoOne, paused |-> FALSE, minters |-> {},
              badge  |-> [p \in Players |-> [l \in NftLevels |-> NoOne]],
              reward |-> [p \in Players |-> [q \in PuzzleIds |-> NoOne]]]]

Initialized(c) == nft[c].admin # NoOne

(* init(admin, game_contract, ...): the game is a minter from the start. *)
InitNft(c, a, game) ==
    /\ ~Initialized(c)
    /\ nft' = [nft EXCEPT ![c] = [nft[c] EXCEPT !.admin = a, !.minters = @ \cup {game}]]

ProposeNftAdmin(c, a) ==
    /\ Initialized(c)
    /\ nft' = [nft EXCEPT ![c].pending = a]

AcceptNftAdmin(c) ==
    /\ Initialized(c)
    /\ nft[c].pending # NoOne
    /\ nft' = [nft EXCEPT ![c] = [nft[c] EXCEPT !.admin = nft[c].pending, !.pending = NoOne]]

SetNftPaused(c, b) ==
    /\ Initialized(c)
    /\ nft' = [nft EXCEPT ![c].paused = b]

GrantMinterRole(c, m) ==
    /\ Initialized(c)
    /\ nft' = [nft EXCEPT ![c].minters = @ \cup {m}]

RevokeMinterRole(c, m) ==
    /\ Initialized(c)
    /\ nft' = [nft EXCEPT ![c].minters = @ \ {m}]

CanMint(c, m) == ~nft[c].paused /\ m \in nft[c].minters

HasLevelBadge(c, p, l) == nft[c].badge[p][l] # NoOne

(* A slip: an existing badge is not looked for. *)
MintLevelBadgeAgain(c, m, p, l) ==
    /\ CanMint(c, m)
    /\ Initialized(c)
    /\ nft' = [nft EXCEPT ![c].badge[p][l] = m]

(* mint_level_badge, called by the game on behalf of a player or directly  *)
(* by another registered minter (the backend's custodian).                 *)
MintLevelBadge(c, m, p, l) ==
    /\ CanMint(c, m)
    /\ Initialized(c)
    /\ ~HasLevelBadge(c, p, l)
    /\ nft' = [nft EXCEPT ![c].badge[p][l] = m]

(* mint_puzzle_reward_nft: unlike a level badge it does not read the admin. *)
MintPuzzleReward(c, m, p, q) ==
    /\ CanMint(c, m)
    /\ nft[c].reward[p][q] = NoOne
    /\ nft' = [nft EXCEPT ![c].reward[p][q] = m]

(* The administration of one contract. *)
NftAdminNext(c) ==
    \/ \E a \in Accounts, m \in Minters : InitNft(c, a, m)
    \/ \E a \in Accounts : ProposeNftAdmin(c, a)
    \/ AcceptNftAdmin(c)
    \/ \E b \in BOOLEAN : SetNftPaused(c, b)
    \/ \E m \in Minters : GrantMinterRole(c, m) \/ RevokeMinterRole(c, m)
=============================================================================
