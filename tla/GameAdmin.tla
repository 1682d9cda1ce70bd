------------------------------ MODULE GameAdmin ------------------------------
(***************************************************************************)
(* The settings of the StellarHunts game contract that its other entry     *)
(* points read: who administers it, whether it is paused, which NFT        *)
(* contract it mints on, and the recorded schema version.                  *)
(*                                                                         *)
(* A Soroban invocation is one atomic step: it either commits every write  *)
(* or panics and rolls all of them back.  An action below is a committed   *)
(* invocation; an invocation that panics changes nothing and is a          *)
(* stuttering step.  require_auth of an address is modelled by letting     *)
(* only that address take the step, so RequireAdmin reduces to "there is   *)
(* an admin".                                                              *)
(***************************************************************************)
EXTENDS Naturals, FiniteSets

CONSTANTS
    Accounts,       \* addresses that may administer a contract
    Roles,          \* Role::Minter, Role::Upgrader
    NftContracts,   \* deployed NFT contracts the game may be pointed at
    WasmHashes,     \* code that upgrade may install
    NoOne           \* an absent address entry

CurrentSchemaVersion == 2
LegacySchemaVersion  == 1

ASSUME NoOneIsNobody ==
    NoOne \notin (Accounts \cup NftContracts \cup WasmHashes)

VARIABLES
    admin, pendingAdmin, upgrader,  \* DataKey::Admin, PendingAdmin, Upgrader
    roles,                          \* the <<account, role>> pairs with a Role entry
    paused,                         \* DataKey::Paused
    schemaVersion,                  \* DataKey::SchemaVersion
    nftContract,                    \* DataKey::NftContract
    wasm                            \* the code last installed by upgrade

adminVars == <<admin, pendingAdmin, upgrader, roles, paused, schemaVersion,
               nftContract, wasm>>

AdminTypeOK ==
    /\ {admin, pendingAdmin, upgrader} \subseteq Accounts \cup {NoOne}
    /\ roles \subseteq Accounts \X Roles
    /\ paused \in BOOLEAN
    /\ schemaVersion \in 0 .. CurrentSchemaVersion
    /\ nftContract \in NftContracts \cup {NoOne}
    /\ wasm \in WasmHashes \cup {NoOne}

(* A new deployment, or one whose state was written before the versioned   *)
(* records existed: it has an admin but no Upgrader entry.                 *)
AdminInit ==
    /\ pendingAdmin = NoOne /\ upgrader = NoOne /\ wasm = NoOne
    /\ roles = {} /\ paused = FALSE /\ nftContract = NoOne
    /\ \/ admin = NoOne /\ schemaVersion = 0
       \/ admin \in Accounts /\ schemaVersion = LegacySchemaVersion

RequireAdmin == admin # NoOne

(* Checked by the player entry points before anything else. *)
NotPaused == ~paused

-----------------------------------------------------------------------------

GameInit(a) ==
    /\ admin = NoOne
    /\ admin' = a /\ upgrader' = a
    /\ schemaVersion' = CurrentSchemaVersion
    /\ UNCHANGED <<pendingAdmin, roles, paused, nftContract, wasm>>

SetUpgrader(a) ==
    /\ RequireAdmin
    /\ upgrader' = a
    /\ UNCHANGED <<admin, pendingAdmin, roles, paused, schemaVersion, nftContract, wasm>>

(* get_upgrader falls back to the admin when no upgrader was recorded. *)
Upgrade(h) ==
    /\ upgrader # NoOne \/ admin # NoOne
    /\ wasm' = h
    /\ UNCHANGED <<admin, pendingAdmin, upgrader, roles, paused, schemaVersion, nftContract>>

ProposeAdmin(a) ==
    /\ RequireAdmin
    /\ pendingAdmin' = a
    /\ UNCHANGED <<admin, upgrader, roles, paused, schemaVersion, nftContract, wasm>>

AcceptAdmin ==
    /\ pendingAdmin # NoOne /\ admin # NoOne
    /\ admin' = pendingAdmin /\ pendingAdmin' = NoOne
    /\ UNCHANGED <<upgrader, roles, paused, schemaVersion, nftContract, wasm>>

GrantRole(a, r) ==
    /\ RequireAdmin
    /\ roles' = roles \cup {<<a, r>>}
    /\ UNCHANGED <<admin, pendingAdmin, upgrader, paused, schemaVersion, nftContract, wasm>>

RevokeRole(a, r) ==
    /\ RequireAdmin
    /\ roles' = roles \ {<<a, r>>}
    /\ UNCHANGED <<admin, pendingAdmin, upgrader, paused, schemaVersion, nftContract, wasm>>

SetNftContractAddress(c) ==
    /\ RequireAdmin
    /\ nftContract' = c
    /\ UNCHANGED <<admin, pendingAdmin, upgrader, roles, paused, schemaVersion, wasm>>

SetPaused(b) ==
    /\ RequireAdmin
    /\ paused' = b
    /\ UNCHANGED <<admin, pendingAdmin, upgrader, roles, schemaVersion, nftContract, wasm>>

(* migrate_schema(from_version, batch_size) with a non-zero batch_size.  It *)
(* only stamps the version; records migrate when they are next written.    *)
MigrateSchema(from) ==
    /\ RequireAdmin
    /\ schemaVersion = from
    /\ schemaVersion' = CurrentSchemaVersion
    /\ UNCHANGED <<admin, pendingAdmin, upgrader, roles, paused, nftContract, wasm>>

AdminNext ==
    \/ \E a \in Accounts : GameInit(a) \/ SetUpgrader(a) \/ ProposeAdmin(a)
    \/ AcceptAdmin
    \/ \E a \in Accounts, r \in Roles : GrantRole(a, r) \/ RevokeRole(a, r)
    \/ \E h \in WasmHashes : Upgrade(h)
    \/ \E c \in NftContracts : SetNftContractAddress(c)
    \/ \E b \in BOOLEAN : SetPaused(b)
    \/ \E v \in 0 .. CurrentSchemaVersion : MigrateSchema(v)
=============================================================================
