----------------------------- MODULE WalletLogin -----------------------------
(***************************************************************************)
(* Proving a wallet to the backend: a challenge is created, answered once, *)
(* and starts a session or links the wallet to an account.  A request is a *)
(* chain of statements without a transaction, so that requests overlap.    *)
(* Signatures are taken as valid: what is left is the life of challenges,  *)
(* sessions and links.                                                     *)
(***************************************************************************)
EXTENDS Naturals, FiniteSets

CONSTANTS
    Wallets,            \* wallet addresses
    LoginAccounts,      \* accounts of users
    Challenges,         \* ids of the challenges ever created
    Logins              \* ids of the requests ever made

Null == "null"

ASSUME LoginAssumption ==
    Wallets # {} /\ Null \notin Wallets \cup LoginAccounts \cup Challenges

VARIABLES
    challenge,      \* challenge rows
    walletOf,       \* the wallet address in every account row
    registry,       \* addresses in the wallet table
    session,        \* the wallet session row a request has made
    login,          \* what every request does next, and what it is about
    answered        \* history: the request and challenge of every answer taken

loginVars == <<challenge, walletOf, registry, session, login, answered>>

AnyWallet == CHOOSE w \in Wallets : TRUE

LoginInit ==
    /\ challenge = [c \in Challenges |-> [state |-> "none", wallet |-> AnyWallet, expired |-> FALSE]]
    /\ walletOf = [a \in LoginAccounts |-> Null]
    /\ registry = {}
    /\ session = [r \in Logins |-> "none"]
    /\ login = [r \in Logins |-> [step |-> "none", wallet |-> AnyWallet,
                                  challenge |-> Null, account |-> Null]]
    /\ answered = {}

LoginAt(r, step) == login[r].step = step
LoginGoes(r, step) == login' = [login EXCEPT ![r].step = step]
HasWallet(w) == {a \in LoginAccounts : walletOf[a] = w}

-----------------------------------------------------------------------------
(* createChallenge, and the clock *)

CreateChallenge(c, w) ==
    /\ challenge[c].state = "none"
    /\ challenge' = [challenge EXCEPT ![c].state = "open", ![c].wallet = w]
    /\ UNCHANGED <<walletOf, registry, session, login, answered>>

ChallengeExpires(c) ==
    /\ challenge[c].state # "none" /\ ~challenge[c].expired
    /\ challenge' = [challenge EXCEPT ![c].expired = TRUE]
    /\ UNCHANGED <<walletOf, registry, session, login, answered>>

PruneExpiredChallenges ==
    /\ \E c \in Challenges : challenge[c].expired /\ challenge[c].state # "pruned"
    /\ challenge' = [c \in Challenges |-> [challenge[c] EXCEPT
                        !.state = IF challenge[c].expired THEN "pruned" ELSE @]]
    /\ UNCHANGED <<walletOf, registry, session, login, answered>>

-----------------------------------------------------------------------------
(* verifySignature, for a login (no account) or to link an account: the    *)
(* challenge is read and checked, and then consumed.                       *)

ReadChallenge(r, c, account) ==
    /\ LoginAt(r, "none")
    /\ challenge[c].state = "open" /\ ~challenge[c].expired
    /\ login' = [login EXCEPT ![r] = [step |-> "consume", wallet |-> challenge[c].wallet,
                                      challenge |-> c, account |-> account]]
    /\ UNCHANGED <<challenge, walletOf, registry, session, answered>>

(* A slip: the update is not conditional on consumedAt. *)
ConsumeAgain(r) ==
    LET c == login[r].challenge IN
    /\ LoginAt(r, "consume")
    /\ IF challenge[c].state # "pruned"
       THEN /\ challenge' = [challenge EXCEPT ![c].state = "consumed"]
            /\ answered' = answered \cup {<<r, c>>}
            /\ LoginGoes(r, "register")
       ELSE LoginGoes(r, "done") /\ UNCHANGED <<challenge, answered>>
    /\ UNCHANGED <<walletOf, registry, session>>

(* The compare-and-set on consumedAt. *)
ConsumeChallenge(r) ==
    LET c == login[r].challenge IN
    /\ LoginAt(r, "consume")
    /\ IF challenge[c].state = "open"
       THEN /\ challenge' = [challenge EXCEPT ![c].state = "consumed"]
            /\ answered' = answered \cup {<<r, c>>}
            /\ LoginGoes(r, "register")
       ELSE LoginGoes(r, "done") /\ UNCHANGED <<challenge, answered>>
    /\ UNCHANGED <<walletOf, registry, session>>

(* A write of the registry that fails is only logged. *)
RecordWallet(r) ==
    /\ LoginAt(r, "register")
    /\ registry' \in {registry, registry \cup {login[r].wallet}}
    /\ LoginGoes(r, IF login[r].account = Null THEN "findUser" ELSE "findOwner")
    /\ UNCHANGED <<challenge, walletOf, session, answered>>

-----------------------------------------------------------------------------
(* verify: an account session for a linked wallet, a wallet session else *)

FindUserByWallet(r) ==
    /\ LoginAt(r, "findUser")
    /\ LoginGoes(r, IF HasWallet(login[r].wallet) = {} THEN "issue" ELSE "done")
    /\ UNCHANGED <<challenge, walletOf, registry, session, answered>>

IssueSession(r) ==
    /\ LoginAt(r, "issue")
    /\ session' = [session EXCEPT ![r] = "live"]
    /\ LoginGoes(r, "done")
    /\ UNCHANGED <<challenge, walletOf, registry, answered>>

(* The update is conditional on a revokedAt of null.  Some versions of the *)
(* database layer compare it for equality, so that no row matches.         *)
RevokeSession(r) ==
    /\ session[r] = "live"
    /\ session' \in {session, [session EXCEPT ![r] = "revoked"]}
    /\ UNCHANGED <<challenge, walletOf, registry, login, answered>>

(* Expired sessions are deleted, revoked or not. *)
PruneSession(r) ==
    /\ session[r] \in {"live", "revoked"}
    /\ session' = [session EXCEPT ![r] = "pruned"]
    /\ UNCHANGED <<challenge, walletOf, registry, login, answered>>

-----------------------------------------------------------------------------
(* linkWalletToAccount, and the linkWallet and unlinkWallet of the user    *)
(* service: the owner is looked up, and then the row is saved, which a     *)
(* unique constraint on the address refuses if it got an owner meanwhile.  *)

BeginLinkWallet(r, account, w) ==
    /\ LoginAt(r, "none")
    /\ login' = [login EXCEPT ![r] = [step |-> "findOwner", wallet |-> w,
                                      challenge |-> Null, account |-> account]]
    /\ UNCHANGED <<challenge, walletOf, registry, session, answered>>

FindOwner(r) ==
    /\ LoginAt(r, "findOwner")
    /\ LoginGoes(r, IF HasWallet(login[r].wallet) \subseteq {login[r].account} THEN "save" ELSE "done")
    /\ UNCHANGED <<challenge, walletOf, registry, session, answered>>

SaveWallet(r) ==
    /\ LoginAt(r, "save")
    /\ IF HasWallet(login[r].wallet) \subseteq {login[r].account}
       THEN walletOf' = [walletOf EXCEPT ![login[r].account] = login[r].wallet]
       ELSE UNCHANGED walletOf
    /\ LoginGoes(r, "done")
    /\ UNCHANGED <<challenge, registry, session, answered>>

UnlinkWallet(account) ==
    /\ walletOf[account] # Null
    /\ walletOf' = [walletOf EXCEPT ![account] = Null]
    /\ UNCHANGED <<challenge, registry, session, login, answered>>

LoginDies(r) ==
    /\ login[r].step \notin {"none", "done"}
    /\ LoginGoes(r, "done")
    /\ UNCHANGED <<challenge, walletOf, registry, session, answered>>

-----------------------------------------------------------------------------

LoginNext ==
    \/ \E c \in Challenges :
          \/ \E w \in Wallets : CreateChallenge(c, w)
          \/ ChallengeExpires(c)
          \/ \E r \in Logins, account \in LoginAccounts \cup {Null} : ReadChallenge(r, c, account)
    \/ PruneExpiredChallenges
    \/ \E r \in Logins :
          \/ ConsumeChallenge(r) \/ RecordWallet(r)
          \/ FindUserByWallet(r) \/ IssueSession(r) \/ RevokeSession(r) \/ PruneSession(r)
          \/ \E account \in LoginAccounts, w \in Wallets : BeginLinkWallet(r, account, w)
          \/ FindOwner(r) \/ SaveWallet(r) \/ LoginDies(r)
    \/ \E account \in LoginAccounts : UnlinkWallet(account)

LoginSpec == LoginInit /\ [][LoginNext]_loginVars

-----------------------------------------------------------------------------
(* Properties. *)

LoginTypeOK ==
    /\ challenge \in [Challenges -> [state : {"none", "open", "consumed", "pruned"},
                                     wallet : Wallets, expired : BOOLEAN]]
    /\ walletOf \in [LoginAccounts -> Wallets \cup {Null}]
    /\ registry \subseteq Wallets
    /\ session \in [Logins -> {"none", "live", "revoked", "pruned"}]
    /\ login \in [Logins -> [step : {"none", "consume", "register", "findUser", "issue",
                                     "findOwner", "save", "done"},
                             wallet : Wallets, challenge : Challenges \cup {Null},
                             account : LoginAccounts \cup {Null}]]
    /\ answered \subseteq Logins \X Challenges

(* However requests with the same challenge overlap, with each other and   *)
(* with its expiry and removal, one of them at most gets past it; every    *)
(* wallet session was started by such a request, on the wallet of its      *)
(* challenge; and no two accounts end up with one wallet.                  *)
ChallengeIsUsedOnce ==
    /\ \A p, q \in answered : p[2] = q[2] => p = q
    /\ \A r \in Logins : session[r] # "none" =>
          \E c \in Challenges : <<r, c>> \in answered /\ challenge[c].wallet = login[r].wallet
    /\ \A a, b \in LoginAccounts : walletOf[a] = walletOf[b] /\ a # b => walletOf[a] = Null
=============================================================================
