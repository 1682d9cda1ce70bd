-------------------------- MODULE WalletLoginProofs --------------------------
(***************************************************************************)
(* Proofs about WalletLogin, for every number of wallets, accounts,        *)
(* challenges and requests.                                                *)
(***************************************************************************)
EXTENDS WalletLogin, TLAPS

(* A challenge that was answered stays used up, and nobody else answers it.*)
AnsweredIsUsedUp ==
    /\ \A p \in answered : challenge[p[2]].state \in {"consumed", "pruned"}
    /\ \A p, q \in answered : p[2] = q[2] => p = q

(* A request that has a challenge read it when it existed, and the wallet  *)
(* it acts for is that of the challenge; on its way to a session, it has   *)
(* answered it.                                                            *)
OnTheWay == {"register", "findUser", "issue"}

RequestsFollowChallenges ==
    \A r \in Logins :
        /\ login[r].step \in {"consume"} \cup OnTheWay =>
              /\ login[r].challenge \in Challenges
              /\ challenge[login[r].challenge].state # "none"
              /\ challenge[login[r].challenge].wallet = login[r].wallet
        /\ login[r].step \in OnTheWay => <<r, login[r].challenge>> \in answered

(* Only a request that is done has a session, which it got for a challenge.*)
SessionsAreEarned ==
    \A r \in Logins : session[r] # "none" =>
        /\ login[r].step = "done"
        /\ \E c \in Challenges : <<r, c>> \in answered /\ challenge[c].wallet = login[r].wallet

OneAccountPerWallet ==
    \A a, b \in LoginAccounts : walletOf[a] = walletOf[b] /\ a # b => walletOf[a] = Null

LoginInv ==
    /\ LoginTypeOK /\ AnsweredIsUsedUp /\ RequestsFollowChallenges
    /\ SessionsAreEarned /\ OneAccountPerWallet

(* The fields of a request and of a challenge. *)
LoginSteps == {"none", "consume", "register", "findUser", "issue", "findOwner", "save", "done"}

(* The initial values are of their types. *)
LEMMA LoginInitOK == LoginInit => LoginInv
<1> SUFFICES ASSUME LoginInit PROVE LoginInv
  OBVIOUS
<1>1. AnyWallet \in Wallets
  BY LoginAssumption DEF AnyWallet
<1>2. LoginTypeOK
  BY <1>1 DEF LoginInit, LoginTypeOK
<1> QED
  BY <1>2 DEF LoginInit, LoginInv, AnsweredIsUsedUp, RequestsFollowChallenges, OnTheWay,
              SessionsAreEarned, OneAccountPerWallet

(* Challenges that come, expire and go: an answered one stays used up, and *)
(* no wallet changes but that of a challenge nobody has read.              *)
LEMMA ChallengesMove ==
    ASSUME LoginInv, UNCHANGED <<walletOf, registry, session, login, answered>>,
           challenge' \in [Challenges -> [state : {"none", "open", "consumed", "pruned"},
                                          wallet : Wallets, expired : BOOLEAN]],
           \A c \in Challenges : challenge[c].state # "none" =>
               /\ challenge'[c].state # "none" /\ challenge'[c].wallet = challenge[c].wallet
               /\ challenge[c].state \in {"consumed", "pruned"}
                     => challenge'[c].state \in {"consumed", "pruned"}
    PROVE  LoginInv'
<1>1. answered \subseteq Logins \X Challenges
  BY DEF LoginInv, LoginTypeOK
<1>2. LoginTypeOK'
  BY DEF LoginInv, LoginTypeOK
<1>3. AnsweredIsUsedUp'
  BY <1>1 DEF LoginInv, AnsweredIsUsedUp
<1>4. RequestsFollowChallenges'
  BY DEF LoginInv, RequestsFollowChallenges
<1>5. SessionsAreEarned'
  <2> SUFFICES ASSUME NEW r \in Logins, session[r] # "none"
               PROVE  /\ login[r].step = "done"
                      /\ \E c \in Challenges :
                            <<r, c>> \in answered /\ challenge'[c].wallet = login[r].wallet
    BY DEF SessionsAreEarned
  <2>1. PICK c \in Challenges : <<r, c>> \in answered /\ challenge[c].wallet = login[r].wallet
    BY DEF LoginInv, SessionsAreEarned
  <2>2. challenge[c].state # "none"
    BY <2>1 DEF LoginInv, AnsweredIsUsedUp
  <2> QED BY <2>1, <2>2 DEF LoginInv, SessionsAreEarned
<1>6. OneAccountPerWallet'
  BY DEF LoginInv, OneAccountPerWallet
<1> QED BY <1>2, <1>3, <1>4, <1>5, <1>6 DEF LoginInv

(* One request goes on, and writes neither challenges nor links nor        *)
(* answers: it may only come nearer to a session with its answer in hand.  *)
LEMMA RequestMoves ==
    ASSUME LoginInv, NEW r \in Logins, NEW step \in LoginSteps,
           UNCHANGED <<challenge, session, answered>>, registry' \subseteq Wallets,
           LoginGoes(r, step), login[r].step # "done",
           step \in OnTheWay => login[r].step \in OnTheWay,
           step # "consume",
           walletOf' \in [LoginAccounts -> Wallets \cup {Null}], OneAccountPerWallet'
    PROVE  LoginInv'
<1>1. login' = [login EXCEPT ![r].step = step]
  BY DEF LoginGoes
<1>2. LoginTypeOK'
  BY <1>1 DEF LoginInv, LoginTypeOK, LoginSteps
<1>3. AnsweredIsUsedUp'
  BY DEF LoginInv, AnsweredIsUsedUp
<1>4. RequestsFollowChallenges'
  BY <1>1 DEF LoginInv, LoginTypeOK, RequestsFollowChallenges, OnTheWay
<1>5. SessionsAreEarned'
  BY <1>1 DEF LoginInv, LoginTypeOK, SessionsAreEarned
<1> QED BY <1>2, <1>3, <1>4, <1>5 DEF LoginInv

(* The compare-and-set lets one request past a challenge. *)
LEMMA ConsumeOK ==
    ASSUME LoginInv, NEW r \in Logins, ConsumeChallenge(r) PROVE LoginInv'
<1> DEFINE c == login[r].challenge
<1>1. c \in Challenges /\ challenge[c].state # "none" /\ challenge[c].wallet = login[r].wallet
      /\ login[r].step = "consume"
  BY DEF ConsumeChallenge, LoginAt, LoginInv, RequestsFollowChallenges
<1>2. CASE challenge[c].state # "open"
  <2>1. LoginGoes(r, "done") /\ UNCHANGED <<challenge, answered, walletOf, registry, session>>
    BY <1>2 DEF ConsumeChallenge
  <2>2. registry' \subseteq Wallets /\ walletOf' \in [LoginAccounts -> Wallets \cup {Null}]
        /\ OneAccountPerWallet'
    BY <2>1 DEF LoginInv, LoginTypeOK, OneAccountPerWallet
  <2> QED BY <1>1, <2>1, <2>2, RequestMoves DEF LoginSteps, OnTheWay
<1>3. CASE challenge[c].state = "open"
  <2>1. /\ challenge' = [challenge EXCEPT ![c].state = "consumed"]
        /\ answered' = answered \cup {<<r, c>>}
        /\ login' = [login EXCEPT ![r].step = "register"]
        /\ UNCHANGED <<walletOf, registry, session>>
    BY <1>3 DEF ConsumeChallenge, LoginGoes
  <2>2. LoginTypeOK'
    <3>1. LoginTypeOK
      BY DEF LoginInv
    <3>2. challenge' \in [Challenges -> [state : {"none", "open", "consumed", "pruned"},
                                         wallet : Wallets, expired : BOOLEAN]]
      BY <1>1, <2>1, <3>1 DEF LoginTypeOK
    <3>3. login' \in [Logins -> [step : LoginSteps, wallet : Wallets,
                                 challenge : Challenges \cup {Null},
                                 account : LoginAccounts \cup {Null}]]
      BY <2>1, <3>1 DEF LoginTypeOK, LoginSteps
    <3>4. answered' \subseteq Logins \X Challenges
      BY <1>1, <2>1, <3>1 DEF LoginTypeOK
    <3> QED BY <2>1, <3>1, <3>2, <3>3, <3>4 DEF LoginTypeOK, LoginSteps
  <2>3. \A p \in answered : p[2] # c
    BY <1>3 DEF LoginInv, AnsweredIsUsedUp
  <2>4. AnsweredIsUsedUp'
    <3>1. \A p \in answered : p[2] \in Challenges
      BY DEF LoginInv, LoginTypeOK
    <3>2. \A p \in answered' : challenge'[p[2]].state \in {"consumed", "pruned"}
      BY <1>1, <2>1, <3>1 DEF LoginInv, LoginTypeOK, AnsweredIsUsedUp
    <3>3. \A p, q \in answered' : p[2] = q[2] => p = q
      BY <2>1, <2>3 DEF LoginInv, AnsweredIsUsedUp
    <3> QED BY <3>2, <3>3 DEF AnsweredIsUsedUp
  <2>5. RequestsFollowChallenges'
    BY <1>1, <2>1 DEF LoginInv, LoginTypeOK, RequestsFollowChallenges, OnTheWay
  <2>6. SessionsAreEarned'
    <3> SUFFICES ASSUME NEW s \in Logins, session[s] # "none"
                 PROVE  /\ login'[s].step = "done"
                        /\ \E d \in Challenges :
                              <<s, d>> \in answered' /\ challenge'[d].wallet = login'[s].wallet
      BY <2>1 DEF SessionsAreEarned
    <3>1. login[s].step = "done"
      BY DEF LoginInv, SessionsAreEarned
    <3>2. s # r /\ login'[s] = login[s]
      BY <1>1, <2>1, <3>1 DEF LoginInv, LoginTypeOK
    <3>3. PICK d \in Challenges : <<s, d>> \in answered /\ challenge[d].wallet = login[s].wallet
      BY DEF LoginInv, SessionsAreEarned
    <3>4. challenge'[d].wallet = challenge[d].wallet
      BY <1>1, <2>1 DEF LoginInv, LoginTypeOK
    <3> QED BY <2>1, <3>1, <3>2, <3>3, <3>4
  <2>7. OneAccountPerWallet'
    BY <2>1 DEF LoginInv, OneAccountPerWallet
  <2> QED BY <2>2, <2>4, <2>5, <2>6, <2>7 DEF LoginInv
<1> QED BY <1>2, <1>3

(* A request begins, with a challenge or without. *)
LEMMA BeginOK ==
    ASSUME LoginInv, NEW r \in Logins, NEW first \in {"consume", "findOwner"},
           NEW w \in Wallets, NEW c \in Challenges \cup {Null},
           NEW account \in LoginAccounts \cup {Null},
           login[r].step = "none",
           login' = [login EXCEPT ![r] = [step |-> first, wallet |-> w,
                                          challenge |-> c, account |-> account]],
           first = "consume" => /\ c \in Challenges /\ challenge[c].state # "none"
                                /\ challenge[c].wallet = w,
           UNCHANGED <<challenge, walletOf, registry, session, answered>>
    PROVE  LoginInv'
<1>1. LoginTypeOK'
  BY DEF LoginInv, LoginTypeOK
<1>2. AnsweredIsUsedUp'
  BY DEF LoginInv, AnsweredIsUsedUp
<1>3. RequestsFollowChallenges'
  BY DEF LoginInv, LoginTypeOK, RequestsFollowChallenges, OnTheWay
<1>4. SessionsAreEarned'
  BY DEF LoginInv, LoginTypeOK, SessionsAreEarned
<1>5. OneAccountPerWallet'
  BY DEF LoginInv, OneAccountPerWallet
<1> QED BY <1>1, <1>2, <1>3, <1>4, <1>5 DEF LoginInv

(* A session begins, for the challenge its request has answered. *)
LEMMA IssueOK ==
    ASSUME LoginInv, NEW r \in Logins, IssueSession(r) PROVE LoginInv'
<1>1. /\ login[r].step = "issue"
      /\ session' = [session EXCEPT ![r] = "live"]
      /\ login' = [login EXCEPT ![r].step = "done"]
      /\ UNCHANGED <<challenge, walletOf, registry, answered>>
  BY DEF IssueSession, LoginAt, LoginGoes
<1>2. /\ login[r].challenge \in Challenges /\ <<r, login[r].challenge>> \in answered
      /\ challenge[login[r].challenge].wallet = login[r].wallet
  BY <1>1 DEF LoginInv, RequestsFollowChallenges, OnTheWay
<1>3. LoginTypeOK'
  BY <1>1 DEF LoginInv, LoginTypeOK
<1>4. AnsweredIsUsedUp'
  BY <1>1 DEF LoginInv, AnsweredIsUsedUp
<1>5. RequestsFollowChallenges'
  BY <1>1 DEF LoginInv, LoginTypeOK, RequestsFollowChallenges, OnTheWay
<1>6. SessionsAreEarned'
  BY <1>1, <1>2 DEF LoginInv, LoginTypeOK, SessionsAreEarned
<1>7. OneAccountPerWallet'
  BY <1>1 DEF LoginInv, OneAccountPerWallet
<1> QED BY <1>3, <1>4, <1>5, <1>6, <1>7 DEF LoginInv

(* A session that exists ends. *)
LEMMA SessionEnds ==
    ASSUME LoginInv, NEW r \in Logins, session[r] # "none",
           NEW end \in {"revoked", "pruned"},
           session' \in {session, [session EXCEPT ![r] = end]},
           UNCHANGED <<challenge, walletOf, registry, login, answered>>
    PROVE  LoginInv'
<1>1. LoginTypeOK'
  BY DEF LoginInv, LoginTypeOK
<1>2. AnsweredIsUsedUp' /\ RequestsFollowChallenges' /\ OneAccountPerWallet'
  BY DEF LoginInv, AnsweredIsUsedUp, RequestsFollowChallenges, OneAccountPerWallet
<1>3. SessionsAreEarned'
  BY DEF LoginInv, LoginTypeOK, SessionsAreEarned
<1> QED BY <1>1, <1>2, <1>3 DEF LoginInv

(* The unique constraint keeps a wallet with one account. *)
LEMMA SaveOK ==
    ASSUME LoginInv, NEW r \in Logins, SaveWallet(r) PROVE LoginInv'
<1>1. /\ login[r].step = "save" /\ LoginGoes(r, "done")
      /\ UNCHANGED <<challenge, registry, session, answered>>
      /\ walletOf \in [LoginAccounts -> Wallets \cup {Null}]
      /\ login[r].wallet \in Wallets
  BY DEF SaveWallet, LoginAt, LoginInv, LoginTypeOK
<1>2. walletOf' = IF HasWallet(login[r].wallet) \subseteq {login[r].account}
                  THEN [walletOf EXCEPT ![login[r].account] = login[r].wallet] ELSE walletOf
  BY DEF SaveWallet
<1>3. walletOf' \in [LoginAccounts -> Wallets \cup {Null}]
  BY <1>1, <1>2
<1>4. OneAccountPerWallet'
  BY <1>1, <1>2 DEF LoginInv, OneAccountPerWallet, HasWallet
<1>5. registry' \subseteq Wallets
  BY <1>1 DEF LoginInv, LoginTypeOK
<1> QED BY <1>1, <1>3, <1>4, <1>5, RequestMoves DEF LoginSteps, OnTheWay

LEMMA LoginStepCorrect == LoginInv /\ [LoginNext]_loginVars => LoginInv'
<1> SUFFICES ASSUME LoginInv, [LoginNext]_loginVars PROVE LoginInv'
  OBVIOUS
<1>t. LoginTypeOK
  BY DEF LoginInv
<1>k. UNCHANGED <<registry, walletOf>> =>
          /\ registry' \subseteq Wallets /\ OneAccountPerWallet'
          /\ walletOf' \in [LoginAccounts -> Wallets \cup {Null}]
  BY DEF LoginInv, LoginTypeOK, OneAccountPerWallet
<1>1. ASSUME NEW c \in Challenges, NEW w \in Wallets, CreateChallenge(c, w) PROVE LoginInv'
  <2>1. challenge[c].state = "none"
        /\ challenge' = [challenge EXCEPT ![c].state = "open", ![c].wallet = w]
        /\ UNCHANGED <<walletOf, registry, session, login, answered>>
    BY <1>1 DEF CreateChallenge
  <2>2. challenge' \in [Challenges -> [state : {"none", "open", "consumed", "pruned"},
                                       wallet : Wallets, expired : BOOLEAN]]
    BY <2>1, <1>t DEF LoginTypeOK
  <2>3. \A d \in Challenges : challenge[d].state # "none" => challenge'[d] = challenge[d]
    BY <2>1, <1>t DEF LoginTypeOK
  <2> QED BY <2>1, <2>2, <2>3, ChallengesMove
<1>2. ASSUME NEW c \in Challenges, ChallengeExpires(c) PROVE LoginInv'
  BY <1>2, <1>t, ChallengesMove DEF ChallengeExpires, LoginTypeOK
<1>3. CASE PruneExpiredChallenges
  BY <1>3, <1>t, ChallengesMove DEF PruneExpiredChallenges, LoginTypeOK
<1>4. ASSUME NEW r \in Logins, NEW c \in Challenges, NEW account \in LoginAccounts \cup {Null},
             ReadChallenge(r, c, account)
      PROVE  LoginInv'
  <2>1. challenge[c].wallet \in Wallets
    BY <1>t DEF LoginTypeOK
  <2> QED BY <1>4, <2>1, BeginOK DEF ReadChallenge, LoginAt
<1>5. ASSUME NEW r \in Logins, ConsumeChallenge(r) PROVE LoginInv'
  BY <1>5, ConsumeOK
<1>6. ASSUME NEW r \in Logins, RecordWallet(r) PROVE LoginInv'
  <2> DEFINE step == IF login[r].account = Null THEN "findUser" ELSE "findOwner"
  <2>1. LoginGoes(r, step) /\ login[r].step = "register"
        /\ UNCHANGED <<challenge, walletOf, session, answered>>
    BY <1>6 DEF RecordWallet, LoginAt
  <2>2. registry' \subseteq Wallets
    BY <1>6, <1>t DEF RecordWallet, LoginTypeOK
  <2>3. walletOf' \in [LoginAccounts -> Wallets \cup {Null}] /\ OneAccountPerWallet'
    BY <2>1 DEF LoginInv, LoginTypeOK, OneAccountPerWallet
  <2>4. step \in LoginSteps /\ step # "consume"
    BY DEF LoginSteps
  <2>5. login[r].step \in OnTheWay /\ login[r].step # "done"
    BY <2>1 DEF OnTheWay
  <2> HIDE DEF step
  <2> QED BY <2>1, <2>2, <2>3, <2>4, <2>5, RequestMoves
<1>7. ASSUME NEW r \in Logins, FindUserByWallet(r) PROVE LoginInv'
  <2> DEFINE step == IF HasWallet(login[r].wallet) = {} THEN "issue" ELSE "done"
  <2>1. LoginGoes(r, step) /\ login[r].step = "findUser"
        /\ UNCHANGED <<challenge, walletOf, registry, session, answered>>
    BY <1>7 DEF FindUserByWallet, LoginAt
  <2>2. step \in LoginSteps /\ step # "consume"
    BY DEF LoginSteps
  <2>3. login[r].step \in OnTheWay /\ login[r].step # "done"
    BY <2>1 DEF OnTheWay
  <2> HIDE DEF step
  <2> QED BY <2>1, <2>2, <2>3, <1>k, RequestMoves
<1>8. ASSUME NEW r \in Logins, IssueSession(r) PROVE LoginInv'
  BY <1>8, IssueOK
<1>9. ASSUME NEW r \in Logins, RevokeSession(r) PROVE LoginInv'
  BY <1>9, SessionEnds DEF RevokeSession
<1>10. ASSUME NEW r \in Logins, PruneSession(r) PROVE LoginInv'
  BY <1>10, SessionEnds DEF PruneSession
<1>11. ASSUME NEW r \in Logins, NEW account \in LoginAccounts, NEW w \in Wallets,
              BeginLinkWallet(r, account, w)
       PROVE  LoginInv'
  BY <1>11, BeginOK DEF BeginLinkWallet, LoginAt
<1>12. ASSUME NEW r \in Logins, FindOwner(r) PROVE LoginInv'
  <2> DEFINE step == IF HasWallet(login[r].wallet) \subseteq {login[r].account}
                     THEN "save" ELSE "done"
  <2>1. LoginGoes(r, step) /\ login[r].step = "findOwner"
        /\ UNCHANGED <<challenge, walletOf, registry, session, answered>>
    BY <1>12 DEF FindOwner, LoginAt
  <2>2. step \in LoginSteps /\ step \notin OnTheWay /\ step # "consume"
    BY DEF LoginSteps, OnTheWay
  <2> HIDE DEF step
  <2> QED BY <2>1, <2>2, <1>k, RequestMoves
<1>13. ASSUME NEW r \in Logins, SaveWallet(r) PROVE LoginInv'
  BY <1>13, SaveOK
<1>14. ASSUME NEW r \in Logins, LoginDies(r) PROVE LoginInv'
  BY <1>14, <1>k, RequestMoves DEF LoginDies, LoginSteps, OnTheWay
<1>15. ASSUME NEW account \in LoginAccounts, UnlinkWallet(account) PROVE LoginInv'
  BY <1>15 DEF UnlinkWallet, LoginInv, LoginTypeOK, AnsweredIsUsedUp,
               RequestsFollowChallenges, SessionsAreEarned, OneAccountPerWallet
<1>16. CASE UNCHANGED loginVars
  BY <1>16 DEF loginVars, LoginInv, LoginTypeOK, AnsweredIsUsedUp,
               RequestsFollowChallenges, SessionsAreEarned, OneAccountPerWallet
<1> QED
  BY <1>1, <1>2, <1>3, <1>4, <1>5, <1>6, <1>7, <1>8, <1>9, <1>10, <1>11, <1>12, <1>13,
     <1>14, <1>15, <1>16 DEF LoginNext

(* The strengthened invariant holds throughout. *)
THEOREM LoginInvariance == LoginSpec => []LoginInv
BY LoginInitOK, LoginStepCorrect, PTL DEF LoginSpec

(* A challenge lets one request past at most, whatever requests, expiry    *)
(* and pruning do; a session belongs to a request that answered a          *)
(* challenge for its wallet; no two accounts share a wallet.               *)
THEOREM ChallengeUsedOnce == LoginSpec => []ChallengeIsUsedOnce
<1>1. LoginInv => ChallengeIsUsedOnce
  BY DEF LoginInv, ChallengeIsUsedOnce, AnsweredIsUsedUp, SessionsAreEarned, OneAccountPerWallet
<1> QED BY <1>1, LoginInvariance, PTL
=============================================================================
