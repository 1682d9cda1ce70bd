---------------------------- MODULE ServicesProofs ----------------------------
(***************************************************************************)
(* What is proved of the services of the backend that share no state with  *)
(* each other, and of the wallet hook of the frontend: of each, the safety *)
(* property that the run over all of them checks, and of the marketplace   *)
(* that of its own run as well, for every value of its constants.          *)
(***************************************************************************)
EXTENDS MCServices, WalletLoginProofs, FiniteSetTheorems, SequenceTheorems,
        WellFoundedInduction, TLAPS

-----------------------------------------------------------------------------
(* WalletSession. *)

(* Every refresh under way while a WalletConnect session is active began   *)
(* before it did: the hook starts none while the session is active.        *)
OnlyLateUnderWay ==
    wallet.active = "walletconnect" =>
        \A r \in Refreshes : refresh[r].step # "none" => refresh[r].late

(* A restore that waits for its client is for the session in localStorage, *)
(* and no session becomes active before it goes on.                        *)
RestoreIsDue ==
    restoring.step = "client" =>
        /\ restoring.topic # Nothing /\ stored = restoring.topic
        /\ wallet.active # "walletconnect"

StoredWasOpened == stored \in opened \cup {Nothing}

WalletInv ==
    /\ WalletTypeOK /\ StoredWasOpened
    /\ OnlyLateUnderWay /\ RestoreIsDue /\ OnlyLateRefreshesClobber

LEMMA WalletInitCorrect ==
    ASSUME WalletInit
    PROVE  WalletInv
<1> USE DEF WalletInit
<1>1. Disconnected \in WalletRow
  BY DEF Disconnected, WalletRow, Nothing
<1>2. NotUnderWay \in [step : {"none", "isConnected", "keys"}, late : BOOLEAN]
      /\ NotRestored \in [step : {"due", "client", "done"}, topic : Topics \cup {Nothing}]
  BY DEF NotUnderWay, NotRestored
<1>3. WalletTypeOK
  <2>1. refresh \in [Refreshes -> [step : {"none", "isConnected", "keys"}, late : BOOLEAN]]
    BY <1>2
  <2>2. wallet \in WalletRow /\ restoring \in [step : {"due", "client", "done"},
                                               topic : Topics \cup {Nothing}]
    BY <1>1, <1>2
  <2>3. reloads \in 0 .. MaxReloads
    BY WalletAssumption
  <2> QED BY <2>1, <2>2, <2>3 DEF WalletTypeOK
<1>4. StoredWasOpened /\ OnlyLateUnderWay /\ RestoreIsDue /\ OnlyLateRefreshesClobber
  BY DEF StoredWasOpened, OnlyLateUnderWay, RestoreIsDue, OnlyLateRefreshesClobber,
         Disconnected, NotRestored, Nothing
<1> QED BY <1>3, <1>4 DEF WalletInv

(* A refresh writes the wallet of the session only if it is late. *)
LEMMA RefreshStep ==
    ASSUME WalletInv, NEW r \in Refreshes,
           BeginRefresh(r) \/ FindConnected(r) \/ TakeAccount(r) \/ RefreshFails(r)
    PROVE  WalletInv'
<1>1. /\ wallet \in WalletRow /\ extension \in Addresses \cup {Nothing}
      /\ clobbered \in BOOLEAN /\ refresh[r].late \in BOOLEAN
      /\ refresh \in [Refreshes -> [step : {"none", "isConnected", "keys"}, late : BOOLEAN]]
  BY DEF WalletInv, WalletTypeOK, Addresses
<1>2. wallet' \in WalletRow
  BY <1>1 DEF BeginRefresh, FindConnected, TakeAccount, RefreshFails, WalletRow, Nothing
<1>3. refresh' \in [Refreshes -> [step : {"none", "isConnected", "keys"}, late : BOOLEAN]]
  <2>1. \A step \in {"none", "isConnected", "keys"} :
           /\ [refresh EXCEPT ![r].step = step] \in
                 [Refreshes -> [step : {"none", "isConnected", "keys"}, late : BOOLEAN]]
           /\ [refresh EXCEPT ![r] = NotUnderWay] \in
                 [Refreshes -> [step : {"none", "isConnected", "keys"}, late : BOOLEAN]]
    BY <1>1 DEF NotUnderWay
  <2>2. \/ \E step \in {"none", "isConnected", "keys"} : refresh' = [refresh EXCEPT ![r].step = step]
        \/ refresh' = [refresh EXCEPT ![r] = NotUnderWay]
    BY DEF BeginRefresh, FindConnected, TakeAccount, RefreshFails, Wrote
  <2> QED BY <2>1, <2>2
<1>4. clobbered' = clobbered \/ clobbered' = (clobbered \/ refresh[r].late)
  BY DEF BeginRefresh, FindConnected, TakeAccount, RefreshFails, Wrote
<1>5. clobbered' \in BOOLEAN
  <2>1. (clobbered \/ refresh[r].late) \in BOOLEAN
    OBVIOUS
  <2> QED BY <1>1, <1>4, <2>1
<1>6. UNCHANGED Others
  BY DEF BeginRefresh, FindConnected, TakeAccount, RefreshFails
<1>7. WalletTypeOK'
  BY <1>2, <1>3, <1>5, <1>6 DEF WalletInv, WalletTypeOK, Others, External
<1> USE DEF WalletInv, WalletRow, StoredWasOpened, OnlyLateUnderWay, RestoreIsDue, OnlyLateRefreshesClobber,
            WalletConnectShown, External, Others, Wrote, NotUnderWay, Nothing
<1>8. (OnlyLateUnderWay /\ RestoreIsDue)'
  <2>1. wallet'.active = "walletconnect" => wallet.active = "walletconnect"
    BY <1>1 DEF BeginRefresh, FindConnected, TakeAccount, RefreshFails
  <2>2. RestoreIsDue'
    BY <1>6, <2>1
  <2>3. OnlyLateUnderWay'
    BY <1>1, <2>1 DEF BeginRefresh, FindConnected, TakeAccount, RefreshFails
  <2> QED BY <2>2, <2>3
<1>9. OnlyLateRefreshesClobber'
  <2>1. CASE BeginRefresh(r)
    BY <1>1, <2>1 DEF BeginRefresh
  <2>2. CASE FindConnected(r)
    <3>1. CASE extension # Nothing
      BY <1>1, <2>2, <3>1 DEF FindConnected
    <3>2. CASE extension = Nothing
      BY <1>1, <2>2, <3>2 DEF FindConnected
    <3> QED BY <3>1, <3>2
  <2>3. CASE TakeAccount(r)
    BY <1>1, <2>3 DEF TakeAccount
  <2>4. CASE RefreshFails(r)
    BY <1>1, <2>4 DEF RefreshFails
  <2> QED BY <2>1, <2>2, <2>3, <2>4
<1>10. StoredWasOpened'
  BY <1>6
<1> QED BY <1>7, <1>8, <1>9, <1>10

LEMMA ConnectStep ==
    ASSUME WalletInv, BeginConnect \/ AccessGranted \/ AccessRefused
    PROVE  WalletInv'
<1> USE DEF WalletInv, WalletTypeOK, StoredWasOpened, OnlyLateUnderWay, RestoreIsDue, OnlyLateRefreshesClobber,
            WalletConnectShown, WalletRow, Addresses, External, Nothing
<1>1. CASE BeginConnect
  BY <1>1 DEF BeginConnect
<1>2. CASE AccessGranted
  BY <1>2 DEF AccessGranted
<1>3. CASE AccessRefused
  BY <1>3 DEF AccessRefused
<1> QED BY <1>1, <1>2, <1>3

(* A session begins: the refreshes under way become late. *)
LEMMA AttachEffect ==
    ASSUME WalletInv, NEW s \in Topics, NEW a \in Addresses \cup {Nothing}, Attach(s, a),
           stored' = s, restoring'.step # "client"
    PROVE  /\ OnlyLateUnderWay' /\ RestoreIsDue' /\ OnlyLateRefreshesClobber'
           /\ wallet' \in WalletRow
           /\ refresh' \in [Refreshes -> [step : {"none", "isConnected", "keys"}, late : BOOLEAN]]
           /\ clobbered' \in BOOLEAN
<1> USE DEF Attach, WalletInv, WalletTypeOK, Addresses
<1>1. \A r \in Refreshes : (refresh[r].step # "none") \in BOOLEAN
  OBVIOUS
<1>2. refresh' \in [Refreshes -> [step : {"none", "isConnected", "keys"}, late : BOOLEAN]]
  BY <1>1
<1>3. OnlyLateUnderWay'
  BY DEF OnlyLateUnderWay
<1>4. wallet' \in WalletRow
  BY DEF WalletRow
<1>5. RestoreIsDue' /\ OnlyLateRefreshesClobber'
  BY WalletAssumption DEF RestoreIsDue, OnlyLateRefreshesClobber, WalletConnectShown, WalletRow
<1> QED BY <1>2, <1>3, <1>4, <1>5

LEMMA PairingStep ==
    ASSUME WalletInv, BeginPairing \/ OpenPairing \/ PairingFails \/ \E s \in Topics : Approved(s)
    PROVE  WalletInv'
<1> USE DEF WalletInv, StoredWasOpened, External
<1>1. CASE BeginPairing
  BY <1>1 DEF BeginPairing, WalletTypeOK, WalletRow, OnlyLateUnderWay, RestoreIsDue,
              OnlyLateRefreshesClobber, WalletConnectShown
<1>2. CASE OpenPairing
  BY <1>2 DEF OpenPairing, WalletTypeOK, OnlyLateUnderWay, RestoreIsDue,
              OnlyLateRefreshesClobber, WalletConnectShown
<1>3. CASE PairingFails
  BY <1>3 DEF PairingFails, WalletTypeOK, WalletRow, OnlyLateUnderWay, RestoreIsDue,
              OnlyLateRefreshesClobber, WalletConnectShown
<1>4. ASSUME NEW s \in Topics, Approved(s) PROVE WalletInv'
  <2>1. /\ Attach(s, s) /\ stored' = s /\ restoring'.step # "client"
        /\ sessions' = sessions \cup {s} /\ opened' = opened \cup {s} /\ pairing' = "none"
        /\ UNCHANGED <<extension, connecting, restoring, closing, reloads>>
    BY <1>4 DEF Approved
  <2>2. s \in Addresses \cup {Nothing}
    BY DEF Addresses
  <2> QED BY <2>1, <2>2, AttachEffect DEF WalletTypeOK
<1> QED BY <1>1, <1>2, <1>3, <1>4

LEMMA RestoreStep ==
    ASSUME WalletInv, BeginRestore \/ Restore
    PROVE  WalletInv'
<1> USE DEF WalletInv, StoredWasOpened, External
<1>1. CASE BeginRestore
  BY <1>1 DEF BeginRestore, WalletTypeOK, OnlyLateUnderWay, RestoreIsDue,
              OnlyLateRefreshesClobber, WalletConnectShown, Nothing
<1>2. CASE Restore
  <2>1. PICK s, a : s = restoring.topic /\ a = wallet.last
    OBVIOUS
  <2>2. /\ restoring.step = "client" /\ restoring'.step # "client"
        /\ restoring' = [step |-> "done", topic |-> Nothing]
        /\ stored' = IF s \in sessions THEN stored ELSE Nothing
        /\ UNCHANGED <<extension, sessions, opened, connecting, pairing, closing, reloads>>
    BY <1>2, <2>1 DEF Restore
  <2>3. s # Nothing /\ s \in Topics /\ stored = s /\ wallet.active # "walletconnect"
        /\ a \in Addresses \cup {Nothing}
    BY <2>1, <2>2 DEF RestoreIsDue, WalletTypeOK, WalletRow
  <2>4. CASE s \in sessions /\ wallet.active = Nothing
    <3>1. Attach(s, a) /\ stored' = s
      BY <1>2, <2>1, <2>3, <2>4 DEF Restore
    <3> QED BY <2>2, <2>3, <3>1, AttachEffect DEF WalletTypeOK
  <2>5. CASE ~(s \in sessions /\ wallet.active = Nothing)
    <3>1. UNCHANGED <<wallet, refresh, clobbered>>
      BY <1>2, <2>1, <2>5 DEF Restore
    <3> QED BY <2>2, <2>3, <3>1 DEF WalletTypeOK, OnlyLateUnderWay, RestoreIsDue,
                                    OnlyLateRefreshesClobber
  <2> QED BY <2>4, <2>5
<1> QED BY <1>1, <1>2

LEMMA PageStep ==
    ASSUME WalletInv, Disconnect \/ ExtensionChanges \/ Reload \/ \E s \in Topics : SessionCloses(s)
    PROVE  WalletInv'
<1> USE DEF WalletInv, StoredWasOpened, External, Nothing
<1>1. /\ wallet \in WalletRow /\ wallet.topic \in Topics \cup {Nothing}
      /\ Disconnected \in WalletRow
      /\ NotUnderWay \in [step : {"none", "isConnected", "keys"}, late : BOOLEAN]
      /\ NotRestored \in [step : {"due", "client", "done"}, topic : Topics \cup {Nothing}]
  BY DEF Disconnected, WalletTypeOK, WalletRow, NotUnderWay, NotRestored
<1>2. CASE Disconnect
  <2>1. wallet' \in WalletRow /\ wallet'.active = Nothing
    BY <1>1, <1>2 DEF Disconnect, WalletRow, Disconnected
  <2>2. /\ stored' \in {stored, Nothing} /\ closing' \subseteq closing \cup {wallet.topic}
        /\ stored' = Nothing \/ wallet.active # "walletconnect"
        /\ wallet.active # "walletconnect" => closing' = closing /\ stored' = stored
        /\ UNCHANGED <<extension, sessions, opened, refresh, connecting, pairing, restoring,
                       reloads, clobbered>>
    BY <1>2 DEF Disconnect
  <2>3. closing' \subseteq opened'
    BY <2>2 DEF WalletTypeOK, OnlyLateRefreshesClobber
  <2>4. WalletTypeOK'
    BY <2>1, <2>2, <2>3 DEF WalletTypeOK
  <2> QED BY <2>1, <2>2, <2>4 DEF OnlyLateUnderWay, RestoreIsDue, OnlyLateRefreshesClobber
<1>3. CASE ExtensionChanges
  BY <1>3 DEF ExtensionChanges, WalletTypeOK, OnlyLateUnderWay, RestoreIsDue,
              OnlyLateRefreshesClobber, WalletConnectShown
<1>4. CASE Reload
  <2>1. WalletTypeOK'
    <3>1. refresh' \in [Refreshes -> [step : {"none", "isConnected", "keys"}, late : BOOLEAN]]
      BY <1>1, <1>4 DEF Reload
    <3>2. wallet' \in WalletRow /\ restoring' \in [step : {"due", "client", "done"},
                                                   topic : Topics \cup {Nothing}]
      BY <1>1, <1>4 DEF Reload
    <3>3. reloads' \in 0 .. MaxReloads
      BY <1>4, WalletAssumption DEF Reload, WalletTypeOK
    <3> QED BY <1>4, <3>1, <3>2, <3>3 DEF Reload, WalletTypeOK
  <2> QED BY <1>4, <2>1 DEF Reload, OnlyLateUnderWay, RestoreIsDue, OnlyLateRefreshesClobber,
                            Disconnected, NotRestored
<1>5. ASSUME NEW s \in Topics, SessionCloses(s) PROVE WalletInv'
  BY <1>5 DEF SessionCloses, WalletTypeOK, OnlyLateUnderWay, RestoreIsDue,
              OnlyLateRefreshesClobber, WalletConnectShown
<1> QED BY <1>2, <1>3, <1>4, <1>5

(* The hook: while a WalletConnect session is active the page shows its    *)
(* address and would restore it after a reload, unless a refresh that was  *)
(* already waiting for Freighter when the session began has written since. *)
THEOREM SessionCorrect == WalletSpec => [](WalletTypeOK /\ OnlyLateRefreshesClobber)
<1>1. WalletInit => WalletInv
  BY WalletInitCorrect
<1>2. WalletInv /\ [WalletNext]_walletVars => WalletInv'
  <2> SUFFICES ASSUME WalletInv, [WalletNext]_walletVars PROVE WalletInv'
    OBVIOUS
  <2>1. CASE WalletNext
    BY <2>1, RefreshStep, ConnectStep, PairingStep, RestoreStep, PageStep DEF WalletNext
  <2>2. CASE UNCHANGED walletVars
    BY <2>2 DEF walletVars, WalletInv, WalletTypeOK, StoredWasOpened, OnlyLateUnderWay, RestoreIsDue,
                OnlyLateRefreshesClobber, WalletConnectShown
  <2> QED BY <2>1, <2>2
<1>3. WalletInv => WalletTypeOK /\ OnlyLateRefreshesClobber
  BY DEF WalletInv
<1> QED BY <1>1, <1>2, <1>3, PTL DEF WalletSpec

-----------------------------------------------------------------------------
(* PuzzleReview. *)

Columns == {"status", "text", "rating", "reasons", "reports"}
LiveRow == {row \in ReviewRow : row.status # "none" /\ row.text \in Texts}

(* What a save may hold between its two halves: columns of a live row. *)
Fine(changes) ==
    \A row \in ReviewRow : /\ Merged(changes, row) \in ReviewRow
                           /\ row \in LiveRow => Merged(changes, row) \in LiveRow

RequestShape(q) ==
    /\ q = [step |-> q.step, review |-> q.review, copy |-> q.copy, changes |-> q.changes]
    /\ q.step \in {"idle", "read", "write"} /\ q.review \in Reviews
    /\ q.copy \in ReviewRow /\ Fine(q.changes)

ReviewTypes ==
    /\ reviews \in [Reviews -> ReviewRow]
    /\ request = [t \in Requests |-> request[t]]
    /\ \A t \in Requests : RequestShape(request[t])
    /\ texts \in 0 .. MaxVersions
    /\ approvals \subseteq Reviews \X Texts /\ torn \subseteq Reviews

(* The id of a row that a request holds is in use. *)
HeldRowsLive ==
    /\ \A r \in Reviews : reviews[r].status # "none" => reviews[r] \in LiveRow
    /\ \A t \in Requests :
          /\ request[t].step # "idle" => reviews[request[t].review] \in LiveRow
          /\ request[t].step = "read" => request[t].copy \in LiveRow

(* A row, published or about to be, is approved as it stands. *)
ApprovedAs(r, row) == row.status = "approved" => <<r, row.text>> \in approvals

(* A copy, and what a save will make of the row unless another save comes  *)
(* in between, is approved as it stands.                                   *)
HeldRowsApproved ==
    \A t \in Requests : request[t].review \notin torn =>
        /\ request[t].step = "read" => ApprovedAs(request[t].review, request[t].copy)
        /\ request[t].step = "write" =>
              ApprovedAs(request[t].review,
                         Merged(request[t].changes, reviews[request[t].review]))

ReviewInv ==
    ReviewTypes /\ HeldRowsLive /\ HeldRowsApproved /\ PublishedTextWasApproved

LEMMA RowColumns ==
    ASSUME NEW row \in ReviewRow
    PROVE  DOMAIN row = Columns /\ row = [c \in Columns |-> row[c]]
BY DEF ReviewRow, Columns

(* Columns of a live row can be written over any row, and if they are all  *)
(* that differ they make it the live row.                                  *)
LEMMA ChangesOfLiveRow ==
    ASSUME NEW row \in LiveRow, NEW dirty \in SUBSET Columns
    PROVE  /\ Fine(Restrict(row, dirty))
           /\ \A old \in ReviewRow : dirty = {c \in DOMAIN row : row[c] # old[c]}
                 => Merged(Restrict(row, dirty), old) = row
<1>1. row \in ReviewRow /\ row.status # "none" /\ row.text \in Texts
  BY DEF LiveRow
<1>2. PICK ch : ch = Restrict(row, dirty)
  OBVIOUS
<1>3. DOMAIN ch = dirty /\ \A c \in dirty : ch[c] = row[c]
  BY <1>2 DEF Restrict
<1>4. ASSUME NEW old \in ReviewRow
      PROVE  Merged(ch, old) = [c \in Columns |-> IF c \in dirty THEN row[c] ELSE old[c]]
  <2>1. DOMAIN old = Columns
    BY RowColumns
  <2> QED BY <1>3, <2>1 DEF Merged
<1>5. ASSUME NEW old \in ReviewRow
      PROVE  [c \in Columns |-> IF c \in dirty THEN row[c] ELSE old[c]] \in ReviewRow
  BY <1>1 DEF ReviewRow, Columns
<1>6. ASSUME NEW old \in LiveRow
      PROVE  [c \in Columns |-> IF c \in dirty THEN row[c] ELSE old[c]] \in LiveRow
  <2>1. old \in ReviewRow /\ old.status # "none" /\ old.text \in Texts
    BY DEF LiveRow
  <2>2. [c \in Columns |-> IF c \in dirty THEN row[c] ELSE old[c]] \in ReviewRow
    BY <1>5, <2>1
  <2> QED BY <1>1, <2>1, <2>2 DEF LiveRow, Columns
<1>7. Fine(ch)
  BY <1>4, <1>5, <1>6 DEF Fine
<1>8. ASSUME NEW old \in ReviewRow, dirty = {c \in DOMAIN row : row[c] # old[c]}
      PROVE  Merged(ch, old) = row
  <2>1. DOMAIN row = Columns /\ row = [c \in Columns |-> row[c]]
    BY <1>1, RowColumns
  <2>2. \A c \in Columns : (IF c \in dirty THEN row[c] ELSE old[c]) = row[c]
    BY <1>8, <2>1
  <2> QED BY <1>4, <2>1, <2>2
<1> QED BY <1>2, <1>7, <1>8

LEMMA IdleShape == RequestShape(Idle) /\ Idle.step = "idle"
<1>1. (CHOOSE r \in Reviews : TRUE) \in Reviews
  BY ReviewAssumption
<1>2. NoReview \in ReviewRow
  BY ReviewAssumption DEF NoReview, ReviewRow, Status
<1>3. \A row \in ReviewRow : Merged(<< >>, row) = row
  <2> SUFFICES ASSUME NEW row \in ReviewRow PROVE Merged(<< >>, row) = row
    OBVIOUS
  <2>1. row = [c \in Columns |-> row[c]] /\ DOMAIN row = Columns
    BY RowColumns
  <2>2. DOMAIN << >> = {}
    OBVIOUS
  <2> QED BY <2>1, <2>2 DEF Merged
<1>4. Fine(<< >>)
  BY <1>3 DEF Fine
<1> QED BY <1>1, <1>2, <1>4 DEF Idle, RequestShape

(* What the comparison of a save leaves behind. *)
LEMMA SaveEffect ==
    ASSUME ReviewInv, NEW t \in Requests, NEW row \in LiveRow, SaveReview(t, row)
    PROVE  /\ request[t].step = "read" /\ UNCHANGED <<reviews, torn>>
           /\ request' = [s \in Requests |-> request'[s]]
           /\ \A s \in Requests \ {t} : request'[s] = request[s]
           /\ RequestShape(request'[t])
           /\ request'[t].step = "write" /\ request'[t].review = request[t].review
           /\ Merged(request'[t].changes, reviews[request[t].review]) = row
<1> DEFINE dirty == {c \in DOMAIN row : row[c] # reviews[request[t].review][c]}
           q     == [step |-> "write", review |-> request[t].review, copy |-> NoReview,
                     changes |-> Restrict(row, dirty)]
<1>1. /\ request[t].step = "read" /\ UNCHANGED <<reviews, torn>>
      /\ request' = [request EXCEPT ![t].step = "write", ![t].copy = NoReview,
                                    ![t].changes = Restrict(row, dirty)]
  BY DEF SaveReview
<1>2. /\ request = [s \in Requests |-> request[s]] /\ RequestShape(request[t])
      /\ reviews[request[t].review] \in ReviewRow
  BY DEF ReviewInv, ReviewTypes, RequestShape
<1>3. dirty \in SUBSET Columns
  <2>1. row \in ReviewRow
    BY DEF LiveRow
  <2> QED BY <2>1, RowColumns
<1>4. Fine(Restrict(row, dirty)) /\ Merged(Restrict(row, dirty), reviews[request[t].review]) = row
  <2>1. PICK d : d = dirty
    OBVIOUS
  <2> QED BY <1>2, <1>3, <2>1, ChangesOfLiveRow
<1> HIDE DEF dirty
<1>5. /\ request' = [s \in Requests |-> request'[s]]
      /\ \A s \in Requests \ {t} : request'[s] = request[s]
      /\ request'[t] = [request[t] EXCEPT !.step = "write", !.copy = NoReview,
                                          !.changes = Restrict(row, dirty)]
  BY <1>1, <1>2
<1>6. request'[t] = q
  BY <1>2, <1>5 DEF RequestShape
<1>7. NoReview \in ReviewRow
  BY ReviewAssumption DEF NoReview, ReviewRow, Status
<1>8. /\ q.step = "write" /\ q.review = request[t].review
      /\ q.changes = Restrict(row, dirty) /\ RequestShape(q)
  BY <1>2, <1>4, <1>7 DEF RequestShape
<1> HIDE DEF q
<1> QED BY <1>1, <1>4, <1>5, <1>6, <1>8

(* A save of a live row that is approved as it stands, or not published. *)
LEMMA SaveCorrectReview ==
    ASSUME ReviewInv, NEW t \in Requests, NEW row \in LiveRow, SaveReview(t, row),
           texts' \in 0 .. MaxVersions,
           approvals \subseteq approvals', approvals' \subseteq Reviews \X Texts,
           request[t].review \notin torn => ApprovedAs(request[t].review, row)'
    PROVE  ReviewInv'
<1>1. /\ request[t].step = "read" /\ UNCHANGED <<reviews, torn>>
      /\ request' = [s \in Requests |-> request'[s]]
      /\ \A s \in Requests \ {t} : request'[s] = request[s]
      /\ RequestShape(request'[t])
      /\ request'[t].step = "write" /\ request'[t].review = request[t].review
      /\ Merged(request'[t].changes, reviews[request[t].review]) = row
  BY SaveEffect
<1>2. ReviewTypes'
  BY <1>1 DEF ReviewInv, ReviewTypes, RequestShape
<1>3. HeldRowsLive'
  BY <1>1 DEF ReviewInv, HeldRowsLive
<1>4. HeldRowsApproved'
  <2>1. ASSUME NEW s \in Requests, request'[s].review \notin torn'
        PROVE  /\ request'[s].step = "read" => ApprovedAs(request[s].review, request[s].copy)'
               /\ request'[s].step = "write" =>
                     ApprovedAs(request[s].review,
                                Merged(request[s].changes, reviews[request[s].review]))'
    <3>1. CASE s = t
      BY <1>1, <2>1, <3>1 DEF ApprovedAs
    <3>2. CASE s # t
      <4>1. request'[s] = request[s] /\ request[s].review \notin torn
        BY <1>1, <2>1, <3>2
      <4> QED BY <1>1, <4>1 DEF ReviewInv, HeldRowsApproved, ApprovedAs
    <3> QED BY <3>1, <3>2
  <2> QED BY <2>1 DEF HeldRowsApproved
<1>5. PublishedTextWasApproved'
  BY <1>1 DEF ReviewInv, PublishedTextWasApproved
<1> QED BY <1>2, <1>3, <1>4, <1>5 DEF ReviewInv

(* The second half of a save. *)
LEMMA WriteReviewCorrect ==
    ASSUME ReviewInv, NEW t \in Requests, WriteReview(t)
    PROVE  ReviewInv'
<1>1. PICK r : r = request[t].review
  OBVIOUS
<1>2. /\ request[t].step = "write"
      /\ reviews' = [reviews EXCEPT ![r] = Merged(request[t].changes, reviews[r])]
      /\ torn' = IF \E s \in Requests \ {t} : request[s].step = "write" /\ request[s].review = r
                 THEN torn \cup {r} ELSE torn
      /\ request' = [request EXCEPT ![t] = Idle]
      /\ UNCHANGED <<texts, approvals>>
  BY <1>1 DEF WriteReview
<1>3. /\ r \in Reviews /\ reviews \in [Reviews -> ReviewRow]
      /\ request = [s \in Requests |-> request[s]] /\ Fine(request[t].changes)
      /\ reviews[r] \in LiveRow
  BY <1>1, <1>2 DEF ReviewInv, ReviewTypes, RequestShape, HeldRowsLive
<1>4. Merged(request[t].changes, reviews[r]) \in LiveRow
      /\ Merged(request[t].changes, reviews[r]) \in ReviewRow
  BY <1>3 DEF Fine
<1>5. /\ reviews' \in [Reviews -> ReviewRow] /\ reviews'[r] \in LiveRow
      /\ \A u \in Reviews \ {r} : reviews'[u] = reviews[u]
      /\ reviews'[r] = Merged(request[t].changes, reviews[r])
  BY <1>2, <1>3, <1>4
<1>6. /\ request' = [s \in Requests |-> request'[s]] /\ request'[t] = Idle
      /\ \A s \in Requests \ {t} : request'[s] = request[s]
  BY <1>2, <1>3
<1>7. RequestShape(Idle) /\ Idle.step = "idle"
  BY IdleShape
<1>8. ReviewTypes'
  <2>1. torn' \subseteq Reviews
    BY <1>2, <1>3 DEF ReviewInv, ReviewTypes
  <2> QED BY <1>2, <1>5, <1>6, <1>7, <2>1 DEF ReviewInv, ReviewTypes, RequestShape, Fine
<1>9. HeldRowsLive'
  <2>1. \A u \in Reviews : reviews'[u].status # "none" => reviews'[u] \in LiveRow
    BY <1>5 DEF ReviewInv, HeldRowsLive
  <2>2. \A s \in Requests :
           /\ request'[s].step # "idle" => reviews'[request'[s].review] \in LiveRow
           /\ request'[s].step = "read" => request'[s].copy \in LiveRow
    BY <1>5, <1>6, <1>7 DEF ReviewInv, HeldRowsLive, ReviewTypes, RequestShape
  <2> QED BY <2>1, <2>2 DEF HeldRowsLive
<1>10. HeldRowsApproved'
  <2>1. ASSUME NEW s \in Requests, request'[s].review \notin torn'
        PROVE  /\ request'[s].step = "read" => ApprovedAs(request[s].review, request[s].copy)'
               /\ request'[s].step = "write" =>
                     ApprovedAs(request[s].review,
                                Merged(request[s].changes, reviews[request[s].review]))'
    <3>1. CASE s = t
      <4>1. request'[s].step = "idle"
        BY <1>6, <1>7, <3>1
      <4> QED BY <4>1 DEF ApprovedAs
    <3>2. CASE s # t
      <4>1. request'[s] = request[s] /\ request[s].review \notin torn
        BY <1>2, <1>6, <2>1, <3>2
      <4>2. CASE request[s].step = "read"
        <5>1. ApprovedAs(request[s].review, request[s].copy)
          BY <4>1, <4>2 DEF ReviewInv, HeldRowsApproved
        <5>2. request'[s].step = "read" /\ request'[s].step # "write"
          BY <4>1, <4>2
        <5> QED BY <1>2, <4>1, <5>1, <5>2 DEF ApprovedAs
      <4>3. CASE request[s].step = "write"
        <5>1. request[s].review # r
          BY <1>2, <2>1, <3>2, <4>1, <4>3
        <5>2. reviews'[request[s].review] = reviews[request[s].review]
          BY <1>5, <5>1 DEF ReviewInv, ReviewTypes, RequestShape
        <5>3. PICK m : m = Merged(request[s].changes, reviews[request[s].review])
          OBVIOUS
        <5>4. ApprovedAs(request[s].review, m)
          BY <4>1, <4>3, <5>3 DEF ReviewInv, HeldRowsApproved
        <5>5. m = Merged(request[s].changes, reviews[request[s].review])'
          BY <4>1, <5>2, <5>3
        <5>6. request'[s].step = "write" /\ request'[s].step # "read"
          BY <4>1, <4>3
        <5> QED BY <1>2, <4>1, <5>4, <5>5, <5>6 DEF ApprovedAs
      <4> QED BY <4>1, <4>2, <4>3
    <3> QED BY <3>1, <3>2
  <2> QED BY <2>1 DEF HeldRowsApproved
<1>11. PublishedTextWasApproved'
  <2>1. \A u \in Reviews \ torn' : u # r => reviews'[u] = reviews[u] /\ u \notin torn
    BY <1>2, <1>5
  <2>2. r \notin torn' => ApprovedAs(r, reviews'[r])
    BY <1>1, <1>2, <1>5 DEF ReviewInv, HeldRowsApproved
  <2> QED BY <1>2, <2>1, <2>2 DEF ReviewInv, PublishedTextWasApproved, ApprovedAs
<1> QED BY <1>8, <1>9, <1>10, <1>11 DEF ReviewInv

(* A request that is done, or has not begun. *)
LEMMA GiveUpCorrect ==
    ASSUME ReviewInv, NEW t \in Requests, GiveUp(t)
    PROVE  ReviewInv'
<1>1. /\ request' = [request EXCEPT ![t] = Idle]
      /\ UNCHANGED <<reviews, texts, approvals, torn>>
  BY DEF GiveUp
<1>2. /\ request' = [s \in Requests |-> request'[s]] /\ request'[t] = Idle
      /\ \A s \in Requests \ {t} : request'[s] = request[s]
  BY <1>1 DEF ReviewInv, ReviewTypes
<1>3. RequestShape(Idle) /\ Idle.step = "idle"
  BY IdleShape
<1> QED BY <1>1, <1>2, <1>3 DEF ReviewInv, ReviewTypes, RequestShape, HeldRowsLive,
           HeldRowsApproved, ApprovedAs, PublishedTextWasApproved

LEMMA ReadReviewCorrect ==
    ASSUME ReviewInv, NEW t \in Requests, NEW r \in Reviews, ReadReview(t, r)
    PROVE  ReviewInv'
<1> DEFINE q == [Idle EXCEPT !.step = "read", !.review = r, !.copy = reviews[r]]
<1>1. /\ request' = [request EXCEPT ![t] = q] /\ reviews[r].status # "none"
      /\ UNCHANGED <<reviews, texts, approvals, torn>>
  BY DEF ReadReview
<1>2. reviews[r] \in ReviewRow /\ reviews[r] \in LiveRow
  BY <1>1 DEF ReviewInv, ReviewTypes, HeldRowsLive
<1>3. /\ RequestShape(q) /\ q.step = "read" /\ q.review = r /\ q.copy = reviews[r]
  <2>1. Fine(Idle.changes)
    BY IdleShape DEF RequestShape
  <2>2. q = [step |-> "read", review |-> r, copy |-> reviews[r], changes |-> Idle.changes]
    <3>1. PICK i, x : i = Idle /\ x = q
      OBVIOUS
    <3>2. i = [step |-> i.step, review |-> i.review, copy |-> i.copy, changes |-> i.changes]
      BY <3>1, IdleShape DEF RequestShape
    <3>3. x = [i EXCEPT !.step = "read", !.review = r, !.copy = reviews[r]]
      BY <3>1
    <3>4. x = [step |-> "read", review |-> r, copy |-> reviews[r], changes |-> i.changes]
      BY <3>2, <3>3
    <3> QED BY <3>1, <3>4
  <2> HIDE DEF q
  <2>3. q.step = "read" /\ q.review = r /\ q.copy = reviews[r] /\ q.changes = Idle.changes
    BY <2>2
  <2> QED BY <1>2, <2>1, <2>2, <2>3 DEF RequestShape
<1> HIDE DEF q
<1>4. /\ request' = [s \in Requests |-> request'[s]] /\ request'[t] = q
      /\ \A s \in Requests \ {t} : request'[s] = request[s]
  BY <1>1 DEF ReviewInv, ReviewTypes
<1>5. ReviewTypes'
  BY <1>1, <1>3, <1>4 DEF ReviewInv, ReviewTypes, RequestShape
<1>6. HeldRowsLive'
  BY <1>1, <1>2, <1>3, <1>4 DEF ReviewInv, HeldRowsLive
<1>7. PublishedTextWasApproved'
  BY <1>1 DEF ReviewInv, PublishedTextWasApproved
<1>8. HeldRowsApproved'
  BY <1>1, <1>3, <1>4 DEF ReviewInv, HeldRowsApproved, ApprovedAs, PublishedTextWasApproved
<1> QED BY <1>5, <1>6, <1>7, <1>8 DEF ReviewInv

LEMMA CreateReviewCorrect ==
    ASSUME ReviewInv, NEW r \in Reviews, NEW rating \in Ratings, NEW flagged \in BOOLEAN,
           CreateReview(r, rating, flagged)
    PROVE  ReviewInv'
<1> DEFINE row == [status |-> IF ~flagged /\ rating >= 2 THEN "approved" ELSE "pending",
                   text |-> texts + 1, rating |-> rating, reasons |-> flagged, reports |-> 0]
<1>1. /\ reviews[r].status = "none" /\ texts < MaxVersions /\ texts' = texts + 1
      /\ reviews' = [reviews EXCEPT ![r] = row]
      /\ IF row.status = "approved" THEN Approve(r, row) ELSE UNCHANGED approvals
      /\ UNCHANGED <<request, torn>>
  BY DEF CreateReview
<1>2. texts \in 0 .. MaxVersions /\ reviews \in [Reviews -> ReviewRow]
      /\ approvals \subseteq Reviews \X Texts
  BY DEF ReviewInv, ReviewTypes
<1>3. texts + 1 \in Texts /\ texts + 1 \in 0 .. MaxVersions
  BY <1>1, <1>2, ReviewAssumption DEF Texts
<1>4. row \in ReviewRow /\ row \in LiveRow
  BY <1>3, ReviewAssumption DEF ReviewRow, LiveRow, Status
<1>5. row.text \in Texts
  BY <1>3
<1> HIDE DEF row
<1>6. /\ approvals \subseteq approvals' /\ approvals' \subseteq Reviews \X Texts
      /\ row.status = "approved" => <<r, row.text>> \in approvals'
  BY <1>1, <1>2, <1>5 DEF Approve
<1>7. /\ reviews' \in [Reviews -> ReviewRow] /\ reviews'[r] = row
      /\ \A u \in Reviews \ {r} : reviews'[u] = reviews[u]
  BY <1>1, <1>2, <1>4
<1>8. \A t \in Requests : request[t].review \in Reviews
  BY DEF ReviewInv, ReviewTypes, RequestShape
<1>9. \A t \in Requests : request[t].step # "idle" =>
         request[t].review # r /\ reviews'[request[t].review] = reviews[request[t].review]
  <2>1. \A t \in Requests : request[t].step # "idle" => reviews[request[t].review].status # "none"
    BY DEF ReviewInv, HeldRowsLive, LiveRow
  <2> QED BY <1>1, <1>7, <1>8, <2>1
<1>10. ReviewTypes'
  BY <1>1, <1>3, <1>6, <1>7 DEF ReviewInv, ReviewTypes, RequestShape, Fine
<1>11. HeldRowsLive'
  BY <1>1, <1>4, <1>7, <1>9 DEF ReviewInv, HeldRowsLive
<1>12. HeldRowsApproved'
  <2>1. ASSUME NEW s \in Requests, request'[s].review \notin torn'
        PROVE  /\ request'[s].step = "read" => ApprovedAs(request[s].review, request[s].copy)'
               /\ request'[s].step = "write" =>
                     ApprovedAs(request[s].review,
                                Merged(request[s].changes, reviews[request[s].review]))'
    <3>1. request'[s] = request[s] /\ request[s].review \notin torn
      BY <1>1, <2>1
    <3>2. CASE request[s].step = "read"
      <4>1. ApprovedAs(request[s].review, request[s].copy)
        BY <3>1, <3>2 DEF ReviewInv, HeldRowsApproved
      <4>2. request'[s].step # "write"
        BY <3>1, <3>2
      <4> QED BY <1>6, <3>1, <4>1, <4>2 DEF ApprovedAs
    <3>3. CASE request[s].step = "write"
      <4>1. PICK m : m = Merged(request[s].changes, reviews[request[s].review])
        OBVIOUS
      <4>2. ApprovedAs(request[s].review, m)
        BY <3>1, <3>3, <4>1 DEF ReviewInv, HeldRowsApproved
      <4>3. m = Merged(request[s].changes, reviews[request[s].review])'
        BY <1>9, <3>1, <3>3, <4>1
      <4>4. request'[s].step # "read"
        BY <3>1, <3>3
      <4> QED BY <1>6, <3>1, <4>2, <4>3, <4>4 DEF ApprovedAs
    <3> QED BY <3>1, <3>2, <3>3
  <2> QED BY <2>1 DEF HeldRowsApproved
<1>13. PublishedTextWasApproved'
  BY <1>1, <1>6, <1>7 DEF ReviewInv, PublishedTextWasApproved
<1> QED BY <1>10, <1>11, <1>12, <1>13 DEF ReviewInv

(* What a request that saves has read. *)
LEMMA HeldCopy ==
    ASSUME ReviewInv, NEW t \in Requests, request[t].step = "read"
    PROVE  /\ request[t].copy \in LiveRow /\ request[t].copy \in ReviewRow
           /\ request[t].review \in Reviews
           /\ request[t].review \notin torn => ApprovedAs(request[t].review, request[t].copy)
           /\ texts \in 0 .. MaxVersions /\ approvals \subseteq Reviews \X Texts
BY DEF ReviewInv, ReviewTypes, RequestShape, HeldRowsLive, HeldRowsApproved

(* A save that approves nothing: what it publishes was published, or is    *)
(* not.                                                                    *)
LEMMA SaveUnapproved ==
    ASSUME ReviewInv, NEW t \in Requests, NEW row \in LiveRow, SaveReview(t, row),
           UNCHANGED approvals, texts' \in 0 .. MaxVersions,
           row.status # "approved" \/ (/\ row.status = request[t].copy.status
                                       /\ row.text = request[t].copy.text)
    PROVE  ReviewInv'
<1>1. request[t].step = "read"
  BY DEF SaveReview
<1>2. request[t].review \notin torn => ApprovedAs(request[t].review, row)'
  <2>1. request'[t].review = request[t].review
    BY SaveEffect
  <2> QED BY <1>1, <2>1, HeldCopy DEF ApprovedAs
<1>3. approvals \subseteq approvals' /\ approvals' \subseteq Reviews \X Texts
  BY <1>1, HeldCopy
<1> QED BY <1>2, <1>3, SaveCorrectReview

(* A save that approves what it saves. *)
LEMMA SaveApproved ==
    ASSUME ReviewInv, NEW t \in Requests, NEW row \in LiveRow, SaveReview(t, row),
           Approve(request[t].review, row), UNCHANGED texts
    PROVE  ReviewInv'
<1>1. request[t].step = "read"
  BY DEF SaveReview
<1>2. row.text \in Texts
  BY DEF LiveRow
<1>3. approvals \subseteq approvals' /\ approvals' \subseteq Reviews \X Texts
  BY <1>1, <1>2, HeldCopy DEF Approve
<1>4. ApprovedAs(request[t].review, row)'
  <2>1. request'[t].review = request[t].review
    BY SaveEffect
  <2> QED BY <2>1 DEF Approve, ApprovedAs
<1>5. texts' \in 0 .. MaxVersions
  BY <1>1, HeldCopy
<1> QED BY <1>3, <1>4, <1>5, SaveCorrectReview

(* Authors and readers. *)
LEMMA AuthorStep ==
    ASSUME ReviewInv, NEW t \in Requests,
           UpdateReview(t) \/ DeleteReview(t) \/ MarkReviewHelpful(t) \/ ReportReview(t)
    PROVE  ReviewInv'
<1>1. request[t].step = "read"
  BY DEF UpdateReview, DeleteReview, MarkReviewHelpful, ReportReview, SaveReview
<1>2. PICK copy : copy = request[t].copy
  OBVIOUS
<1>3. copy \in LiveRow /\ copy \in ReviewRow /\ copy.status # "none" /\ copy.text \in Texts
      /\ texts \in 0 .. MaxVersions
  BY <1>1, <1>2, HeldCopy DEF LiveRow
<1>4. CASE UpdateReview(t)
  <2>1. PICK rating \in Ratings :
           SaveReview(t, [copy EXCEPT !.text = texts + 1, !.rating = rating, !.status = "pending"])
    BY <1>2, <1>4 DEF UpdateReview
  <2>2. texts + 1 \in Texts /\ texts + 1 \in 0 .. MaxVersions
        /\ texts' = texts + 1 /\ UNCHANGED approvals
    <3>1. texts < MaxVersions /\ texts' = texts + 1 /\ UNCHANGED approvals
      BY <1>4 DEF UpdateReview
    <3> QED BY <1>3, <3>1, ReviewAssumption DEF Texts
  <2>3. PICK row : row = [copy EXCEPT !.text = texts + 1, !.rating = rating, !.status = "pending"]
    OBVIOUS
  <2>4. row \in LiveRow /\ row.status = "pending"
    BY <1>3, <2>2, <2>3, ReviewAssumption DEF LiveRow, ReviewRow, Status
  <2> QED BY <2>1, <2>2, <2>3, <2>4, SaveUnapproved
<1>5. CASE DeleteReview(t)
  <2>1. PICK row : row = [copy EXCEPT !.status = "deleted"]
    OBVIOUS
  <2>2. row \in LiveRow /\ row.status = "deleted"
    BY <1>3, <2>1 DEF LiveRow, ReviewRow, Status
  <2>3. SaveReview(t, row) /\ UNCHANGED <<texts, approvals>>
    BY <1>2, <1>5, <2>1 DEF DeleteReview
  <2> QED BY <1>3, <2>2, <2>3, SaveUnapproved
<1>6. CASE MarkReviewHelpful(t)
  <2>1. SaveReview(t, copy) /\ UNCHANGED <<texts, approvals>>
    BY <1>2, <1>6 DEF MarkReviewHelpful
  <2> QED BY <1>2, <1>3, <2>1, SaveUnapproved
<1>7. CASE ReportReview(t)
  <2> DEFINE n == copy.reports + 1
  <2>1. PICK row : row = IF n >= FlagThreshold /\ copy.status = "approved"
                         THEN [copy EXCEPT !.reports = n, !.status = "flagged", !.reasons = TRUE]
                         ELSE [copy EXCEPT !.reports = n]
    OBVIOUS
  <2>2. SaveReview(t, row) /\ UNCHANGED <<texts, approvals>> /\ copy.reports < AutoFlagCount
    BY <1>2, <1>7, <2>1 DEF ReportReview
  <2>3. n \in 0 .. AutoFlagCount
    BY <1>3, <2>2, ReviewAssumption DEF ReviewRow
  <2> HIDE DEF n
  <2>4. /\ row \in LiveRow
        /\ row.status = "flagged" \/ (row.status = copy.status /\ row.text = copy.text)
    BY <1>3, <2>1, <2>3 DEF LiveRow, ReviewRow, Status
  <2> QED BY <1>2, <1>3, <2>2, <2>4, SaveUnapproved
<1> QED BY <1>4, <1>5, <1>6, <1>7

(* Moderators, and the automatic moderation. *)
LEMMA ModeratorStep ==
    ASSUME ReviewInv, NEW t \in Requests,
           AutoApprove(t) \/ AutoFlag(t) \/ \E action \in Actions : Moderate(t, action)
    PROVE  ReviewInv'
<1>1. request[t].step = "read"
  BY DEF AutoApprove, AutoFlag, Moderate, SaveReview
<1>2. PICK copy : copy = request[t].copy
  OBVIOUS
<1>3. copy \in LiveRow /\ copy \in ReviewRow /\ copy.status # "none" /\ copy.text \in Texts
      /\ texts \in 0 .. MaxVersions
  BY <1>1, <1>2, HeldCopy DEF LiveRow
<1>4. CASE AutoApprove(t)
  <2>1. PICK row : row = [copy EXCEPT !.status = "approved"]
    OBVIOUS
  <2>2. row \in LiveRow
    BY <1>3, <2>1 DEF LiveRow, ReviewRow, Status
  <2>3. SaveReview(t, row) /\ Approve(request[t].review, row) /\ UNCHANGED texts
    BY <1>2, <1>4, <2>1 DEF AutoApprove
  <2> QED BY <2>2, <2>3, SaveApproved
<1>5. CASE AutoFlag(t)
  <2>1. PICK row : row = [copy EXCEPT !.status = "flagged", !.reasons = TRUE]
    OBVIOUS
  <2>2. row \in LiveRow /\ row.status = "flagged"
    BY <1>3, <2>1 DEF LiveRow, ReviewRow, Status
  <2>3. SaveReview(t, row) /\ UNCHANGED <<texts, approvals>>
    BY <1>2, <1>5, <2>1 DEF AutoFlag
  <2> QED BY <1>3, <2>2, <2>3, SaveUnapproved
<1>6. ASSUME NEW action \in Actions, Moderate(t, action) PROVE ReviewInv'
  <2>1. PICK row : row = [copy EXCEPT !.status = StatusAfter(action, copy.status)]
    OBVIOUS
  <2>2. /\ SaveReview(t, row) /\ UNCHANGED texts
        /\ IF action \in {"approve", "unflag"}
           THEN Approve(request[t].review, row) ELSE UNCHANGED approvals
    BY <1>2, <1>6, <2>1 DEF Moderate
  <2>3. StatusAfter(action, copy.status) \in
           IF action \in {"approve", "unflag"} THEN {"approved"}
           ELSE {"rejected", "deleted", "flagged", copy.status}
    BY DEF StatusAfter, Actions
  <2>4. /\ row \in LiveRow /\ row.text = copy.text
        /\ row.status = StatusAfter(action, copy.status)
    <3>1. StatusAfter(action, copy.status) \in Status \ {"none"}
      BY <1>3, <2>3 DEF ReviewRow, Status
    <3> QED BY <1>3, <2>1, <3>1 DEF LiveRow, ReviewRow
  <2>5. CASE action \in {"approve", "unflag"}
    BY <2>2, <2>4, <2>5, SaveApproved
  <2>6. CASE action \notin {"approve", "unflag"}
    <3>1. row.status # "approved" \/ row.status = copy.status
      BY <2>3, <2>4, <2>6
    <3> QED BY <1>2, <1>3, <2>2, <2>4, <2>6, <3>1, SaveUnapproved
  <2> QED BY <2>5, <2>6
<1> QED BY <1>4, <1>5, <1>6

LEMMA ReviewInitCorrect ==
    ASSUME ReviewInit
    PROVE  ReviewInv
<1>1. NoReview \in ReviewRow /\ NoReview.status = "none"
  BY ReviewAssumption DEF NoReview, ReviewRow, Status
<1>2. RequestShape(Idle) /\ Idle.step = "idle"
  BY IdleShape
<1>3. ReviewTypes
  BY <1>1, <1>2, ReviewAssumption DEF ReviewInit, ReviewTypes
<1> QED BY <1>1, <1>2, <1>3 DEF ReviewInit, ReviewInv, HeldRowsLive, HeldRowsApproved,
           PublishedTextWasApproved

(* What readers see was approved as it stands, unless two saves have       *)
(* interleaved statement by statement on that review.                      *)
THEOREM PublishedCorrect == ReviewSpec => [](ReviewTypeOK /\ PublishedTextWasApproved)
<1>1. ReviewInit => ReviewInv
  BY ReviewInitCorrect
<1>2. ReviewInv /\ [ReviewNext]_reviewVars => ReviewInv'
  <2> SUFFICES ASSUME ReviewInv, [ReviewNext]_reviewVars PROVE ReviewInv'
    OBVIOUS
  <2>1. CASE ReviewNext
    BY <2>1, CreateReviewCorrect, ReadReviewCorrect, AuthorStep, ModeratorStep,
       WriteReviewCorrect, GiveUpCorrect DEF ReviewNext
  <2>2. CASE UNCHANGED reviewVars
    BY <2>2 DEF reviewVars, ReviewInv, ReviewTypes, RequestShape, HeldRowsLive,
                HeldRowsApproved, ApprovedAs, PublishedTextWasApproved
  <2> QED BY <2>1, <2>2
<1>3. ReviewInv => ReviewTypeOK /\ PublishedTextWasApproved
  <2> SUFFICES ASSUME ReviewInv PROVE ReviewTypeOK /\ PublishedTextWasApproved
    OBVIOUS
  <2>1. NoReview \in ReviewRow
    BY ReviewAssumption DEF NoReview, ReviewRow, Status
  <2>2. \A t \in Requests : Merged(request[t].changes, NoReview) \in ReviewRow
    BY <2>1 DEF ReviewInv, ReviewTypes, RequestShape, Fine
  <2> QED BY <2>2 DEF ReviewInv, ReviewTypes, RequestShape, ReviewTypeOK
<1> QED BY <1>1, <1>2, <1>3, PTL DEF ReviewSpec

-----------------------------------------------------------------------------
(* RewardClaims. *)

ClaimStage == [stage : {"none", "begun", "insert"}, row : ClaimRow]

ClaimsTypes ==
    /\ reward \in [Rewards -> [exists : BOOLEAN, isActive : BOOLEAN,
                               currentClaims : Nat, maxClaims : 0 .. MaxClaims]]
    /\ claims \subseteq ClaimRow /\ IsFiniteSet(claims)
    /\ claimer \in [Claimers -> ClaimStage]
    /\ deleting \subseteq Rewards

(* The unique key (userId, rewardId). *)
OneClaimEach == \A c, d \in claims : c.user = d.user /\ c.reward = d.reward => c = d

(* The transactions that have found room under the limit of a reward. *)
Pending(r) == {t \in Claimers : claimer[t].stage = "insert" /\ claimer[t].row.reward = r}

(* Each of them may still insert its row.  One of them read the counter    *)
(* last, so that the claims and the others are below the limit and the     *)
(* number of transactions.                                                 *)
RewardOK(r) ==
    /\ reward[r].currentClaims = Cardinality(ClaimsOf(r))
    /\ Cardinality(ClaimsOf(r)) + Cardinality(Pending(r))
          < reward[r].maxClaims + Cardinality(Claimers)
    /\ ~reward[r].exists => ClaimsOf(r) = {} /\ Pending(r) = {} /\ ~reward[r].isActive

ClaimsInv == ClaimsTypes /\ OneClaimEach /\ \A r \in Rewards : RewardOK(r)

LEMMA ClaimCounts ==
    ASSUME ClaimsTypes, NEW r
    PROVE  /\ IsFiniteSet(ClaimsOf(r)) /\ Cardinality(ClaimsOf(r)) \in Nat
           /\ IsFiniteSet(Pending(r)) /\ Cardinality(Pending(r)) \in Nat
           /\ Cardinality(Pending(r)) <= Cardinality(Claimers)
           /\ Cardinality(Claimers) \in Nat /\ Cardinality(Claimers) > 0
<1>1. ClaimsOf(r) \in SUBSET claims /\ Pending(r) \in SUBSET Claimers
  BY DEF ClaimsOf, Pending
<1>2. IsFiniteSet(claims) /\ IsFiniteSet(Claimers) /\ Claimers # {}
  BY ClaimsAssumption DEF ClaimsTypes
<1>3. Cardinality(Claimers) \in Nat /\ Cardinality(Claimers) # 0
  BY <1>2, FS_CardinalityType, FS_EmptySet
<1> QED BY <1>1, <1>2, <1>3, FS_Subset, FS_CardinalityType

(* A step in which no transaction finds room, and which adds no claim. *)
LEMMA ClaimsStay ==
    ASSUME ClaimsInv, ClaimsTypes', UNCHANGED claims,
           \A r \in Rewards : /\ Pending(r)' \subseteq Pending(r)
                              /\ reward'[r].currentClaims = reward[r].currentClaims
                              /\ reward'[r].maxClaims = reward[r].maxClaims
                                 \/ (~reward[r].exists /\ reward'[r].exists)
                              /\ ~reward'[r].exists => ~reward[r].exists /\ ~reward'[r].isActive
    PROVE  ClaimsInv'
<1>1. OneClaimEach'
  BY DEF ClaimsInv, OneClaimEach
<1>2. ASSUME NEW r \in Rewards PROVE RewardOK(r)'
  <2>1. ClaimsOf(r)' = ClaimsOf(r) /\ RewardOK(r)
    BY DEF ClaimsInv, ClaimsOf
  <2>2. PICK p, q : p = Pending(r)' /\ q = Pending(r)
    OBVIOUS
  <2>3. /\ IsFiniteSet(q) /\ Cardinality(q) \in Nat
        /\ IsFiniteSet(p) /\ Cardinality(p) \in Nat /\ p \subseteq q
    <3>1. IsFiniteSet(q) /\ Cardinality(q) \in Nat /\ p \subseteq q
      BY <2>2, ClaimCounts DEF ClaimsInv
    <3>2. IsFiniteSet(p)
      BY <3>1, FS_Subset
    <3> QED BY <3>1, <3>2, FS_CardinalityType
  <2>4. Cardinality(p) <= Cardinality(q)
    BY <2>3, FS_Subset
  <2>5. /\ Cardinality(ClaimsOf(r)) \in Nat /\ Cardinality(Claimers) \in Nat
        /\ Cardinality(Claimers) > 0
        /\ reward[r].maxClaims \in Nat /\ reward'[r].maxClaims \in Nat
    BY ClaimCounts, ClaimsAssumption DEF ClaimsInv, ClaimsTypes
  <2>6. CASE reward'[r].maxClaims = reward[r].maxClaims
    <3>1. Cardinality(ClaimsOf(r)) + Cardinality(p) < reward'[r].maxClaims + Cardinality(Claimers)
      BY <2>1, <2>2, <2>3, <2>4, <2>5, <2>6 DEF RewardOK
    <3>2. ~reward'[r].exists => ClaimsOf(r) = {} /\ p = {}
      BY <2>1, <2>2, <2>3 DEF RewardOK
    <3> QED BY <2>1, <2>2, <3>1, <3>2 DEF RewardOK
  <2>7. CASE ~reward[r].exists /\ reward'[r].exists
    <3>1. ClaimsOf(r) = {} /\ p = {}
      BY <2>1, <2>2, <2>3, <2>7 DEF RewardOK
    <3>2. Cardinality(ClaimsOf(r)) = 0 /\ Cardinality(p) = 0
      BY <3>1, FS_EmptySet
    <3>3. Cardinality(ClaimsOf(r)) + Cardinality(p) < reward'[r].maxClaims + Cardinality(Claimers)
      BY <2>5, <3>2
    <3> QED BY <2>1, <2>2, <2>7, <3>3 DEF RewardOK
  <2> QED BY <2>6, <2>7
<1> QED BY <1>1, <1>2 DEF ClaimsInv

(* Administration of rewards. *)
LEMMA RewardStep ==
    ASSUME ClaimsInv, NEW r \in Rewards,
           (\E limit \in 1 .. MaxClaims : CreateReward(r, limit)) \/ CountClaims(r) \/ DeleteReward(r)
    PROVE  ClaimsInv'
<1>1. CASE \E limit \in 1 .. MaxClaims : CreateReward(r, limit)
  <2>1. PICK limit \in 1 .. MaxClaims : CreateReward(r, limit)
    BY <1>1
  <2>2. ClaimsTypes'
    BY <2>1, ClaimsAssumption DEF CreateReward, ClaimsInv, ClaimsTypes
  <2>3. Cardinality(ClaimsOf(r)) = 0 /\ reward[r].currentClaims = 0
    BY <2>1, FS_EmptySet DEF ClaimsInv, RewardOK, CreateReward
  <2>4. \A u \in Rewards : /\ Pending(u)' = Pending(u)
                           /\ reward'[u].currentClaims = reward[u].currentClaims
                           /\ u # r => reward'[u] = reward[u]
                           /\ ~reward[r].exists /\ reward'[r].exists
    BY <2>1, <2>3 DEF CreateReward, Pending, ClaimsInv, ClaimsTypes
  <2>5. \A u \in Rewards : ~reward[u].exists => ~reward[u].isActive
    BY DEF ClaimsInv, RewardOK
  <2> QED BY <2>1, <2>2, <2>4, <2>5, ClaimsStay DEF CreateReward
<1>2. CASE CountClaims(r)
  <2>1. ClaimsTypes' /\ UNCHANGED <<reward, claims, claimer>>
    BY <1>2 DEF CountClaims, ClaimsInv, ClaimsTypes
  <2>2. \A u \in Rewards : ~reward[u].exists => ~reward[u].isActive
    BY DEF ClaimsInv, RewardOK
  <2> QED BY <2>1, <2>2, ClaimsStay DEF Pending
<1>3. CASE DeleteReward(r)
  <2>1. ClaimsTypes'
    BY <1>3 DEF DeleteReward, ClaimsInv, ClaimsTypes
  <2>2. \A u \in Rewards : /\ Pending(u)' = Pending(u)
                           /\ reward'[u].currentClaims = reward[u].currentClaims
                           /\ reward'[u].maxClaims = reward[u].maxClaims
                           /\ reward'[u].exists = reward[u].exists
                           /\ reward'[u].isActive => reward[u].isActive
    BY <1>3 DEF DeleteReward, Pending, ClaimsInv, ClaimsTypes
  <2>3. \A u \in Rewards : ~reward[u].exists => ~reward[u].isActive
    BY DEF ClaimsInv, RewardOK
  <2> QED BY <1>3, <2>1, <2>2, <2>3, ClaimsStay DEF DeleteReward
<1> QED BY <1>1, <1>2, <1>3

LEMMA NoClaimerTyped == NoClaimer \in ClaimStage /\ NoClaimer.stage = "none"
<1>1. (CHOOSE u \in ClaimUsers : TRUE) \in ClaimUsers /\ (CHOOSE r \in Rewards : TRUE) \in Rewards
  BY ClaimsAssumption
<1> QED BY <1>1 DEF NoClaimer, ClaimStage, ClaimRow

(* A transaction that starts or rolls back. *)
LEMMA ClaimerStep ==
    ASSUME ClaimsInv, NEW t \in Claimers,
           (\E u \in ClaimUsers, k \in DedupeKeys \cup {NoKey} : BeginClaim(t, u, k)) \/ RollBack(t)
    PROVE  ClaimsInv'
<1>1. PICK s \in ClaimStage : /\ claimer' = [claimer EXCEPT ![t] = s] /\ s.stage # "insert"
                              /\ UNCHANGED <<reward, claims, deleting>>
  <2>1. CASE RollBack(t)
    BY <2>1, NoClaimerTyped DEF RollBack
  <2>2. CASE \E u \in ClaimUsers, k \in DedupeKeys \cup {NoKey} : BeginClaim(t, u, k)
    <3>1. PICK u \in ClaimUsers, k \in DedupeKeys \cup {NoKey} : BeginClaim(t, u, k)
      BY <2>2
    <3> DEFINE s == [stage |-> "begun",
                     row |-> [claimer[t].row EXCEPT !.user = u, !.dedupeKey = k]]
    <3>2. claimer[t] \in ClaimStage
      BY DEF ClaimsInv, ClaimsTypes
    <3>3. s \in ClaimStage /\ s.stage # "insert"
      BY <3>2 DEF ClaimStage, ClaimRow
    <3>4. claimer' = [claimer EXCEPT ![t] = s]
      BY <3>1 DEF BeginClaim
    <3> QED BY <3>1, <3>3, <3>4 DEF BeginClaim
  <2> QED BY <2>1, <2>2
<1>2. ClaimsTypes'
  BY <1>1 DEF ClaimsInv, ClaimsTypes
<1>3. \A r \in Rewards : Pending(r)' \subseteq Pending(r)
  BY <1>1 DEF Pending, ClaimsInv, ClaimsTypes
<1>4. \A r \in Rewards : ~reward[r].exists => ~reward[r].isActive
  BY DEF ClaimsInv, RewardOK
<1> QED BY <1>1, <1>2, <1>3, <1>4, ClaimsStay

(* A transaction finds room under the limit: the claims it counted and the *)
(* transactions that hold a look at the limit, itself among them.          *)
LEMMA ReadRewardStep ==
    ASSUME ClaimsInv, NEW t \in Claimers, NEW r \in Rewards, ReadReward(t, r)
    PROVE  ClaimsInv'
<1>1. ClaimsTypes'
  <2>1. claimer[t] \in ClaimStage
    BY DEF ClaimsInv, ClaimsTypes
  <2> DEFINE s == [stage |-> "insert",
                   row |-> [claimer[t].row EXCEPT !.reward = r]]
  <2>2. s \in ClaimStage
    BY <2>1 DEF ClaimStage, ClaimRow
  <2>3. claimer' = [claimer EXCEPT ![t] = s]
    BY DEF ReadReward
  <2> HIDE DEF s
  <2> QED BY <2>2, <2>3 DEF ClaimsInv, ClaimsTypes, ReadReward
<1>2. OneClaimEach'
  BY DEF ClaimsInv, OneClaimEach, ReadReward
<1>3. ASSUME NEW u \in Rewards PROVE RewardOK(u)'
  <2>1. RewardOK(u) /\ ClaimsOf(u)' = ClaimsOf(u) /\ reward' = reward
    BY DEF ClaimsInv, ClaimsOf, ReadReward
  <2>2. CASE u = r
    <3>1. PICK n : n = Cardinality(Pending(u)')
      OBVIOUS
    <3>2. n \in Nat /\ n <= Cardinality(Claimers) /\ Cardinality(Claimers) \in Nat
      <4>1. Pending(u)' \in SUBSET Claimers
        BY DEF Pending
      <4> QED BY <3>1, <4>1, ClaimsAssumption, FS_Subset, FS_CardinalityType
    <3>3. reward[u].currentClaims < reward[u].maxClaims /\ reward[u].isActive
      BY <2>2 DEF ReadReward, Claimable
    <3>4. reward[u].maxClaims \in Nat /\ Cardinality(ClaimsOf(u)) \in Nat
      BY ClaimCounts, ClaimsAssumption DEF ClaimsInv, ClaimsTypes
    <3>5. Cardinality(ClaimsOf(u)) + n < reward[u].maxClaims + Cardinality(Claimers)
      BY <2>1, <3>2, <3>3, <3>4 DEF RewardOK
    <3>6. reward[u].exists
      BY <2>1, <3>3 DEF RewardOK
    <3> QED BY <2>1, <3>1, <3>5, <3>6 DEF RewardOK
  <2>3. CASE u # r
    <3>1. Pending(u)' = Pending(u)
      BY <2>3 DEF Pending, ReadReward, ClaimsInv, ClaimsTypes, ClaimStage
    <3> QED BY <2>1, <3>1 DEF RewardOK
  <2> QED BY <2>2, <2>3
<1> QED BY <1>1, <1>2, <1>3 DEF ClaimsInv

(* A claim is inserted and counted, and its transaction no longer holds a  *)
(* look at the limit.                                                      *)
LEMMA CommitClaimStep ==
    ASSUME ClaimsInv, NEW t \in Claimers, CommitClaim(t)
    PROVE  ClaimsInv'
<1>1. PICK row \in ClaimRow : row = claimer[t].row
  BY DEF ClaimsInv, ClaimsTypes, ClaimStage
<1>2. row.reward \in Rewards /\ claimer[t].stage = "insert"
  BY <1>1 DEF ClaimRow, CommitClaim
<1>3. /\ claims' = claims \cup {row}
      /\ \A c \in claims : ~(c.user = row.user /\ c.reward = row.reward)
      /\ reward' = [reward EXCEPT ![row.reward].currentClaims = reward[row.reward].currentClaims + 1]
      /\ claimer' = [claimer EXCEPT ![t] = NoClaimer] /\ deleting' = deleting
  BY <1>1 DEF CommitClaim
<1>4. ClaimsTypes'
  <2>1. claims' \subseteq ClaimRow /\ IsFiniteSet(claims')
    BY <1>3, FS_AddElement DEF ClaimsInv, ClaimsTypes
  <2>2. claimer' \in [Claimers -> ClaimStage]
    BY <1>3, NoClaimerTyped DEF ClaimsInv, ClaimsTypes
  <2>3. reward' \in [Rewards -> [exists : BOOLEAN, isActive : BOOLEAN,
                                 currentClaims : Nat, maxClaims : 0 .. MaxClaims]]
    BY <1>2, <1>3 DEF ClaimsInv, ClaimsTypes
  <2> QED BY <1>3, <2>1, <2>2, <2>3 DEF ClaimsInv, ClaimsTypes
<1>5. OneClaimEach'
  BY <1>3 DEF ClaimsInv, OneClaimEach
<1>6. ASSUME NEW u \in Rewards PROVE RewardOK(u)'
  <2>1. RewardOK(u)
    BY DEF ClaimsInv
  <2>2. CASE u = row.reward
    <3>1. PICK c, p, n, m : /\ c = ClaimsOf(u) /\ p = Pending(u)
                            /\ n = Cardinality(c) /\ m = Cardinality(p)
      OBVIOUS
    <3>2. IsFiniteSet(c) /\ IsFiniteSet(p) /\ n \in Nat /\ m \in Nat
      BY <3>1, ClaimCounts DEF ClaimsInv
    <3>3. row \notin c /\ t \in p
      BY <1>1, <1>2, <1>3, <2>2, <3>1 DEF ClaimsOf, Pending
    <3>4. ClaimsOf(u)' = c \cup {row}
      BY <1>3, <2>2, <3>1 DEF ClaimsOf
    <3>5. Pending(u)' = p \ {t}
      BY <1>3, <3>1, NoClaimerTyped DEF Pending, ClaimsInv, ClaimsTypes
    <3>6. Cardinality(c \cup {row}) = n + 1
      BY <3>1, <3>2, <3>3, FS_AddElement
    <3>7. Cardinality(p \ {t}) = m - 1
      BY <3>1, <3>2, <3>3, FS_RemoveElement
    <3>8. /\ reward'[u].currentClaims = reward[u].currentClaims + 1
          /\ reward'[u].maxClaims = reward[u].maxClaims /\ reward'[u].exists = reward[u].exists
      BY <1>3, <2>2 DEF ClaimsInv, ClaimsTypes
    <3>9. reward[u].exists
      BY <2>1, <3>1, <3>3 DEF RewardOK
    <3>10. reward[u].maxClaims \in Nat /\ Cardinality(Claimers) \in Nat
      BY ClaimCounts, ClaimsAssumption DEF ClaimsInv, ClaimsTypes
    <3>11. (n + 1) + (m - 1) < reward[u].maxClaims + Cardinality(Claimers)
      BY <2>1, <3>1, <3>2, <3>10 DEF RewardOK
    <3>12. reward[u].currentClaims = n
      BY <2>1, <3>1 DEF RewardOK
    <3> QED BY <3>4, <3>5, <3>6, <3>7, <3>8, <3>9, <3>11, <3>12 DEF RewardOK
  <2>3. CASE u # row.reward
    <3>1. ClaimsOf(u)' = ClaimsOf(u) /\ reward'[u] = reward[u]
      BY <1>3, <2>3 DEF ClaimsOf, ClaimsInv, ClaimsTypes
    <3>2. Pending(u)' = Pending(u)
      BY <1>1, <1>3, <2>3, NoClaimerTyped DEF Pending, ClaimsInv, ClaimsTypes
    <3> QED BY <2>1, <3>1, <3>2 DEF RewardOK
  <2> QED BY <2>2, <2>3
<1> QED BY <1>4, <1>5, <1>6 DEF ClaimsInv

(* The unique key bounds the claims of a reward by the users.              *)
LEMMA ClaimsBounded ==
    ASSUME ClaimsInv
    PROVE  ClaimsTypeOK
<1>1. ASSUME NEW r \in Rewards PROVE reward[r].currentClaims <= Cardinality(ClaimUsers)
  <2> DEFINE f == [c \in ClaimsOf(r) |-> c.user]
  <2>1. \A c \in ClaimsOf(r) : c \in claims /\ c.reward = r /\ c.user \in ClaimUsers
    BY DEF ClaimsOf, ClaimsInv, ClaimsTypes, ClaimRow
  <2>2. f \in [ClaimsOf(r) -> ClaimUsers]
    BY <2>1
  <2>3. \A c, d \in ClaimsOf(r) : f[c] = f[d] => c = d
    BY <2>1 DEF ClaimsInv, OneClaimEach
  <2> HIDE DEF f
  <2>4. f \in Injection(ClaimsOf(r), ClaimUsers)
    BY <2>2, <2>3 DEF Injection, IsInjective
  <2>5. Cardinality(ClaimsOf(r)) <= Cardinality(ClaimUsers)
    BY <2>4, FS_Injection, ClaimsAssumption
  <2> QED BY <2>5 DEF ClaimsInv, RewardOK
<1>2. Cardinality(ClaimUsers) \in Nat
  BY ClaimsAssumption, FS_CardinalityType
<1>3. \A r \in Rewards : reward[r] \in [exists : BOOLEAN, isActive : BOOLEAN,
                    currentClaims : 0 .. Cardinality(ClaimUsers), maxClaims : 0 .. MaxClaims]
  <2> TAKE r \in Rewards
  <2>1. reward[r] \in [exists : BOOLEAN, isActive : BOOLEAN,
                       currentClaims : Nat, maxClaims : 0 .. MaxClaims]
    BY DEF ClaimsInv, ClaimsTypes
  <2>2. reward[r].currentClaims \in 0 .. Cardinality(ClaimUsers)
    BY <1>1, <1>2, <2>1
  <2> QED BY <2>1, <2>2
<1> QED BY <1>3 DEF ClaimsInv, ClaimsTypes, ClaimsTypeOK, ClaimStage

(* However claims overlap, the counter of a reward is the number of its    *)
(* claims, and its limit is passed by less than the transactions under way *)
(* at a time.                                                              *)
THEOREM ClaimsCorrect == ClaimsSpec => [](ClaimsTypeOK /\ ClaimsStayNearLimit)
<1>1. ClaimsInit => ClaimsInv
  <2> SUFFICES ASSUME ClaimsInit PROVE ClaimsInv
    OBVIOUS
  <2>1. ClaimsTypes
    BY NoClaimerTyped, ClaimsAssumption, FS_EmptySet DEF ClaimsInit, ClaimsTypes, NoReward
  <2>2. ASSUME NEW r \in Rewards PROVE RewardOK(r)
    <3>1. ClaimsOf(r) = {} /\ Pending(r) = {}
      BY NoClaimerTyped DEF ClaimsInit, ClaimsOf, Pending
    <3>2. Cardinality(ClaimsOf(r)) = 0 /\ Cardinality(Pending(r)) = 0
      BY <3>1, FS_EmptySet
    <3>3. Cardinality(Claimers) \in Nat /\ Cardinality(Claimers) > 0
      BY <2>1, ClaimCounts
    <3> QED BY <3>1, <3>2, <3>3 DEF ClaimsInit, RewardOK, NoReward
  <2>3. OneClaimEach
    BY DEF ClaimsInit, OneClaimEach
  <2> QED BY <2>1, <2>2, <2>3 DEF ClaimsInv
<1>2. ClaimsInv /\ [ClaimsNext]_claimVars => ClaimsInv'
  <2>1. ASSUME ClaimsInv, ClaimsNext PROVE ClaimsInv'
    BY <2>1, RewardStep, ClaimerStep, ReadRewardStep, CommitClaimStep DEF ClaimsNext
  <2>2. ASSUME ClaimsInv, UNCHANGED claimVars PROVE ClaimsInv'
    BY <2>2 DEF claimVars, ClaimsInv, ClaimsTypes, OneClaimEach, RewardOK, ClaimsOf, Pending
  <2> QED BY <2>1, <2>2
<1>3. ClaimsInv => ClaimsTypeOK /\ ClaimsStayNearLimit
  <2> SUFFICES ASSUME ClaimsInv PROVE ClaimsTypeOK /\ ClaimsStayNearLimit
    OBVIOUS
  <2>1. ASSUME NEW r \in Rewards
        PROVE  /\ reward[r].currentClaims = Cardinality(ClaimsOf(r))
               /\ Cardinality(ClaimsOf(r)) < reward[r].maxClaims + Cardinality(Claimers)
    <3>1. reward[r].maxClaims \in Nat
      BY ClaimsAssumption DEF ClaimsInv, ClaimsTypes
    <3>2. /\ Cardinality(ClaimsOf(r)) \in Nat /\ Cardinality(Pending(r)) \in Nat
          /\ Cardinality(Claimers) \in Nat
      BY ClaimCounts DEF ClaimsInv
    <3> QED BY <3>1, <3>2 DEF ClaimsInv, RewardOK
  <2> QED BY <2>1, ClaimsBounded DEF ClaimsStayNearLimit
<1> QED BY <1>1, <1>2, <1>3, PTL DEF ClaimsSpec

-----------------------------------------------------------------------------
(* PrizePool. *)

TxRow == [stage : {"none", "save", "write"}, copy : PoolRow, dirty : SUBSET DOMAIN NoPool,
          entry : Entry]

PoolTypes == PoolTypeOK /\ tx \in [Transactions -> TxRow]

(* The audit trail a with the records e. *)
Plus(a, e) == [f \in DOMAIN NoEntry |-> a[f] + e[f]]

(* A row shows no money that the audit trail a does not. *)
Backed(p, a) ==
    /\ p.totalFunded <= a.funded /\ p.totalDistributed <= a.paid + a.records
    /\ p.balance <= a.funded

(* The books agree. *)
Books(p, a) ==
    LET handed == a.funded * HandedOut(p.rules, a.finishers)
    IN  /\ p.totalFunded = a.funded
        /\ p.isDistributed <=> a.finishers > 0
        /\ a.records = Cardinality(PaidPlaces(p.rules, a.finishers))
        /\ a.paid \in Rounded(handed, a.records)
        /\ p.totalDistributed \in Rounded(handed, 1)
        /\ p.balance \in Rounded(Left(a.funded, handed), 1)

BeforeSave(t) == tx[t].stage # "none"

(* What a transaction saves is backed by the trail that it is about to     *)
(* write: whichever of its columns differ from the row that it meets then. *)
PoolBacked ==
    /\ Backed(pool, audit)
    /\ \A t \in Transactions : BeforeSave(t) => Backed(tx[t].copy, Plus(audit, tx[t].entry))

(* Without an overlap the only transaction knows the row that it meets.    *)
PoolExact ==
    ~overlapped =>
        /\ Books(pool, audit)
        /\ \A s, t \in Transactions : BeforeSave(s) /\ BeforeSave(t) => s = t
        /\ \A t \in Transactions :
              /\ BeforeSave(t) => Books(tx[t].copy, Plus(audit, tx[t].entry))
              /\ tx[t].stage = "write" =>
                    tx[t].dirty = {c \in DOMAIN pool : tx[t].copy[c] # pool[c]}

PoolInv == PoolTypes /\ PoolBacked /\ PoolExact

LEMMA PlusTyped ==
    ASSUME NEW a \in Entry, NEW e \in Entry
    PROVE  /\ Plus(a, e) \in Entry
           /\ Plus(a, e).funded = a.funded + e.funded /\ Plus(a, e).paid = a.paid + e.paid
           /\ Plus(a, e).records = a.records + e.records
           /\ Plus(a, e).finishers = a.finishers + e.finishers
<1>1. Plus(a, e) = [funded |-> a.funded + e.funded, paid |-> a.paid + e.paid,
                    records |-> a.records + e.records, finishers |-> a.finishers + e.finishers]
  BY DEF Plus, NoEntry
<1> QED BY <1>1 DEF Entry

LEMMA NoTxTyped ==
    /\ NoTx \in TxRow /\ NoTx.stage = "none" /\ NoTx.entry = NoEntry /\ NoPool \in PoolRow
    /\ NoEntry \in Entry
<1>1. DefaultRules \in Rules \cup {DefaultRules}
  OBVIOUS
<1>2. NoPool \in PoolRow
  BY <1>1 DEF NoPool, PoolRow
<1>3. NoEntry \in Entry
  BY DEF NoEntry, Entry
<1> QED BY <1>2, <1>3 DEF NoTx, TxRow

LEMMA RulesTyped ==
    ASSUME NEW p \in PoolRow
    PROVE  p.rules \in Seq(Nat)
<1>1. DefaultRules \in Seq(Nat)
  BY DEF DefaultRules
<1>2. p.rules \in Rules \cup {DefaultRules}
  BY DEF PoolRow
<1> QED BY <1>1, <1>2, PoolAssumption

LEMMA RoundedBounds ==
    ASSUME NEW x \in Nat, NEW n \in Nat, NEW k \in Rounded(x, n)
    PROVE  k \in Nat /\ 100 * k <= x + 50 * n /\ x <= 100 * k + 50 * n
BY DEF Rounded

(* A whole number of units is rounded to itself. *)
LEMMA RoundedWhole ==
    ASSUME NEW m \in Nat
    PROVE  Rounded(100 * m, 1) = {m} /\ Rounded(0, 0) = {0} /\ Rounded(0, 1) = {0}
<1>1. PICK x \in Nat : x = 100 * m /\ m <= x \div 100
  OBVIOUS
<1>2. ASSUME NEW k \in Rounded(x, 1) PROVE k = m
  <2>1. k \in Nat /\ 100 * k <= x + 50 /\ x <= 100 * k + 50
    BY <1>1, RoundedBounds
  <2> QED BY <1>1, <2>1
<1>3. m \in Rounded(x, 1)
  BY <1>1 DEF Rounded
<1>4. Rounded(0, 0) = {0} /\ Rounded(0, 1) = {0}
  <2>1. 0 \in Rounded(0, 0) /\ 0 \in Rounded(0, 1)
    BY DEF Rounded
  <2>2. \A k \in Rounded(0, 0) : k = 0
    BY DEF Rounded
  <2>3. \A k \in Rounded(0, 1) : k = 0
    BY DEF Rounded
  <2> QED BY <2>1, <2>2, <2>3
<1> QED BY <1>1, <1>2, <1>3, <1>4

LEMMA HandedOutTyped ==
    ASSUME NEW r \in Seq(Nat), NEW n \in Nat
    PROVE  HandedOut(r, n) \in Nat /\ HandedOut(r, 0) = 0
<1>1. Len(r) \in Nat /\ \A i \in 1 .. Len(r) : r[i] \in Nat
  OBVIOUS
<1> QED BY <1>1 DEF HandedOut

(* A set of natural numbers has a least element. *)
LEMMA LeastNumber ==
    ASSUME NEW T \in SUBSET Nat, T # {}
    PROVE  \E m \in T : \A n \in T : m <= n
<1> DEFINE R == OpToRel(<, Nat)
<1>1. IsWellFoundedOn(R, Nat)
  BY NatLessThanWellFounded
<1>2. \A m, n \in Nat : n < m => <<n, m>> \in R
  BY DEF OpToRel
<1> HIDE DEF R
<1>3. PICK m \in T : \A n \in T : <<n, m>> \notin R
  BY <1>1, WFMin
<1>4. \A n \in T : ~(n < m)
  BY <1>2, <1>3
<1> QED BY <1>4

(* If anything is handed out, the first place that gets something is paid. *)
LEMMA PaidPlacesCount ==
    ASSUME NEW r \in Seq(Nat), NEW n \in Nat
    PROVE  /\ Cardinality(PaidPlaces(r, n)) \in Nat
           /\ HandedOut(r, n) > 0 => Cardinality(PaidPlaces(r, n)) > 0
           /\ Cardinality(PaidPlaces(r, 0)) = 0
<1>1. Len(r) \in Nat /\ \A i \in 1 .. Len(r) : r[i] \in Nat
  OBVIOUS
<1>2. IsFiniteSet(PaidPlaces(r, n)) /\ Cardinality(PaidPlaces(r, n)) \in Nat
  <2>1. IsFiniteSet(1 .. Len(r)) /\ PaidPlaces(r, n) \in SUBSET (1 .. Len(r))
    BY <1>1, FS_Interval DEF PaidPlaces
  <2> QED BY <2>1, FS_Subset, FS_CardinalityType
<1>3. ASSUME HandedOut(r, n) > 0 PROVE PaidPlaces(r, n) # {}
  <2>1. PICK T : T = {i \in 1 .. Len(r) : r[i] > 0}
    OBVIOUS
  <2>2. T \in SUBSET Nat /\ \A i \in T : i \in 1 .. Len(r) /\ i > 0 /\ r[i] > 0
    BY <1>1, <2>1
  <2>3. PICK k \in T : k <= n
    BY <1>1, <1>3, <2>1 DEF HandedOut
  <2>4. PICK i \in T : \A j \in T : i <= j
    BY <2>2, <2>3, LeastNumber
  <2>5. PICK h \in Nat : i = h + 1
    BY <2>2
  <2>6. i \in 1 .. Len(r) /\ i <= n /\ r[i] > 0 /\ h < i /\ h < Len(r) /\ h \notin T
    BY <1>1, <2>2, <2>3, <2>4, <2>5
  <2>7. HandedOut(r, h) = 0
    <3>1. CASE h = 0
      BY <1>1, <3>1, HandedOutTyped
    <3>2. CASE h # 0
      <4>1. h \in 1 .. Len(r) /\ r[h] = 0
        BY <1>1, <2>1, <2>6, <3>2
      <4> QED BY <1>1, <2>6, <3>2, <4>1 DEF HandedOut
    <3> QED BY <3>1, <3>2
  <2>8. i - 1 = h
    BY <2>5
  <2>9. i \in PaidPlaces(r, n)
    BY <2>6, <2>7, <2>8 DEF PaidPlaces
  <2> QED BY <2>9
<1>4. Cardinality(PaidPlaces(r, 0)) = 0
  <2>1. PaidPlaces(r, 0) = {}
    BY DEF PaidPlaces
  <2> QED BY <2>1, FS_EmptySet
<1>5. PaidPlaces(r, n) # {} => Cardinality(PaidPlaces(r, n)) # 0
  BY <1>2, FS_EmptySet
<1>6. HandedOut(r, n) > 0 => Cardinality(PaidPlaces(r, n)) > 0
  BY <1>2, <1>3, <1>5
<1> QED BY <1>2, <1>4, <1>6

(* The books of a pool that has not been distributed. *)
LEMMA FreshBooks ==
    ASSUME NEW p \in PoolRow, NEW a \in Entry, ~p.isDistributed
    PROVE  Books(p, a) <=> /\ p.totalFunded = a.funded /\ p.balance = a.funded
                           /\ p.totalDistributed = 0
                           /\ a.finishers = 0 /\ a.records = 0 /\ a.paid = 0
<1>1. a.funded \in Nat /\ a.finishers \in Nat /\ p.rules \in Seq(Nat)
  BY RulesTyped DEF Entry
<1>2. ASSUME a.finishers = 0
      PROVE  /\ a.funded * HandedOut(p.rules, a.finishers) = 0
             /\ Cardinality(PaidPlaces(p.rules, a.finishers)) = 0
             /\ Left(a.funded, 0) = 100 * a.funded
  <2>1. HandedOut(p.rules, 0) = 0 /\ Cardinality(PaidPlaces(p.rules, 0)) = 0
    BY <1>1, HandedOutTyped, PaidPlacesCount
  <2>2. Left(a.funded, 0) = 100 * a.funded
    BY <1>1 DEF Left
  <2> QED BY <1>1, <1>2, <2>1, <2>2
<1>3. CASE a.finishers = 0
  <2>1. /\ Rounded(0, 1) = {0} /\ Rounded(0, 0) = {0}
        /\ Rounded(Left(a.funded, 0), 1) = {a.funded}
    BY <1>1, <1>2, <1>3, RoundedWhole
  <2> QED BY <1>2, <1>3, <2>1 DEF Books
<1>4. CASE a.finishers # 0
  BY <1>1, <1>4 DEF Books
<1> QED BY <1>3, <1>4

(* Saving writes every column from the copy or leaves it as it is. *)
LEMMA ColumnsMerge ==
    ASSUME NEW p \in PoolRow, NEW q \in PoolRow, NEW d, NEW m,
           m = [c \in DOMAIN p |-> IF c \in d THEN q[c] ELSE p[c]]
    PROVE  /\ m \in PoolRow
           /\ m.balance \in {p.balance, q.balance}
           /\ m.totalFunded \in {p.totalFunded, q.totalFunded}
           /\ m.totalDistributed \in {p.totalDistributed, q.totalDistributed}
<1>1. DOMAIN p = {"exists", "balance", "totalFunded", "totalDistributed", "isDistributed", "rules"}
  BY DEF PoolRow
<1>2. m = [exists |-> IF "exists" \in d THEN q.exists ELSE p.exists,
           balance |-> IF "balance" \in d THEN q.balance ELSE p.balance,
           totalFunded |-> IF "totalFunded" \in d THEN q.totalFunded ELSE p.totalFunded,
           totalDistributed |-> IF "totalDistributed" \in d THEN q.totalDistributed
                                                            ELSE p.totalDistributed,
           isDistributed |-> IF "isDistributed" \in d THEN q.isDistributed ELSE p.isDistributed,
           rules |-> IF "rules" \in d THEN q.rules ELSE p.rules]
  BY <1>1
<1>3. m \in PoolRow
  BY <1>2 DEF PoolRow
<1>4. /\ m.balance \in {p.balance, q.balance}
      /\ m.totalFunded \in {p.totalFunded, q.totalFunded}
      /\ m.totalDistributed \in {p.totalDistributed, q.totalDistributed}
  BY <1>2
<1> QED BY <1>3, <1>4

(* Saving over the row that was compared writes the copy. *)
LEMMA ColumnsThatDiffer ==
    ASSUME NEW p \in PoolRow, NEW q \in PoolRow, NEW m,
           m = [c \in DOMAIN p |-> IF c \in {e \in DOMAIN p : q[e] # p[e]} THEN q[c] ELSE p[c]]
    PROVE  m = q
<1>1. DOMAIN p = DOMAIN q
  BY DEF PoolRow
<1>2. q = [c \in DOMAIN q |-> q[c]]
  BY DEF PoolRow
<1> QED BY <1>1, <1>2

(* A transaction that computed a copy which its records back. *)
LEMMA BeginStep ==
    ASSUME PoolInv, NEW t \in Transactions, NEW copy \in PoolRow,
           NEW entry \in Entry, Begin(t, copy, entry),
           Backed(copy, Plus(audit, entry)),
           Books(pool, audit) => Books(copy, Plus(audit, entry))
    PROVE  PoolInv'
<1> DEFINE row == [stage |-> "save", copy |-> copy, dirty |-> {}, entry |-> entry]
<1>1. row \in TxRow /\ row.stage = "save" /\ row.copy = copy /\ row.entry = entry
  BY DEF TxRow
<1>2. tx' = [tx EXCEPT ![t] = row]
  BY DEF Begin
<1> HIDE DEF row
<1>3. \A s \in Transactions : tx'[s] = IF s = t THEN row ELSE tx[s]
  BY <1>2 DEF PoolInv, PoolTypes
<1>4. PoolTypes'
  <2>1. tx' \in [Transactions -> TxRow]
    BY <1>1, <1>2 DEF PoolInv, PoolTypes
  <2>2. begun' \in 0 .. MaxTransactions
    BY PoolAssumption DEF Begin, PoolInv, PoolTypes, PoolTypeOK
  <2>3. overlapped' \in BOOLEAN
    BY DEF Begin
  <2>4. pool' = pool /\ audit' = audit
    BY DEF Begin
  <2> QED BY <2>1, <2>2, <2>3, <2>4 DEF PoolInv, PoolTypes, PoolTypeOK, TxRow
<1>5. PoolBacked'
  BY <1>1, <1>3 DEF Begin, PoolInv, PoolBacked, BeforeSave
<1>6. PoolExact'
  <2> SUFFICES ASSUME ~overlapped' PROVE PoolExact'
    BY DEF PoolExact
  <2>1. ~overlapped /\ \A s \in Transactions : tx[s].stage = "none"
    BY DEF Begin
  <2>2. Books(pool, audit)
    BY <2>1 DEF PoolInv, PoolExact
  <2>3. pool' = pool /\ audit' = audit
    BY DEF Begin
  <2> QED BY <1>1, <1>3, <2>1, <2>2, <2>3 DEF PoolExact, BeforeSave
<1> QED BY <1>4, <1>5, <1>6 DEF PoolInv

LEMMA FundPoolStep ==
    ASSUME PoolInv, NEW t \in Transactions, NEW amount \in FundAmounts, FundPool(t, amount)
    PROVE  PoolInv'
<1>1. pool \in PoolRow /\ amount \in Nat /\ audit \in Entry /\ ~pool.isDistributed
  BY PoolAssumption DEF PoolInv, PoolTypes, PoolTypeOK, FundPool
<1>2. PICK copy, entry :
         /\ copy = [pool EXCEPT !.balance = @ + amount, !.totalFunded = @ + amount]
         /\ entry = [NoEntry EXCEPT !.funded = amount]
         /\ Begin(t, copy, entry)
  BY DEF FundPool
<1>3. copy = [exists |-> pool.exists, balance |-> pool.balance + amount,
              totalFunded |-> pool.totalFunded + amount, totalDistributed |-> pool.totalDistributed,
              isDistributed |-> pool.isDistributed, rules |-> pool.rules]
  BY <1>1, <1>2 DEF PoolRow
<1>4. copy \in PoolRow
  BY <1>1, <1>3 DEF PoolRow
<1>5. entry = [funded |-> amount, paid |-> 0, records |-> 0, finishers |-> 0] /\ entry \in Entry
  BY <1>1, <1>2 DEF NoEntry, Entry
<1>6. /\ Plus(audit, entry) \in Entry
      /\ Plus(audit, entry).funded = audit.funded + amount
      /\ Plus(audit, entry).paid = audit.paid /\ Plus(audit, entry).records = audit.records
      /\ Plus(audit, entry).finishers = audit.finishers
  BY <1>1, <1>5, PlusTyped DEF Entry
<1>7. Backed(copy, Plus(audit, entry))
  BY <1>1, <1>3, <1>6 DEF PoolInv, PoolBacked, Backed, PoolRow, Entry
<1>8. Books(pool, audit) => Books(copy, Plus(audit, entry))
  <2> SUFFICES ASSUME Books(pool, audit) PROVE Books(copy, Plus(audit, entry))
    OBVIOUS
  <2>1. /\ pool.totalFunded = audit.funded /\ pool.balance = audit.funded
        /\ pool.totalDistributed = 0
        /\ audit.finishers = 0 /\ audit.records = 0 /\ audit.paid = 0
    BY <1>1, FreshBooks
  <2>2. ~copy.isDistributed /\ copy.totalFunded = audit.funded + amount
        /\ copy.balance = audit.funded + amount /\ copy.totalDistributed = 0
    BY <1>1, <1>3, <2>1
  <2> QED BY <1>4, <1>6, <2>1, <2>2, FreshBooks
<1> QED BY <1>2, <1>4, <1>5, <1>7, <1>8, BeginStep

LEMMA DistributePoolStep ==
    ASSUME PoolInv, NEW t \in Transactions, NEW n \in FinisherCounts, DistributePool(t, n)
    PROVE  PoolInv'
<1>1. /\ pool \in PoolRow /\ audit \in Entry /\ ~pool.isDistributed
      /\ n \in Nat /\ n > 0 /\ pool.balance \in Nat /\ pool.totalDistributed \in Nat
      /\ pool.rules \in Seq(Nat)
  BY PoolAssumption, RulesTyped DEF PoolInv, PoolTypes, PoolTypeOK, DistributePool, PoolRow
<1>2. PICK share \in Nat : share = HandedOut(pool.rules, n)
  BY <1>1, HandedOutTyped
<1>3. PICK handed \in Nat : handed = pool.balance * share /\ (share = 0 => handed = 0)
  BY <1>1
<1>4. PICK records \in Nat : /\ records = Cardinality(PaidPlaces(pool.rules, n))
                             /\ share > 0 => records > 0
  BY <1>1, <1>2, PaidPlacesCount
<1>5. PICK paid \in Rounded(handed, records),
           total \in Rounded(100 * pool.totalDistributed + handed, 1),
           left \in Rounded(Left(pool.balance, handed), 1) :
              Begin(t, [pool EXCEPT !.totalDistributed = total, !.balance = left,
                                    !.isDistributed = TRUE],
                       [funded |-> 0, paid |-> paid, records |-> records, finishers |-> n])
  BY <1>2, <1>3, <1>4 DEF DistributePool
<1>6. Left(pool.balance, handed) \in Nat /\ Left(pool.balance, handed) <= 100 * pool.balance
  BY <1>1, <1>3 DEF Left
<1>7. /\ paid \in Nat /\ handed <= 100 * paid + 50 * records
      /\ total \in Nat /\ 100 * total <= 100 * pool.totalDistributed + handed + 50
      /\ left \in Nat /\ 100 * left <= 100 * pool.balance + 50
  <2>1. PICK prev \in Nat, b \in Nat : prev = pool.totalDistributed /\ b = pool.balance
    BY <1>1
  <2>2. PICK x \in Nat : x = 100 * pool.totalDistributed + handed /\ x = 100 * prev + handed
    BY <2>1
  <2>3. PICK y \in Nat : y = Left(pool.balance, handed) /\ y <= 100 * b
    BY <1>6, <2>1
  <2>4. total \in Rounded(x, 1) /\ left \in Rounded(y, 1)
    BY <2>2, <2>3
  <2>5. total \in Nat /\ 100 * total <= x + 50 /\ left \in Nat /\ 100 * left <= y + 50
    BY <2>4, RoundedBounds
  <2>6. paid \in Nat /\ handed <= 100 * paid + 50 * records
    BY RoundedBounds
  <2>7. 100 * total <= 100 * prev + handed + 50 /\ 100 * left <= 100 * b + 50
    BY <2>2, <2>3, <2>5
  <2> QED BY <2>1, <2>5, <2>6, <2>7
<1>8. left <= pool.balance /\ total <= pool.totalDistributed + paid + records
  <2>1. PICK prev \in Nat, b \in Nat : prev = pool.totalDistributed /\ b = pool.balance
    BY <1>1
  <2>2. /\ 100 * total <= 100 * prev + handed + 50 /\ handed <= 100 * paid + 50 * records
        /\ 100 * left <= 100 * b + 50
        /\ total \in Nat /\ paid \in Nat /\ left \in Nat
    BY <1>7, <2>1
  <2>3. left <= b
    BY <2>2
  <2>4. CASE share = 0
    <3>1. handed = 0
      BY <1>3, <2>4
    <3>2. total <= prev
      BY <2>2, <3>1
    <3> QED BY <2>1, <2>2, <2>3, <3>2
  <2>5. CASE share # 0
    <3>1. records >= 1
      BY <1>4, <2>5
    <3>2. total <= prev + paid + records
      BY <2>2, <3>1
    <3> QED BY <2>1, <2>3, <3>2
  <2> QED BY <2>4, <2>5
<1>9. PICK copy, entry :
         /\ copy = [pool EXCEPT !.totalDistributed = total, !.balance = left, !.isDistributed = TRUE]
         /\ entry = [funded |-> 0, paid |-> paid, records |-> records, finishers |-> n]
         /\ Begin(t, copy, entry)
  BY <1>5
<1>10. copy = [exists |-> pool.exists, balance |-> left, totalFunded |-> pool.totalFunded,
               totalDistributed |-> total, isDistributed |-> TRUE, rules |-> pool.rules]
  BY <1>1, <1>9 DEF PoolRow
<1>11. copy.totalFunded = pool.totalFunded /\ copy.balance = left /\ copy.totalDistributed = total
  BY <1>10
<1>12. copy \in PoolRow /\ entry \in Entry
  BY <1>1, <1>7, <1>9, <1>10 DEF PoolRow, Entry
<1>13. PICK a \in Entry : /\ a = Plus(audit, entry)
                          /\ a.funded = audit.funded /\ a.paid = audit.paid + paid
                          /\ a.records = audit.records + records
                          /\ a.finishers = audit.finishers + n
  BY <1>1, <1>9, <1>12, PlusTyped DEF Entry
<1>14. Backed(copy, a)
  <2>1. /\ pool.totalFunded <= audit.funded /\ pool.balance <= audit.funded
        /\ pool.totalDistributed <= audit.paid + audit.records
    BY DEF PoolInv, PoolBacked, Backed
  <2>2. audit.funded \in Nat /\ audit.paid \in Nat /\ audit.records \in Nat /\ pool.totalFunded \in Nat
    BY <1>1 DEF Entry, PoolRow
  <2>3. copy.totalFunded <= a.funded /\ copy.balance <= a.funded
    <3>1. PICK f \in Nat, b \in Nat : f = audit.funded /\ b = pool.balance
      BY <1>1, <2>2
    <3>2. left \in Nat /\ left <= b /\ b <= f
      BY <1>7, <1>8, <2>1, <3>1
    <3>3. left <= f
      BY <3>2
    <3> QED BY <1>11, <1>13, <2>1, <3>1, <3>3
  <2>4. copy.totalDistributed <= a.paid + a.records
    <3>1. PICK d \in Nat, m \in Nat, k \in Nat :
             d = pool.totalDistributed /\ m = audit.paid /\ k = audit.records
      BY <1>1, <2>2
    <3>2. total <= d + paid + records /\ d <= m + k /\ total \in Nat /\ paid \in Nat
      BY <1>7, <1>8, <2>1, <3>1
    <3>3. a.paid = m + paid /\ a.records = k + records
      BY <1>13, <3>1
    <3> QED BY <1>11, <3>2, <3>3
  <2> QED BY <2>3, <2>4 DEF Backed
<1>15. Books(pool, audit) => Books(copy, a)
  <2> SUFFICES ASSUME Books(pool, audit) PROVE Books(copy, a)
    OBVIOUS
  <2>1. /\ pool.totalFunded = audit.funded /\ pool.balance = audit.funded
        /\ pool.totalDistributed = 0
        /\ audit.finishers = 0 /\ audit.records = 0 /\ audit.paid = 0
    BY <1>1, FreshBooks
  <2>2. /\ a.funded = pool.balance /\ a.finishers = n /\ a.records = records /\ a.paid = paid
        /\ 100 * pool.totalDistributed + handed = handed
    BY <1>1, <1>4, <1>7, <1>13, <2>1
  <2>3. a.funded * HandedOut(copy.rules, a.finishers) = handed
    BY <1>2, <1>3, <1>10, <2>2
  <2>4. /\ copy.totalFunded = a.funded /\ copy.isDistributed /\ a.finishers > 0
        /\ a.records = Cardinality(PaidPlaces(copy.rules, a.finishers))
    BY <1>1, <1>4, <1>10, <1>13, <2>1, <2>2
  <2>5. /\ a.paid \in Rounded(handed, a.records) /\ copy.totalDistributed \in Rounded(handed, 1)
        /\ copy.balance \in Rounded(Left(a.funded, handed), 1)
    BY <1>5, <1>10, <2>2
  <2> QED BY <2>3, <2>4, <2>5 DEF Books
<1> QED BY <1>9, <1>12, <1>13, <1>14, <1>15, BeginStep

LEMMA SetDistributionRulesStep ==
    ASSUME PoolInv, NEW t \in Transactions, NEW rules \in Rules, SetDistributionRules(t, rules)
    PROVE  PoolInv'
<1>1. pool \in PoolRow /\ audit \in Entry /\ ~pool.isDistributed
  BY DEF PoolInv, PoolTypes, PoolTypeOK, SetDistributionRules
<1>2. PICK copy : copy = [pool EXCEPT !.rules = rules] /\ Begin(t, copy, NoEntry)
  BY DEF SetDistributionRules
<1>3. copy = [exists |-> pool.exists, balance |-> pool.balance,
              totalFunded |-> pool.totalFunded, totalDistributed |-> pool.totalDistributed,
              isDistributed |-> pool.isDistributed, rules |-> rules]
  BY <1>1, <1>2 DEF PoolRow
<1>4. copy \in PoolRow
  BY <1>1, <1>3 DEF PoolRow
<1>5. /\ Plus(audit, NoEntry) \in Entry
      /\ Plus(audit, NoEntry).funded = audit.funded
      /\ Plus(audit, NoEntry).paid = audit.paid /\ Plus(audit, NoEntry).records = audit.records
      /\ Plus(audit, NoEntry).finishers = audit.finishers
  BY <1>1, NoTxTyped, PlusTyped DEF Entry, NoEntry
<1>6. Backed(copy, Plus(audit, NoEntry))
  BY <1>1, <1>3, <1>5 DEF PoolInv, PoolBacked, Backed
<1>7. Books(pool, audit) => Books(copy, Plus(audit, NoEntry))
  <2> SUFFICES ASSUME Books(pool, audit) PROVE Books(copy, Plus(audit, NoEntry))
    OBVIOUS
  <2>1. /\ pool.totalFunded = audit.funded /\ pool.balance = audit.funded
        /\ pool.totalDistributed = 0
        /\ audit.finishers = 0 /\ audit.records = 0 /\ audit.paid = 0
    BY <1>1, FreshBooks
  <2>2. ~copy.isDistributed /\ copy.totalFunded = audit.funded
        /\ copy.balance = audit.funded /\ copy.totalDistributed = 0
    BY <1>1, <1>3, <2>1
  <2> QED BY <1>4, <1>5, <2>1, <2>2, FreshBooks
<1> QED BY <1>2, <1>4, <1>6, <1>7, NoTxTyped, BeginStep

LEMMA CompareRowStep ==
    ASSUME PoolInv, NEW t \in Transactions, CompareRow(t)
    PROVE  PoolInv'
<1>1. PICK d : d = {c \in DOMAIN pool : tx[t].copy[c] # pool[c]}
  OBVIOUS
<1>2. tx[t] \in TxRow /\ pool \in PoolRow /\ tx[t].stage = "save"
  BY DEF PoolInv, PoolTypes, PoolTypeOK, CompareRow
<1>3. d \subseteq DOMAIN NoPool
  BY <1>1, <1>2 DEF PoolRow, NoPool
<1> DEFINE row == [tx[t] EXCEPT !.stage = "write", !.dirty = d]
<1>4. /\ row \in TxRow /\ row.stage = "write" /\ row.copy = tx[t].copy /\ row.dirty = d
      /\ row.entry = tx[t].entry
  BY <1>2, <1>3 DEF TxRow
<1>5. tx' = [tx EXCEPT ![t] = row]
  BY <1>1 DEF CompareRow
<1> HIDE DEF row
<1>6. \A s \in Transactions : tx'[s] = IF s = t THEN row ELSE tx[s]
  BY <1>5 DEF PoolInv, PoolTypes
<1>7. UNCHANGED <<pool, begun, audit, overlapped>>
  BY DEF CompareRow
<1>8. PoolTypes'
  <2>1. tx' \in [Transactions -> TxRow]
    BY <1>4, <1>5 DEF PoolInv, PoolTypes
  <2> QED BY <1>7, <2>1 DEF PoolInv, PoolTypes, PoolTypeOK, TxRow
<1>9. PoolBacked'
  BY <1>2, <1>4, <1>6, <1>7 DEF PoolInv, PoolBacked, BeforeSave
<1>10. PoolExact'
  BY <1>1, <1>2, <1>4, <1>6, <1>7 DEF PoolInv, PoolExact, BeforeSave
<1> QED BY <1>8, <1>9, <1>10 DEF PoolInv

(* A transaction is logged together with a row that its records back. *)
LEMMA LoggedStep ==
    ASSUME PoolInv, NEW t \in Transactions, BeforeSave(t), Logged(t),
           pool' \in PoolRow,
           Backed(pool', Plus(audit, tx[t].entry)),
           ~overlapped => Books(pool', Plus(audit, tx[t].entry))
    PROVE  PoolInv'
<1>1. \A s \in Transactions : tx'[s] = IF s = t THEN NoTx ELSE tx[s]
  BY DEF Logged, PoolInv, PoolTypes
<1>2. /\ audit' = Plus(audit, tx[t].entry) /\ UNCHANGED <<begun, overlapped>>
      /\ audit \in Entry /\ \A s \in Transactions : tx[s].entry \in Entry /\ tx[s].copy \in PoolRow
  BY DEF Logged, Plus, PoolInv, PoolTypes, PoolTypeOK
<1>3. /\ audit' \in Entry
      /\ audit'.funded >= audit.funded /\ audit'.paid >= audit.paid /\ audit'.records >= audit.records
  BY <1>2, PlusTyped DEF Entry
<1>4. PoolTypes'
  <2>1. tx' \in [Transactions -> TxRow]
    BY NoTxTyped DEF Logged, PoolInv, PoolTypes
  <2> QED BY <1>2, <1>3, <2>1 DEF PoolInv, PoolTypes, PoolTypeOK, TxRow
<1>5. PoolBacked'
  <2>1. ASSUME NEW s \in Transactions, BeforeSave(s)'
        PROVE  Backed(tx'[s].copy, Plus(audit', tx'[s].entry))
    <3>1. s # t /\ BeforeSave(s) /\ tx'[s] = tx[s]
      BY <1>1, <2>1, NoTxTyped DEF BeforeSave
    <3>2. PICK c \in PoolRow, e \in Entry, a \in Entry, b \in Entry :
             /\ c = tx[s].copy /\ e = tx[s].entry
             /\ a = Plus(audit, e) /\ b = Plus(audit', e)
      BY <1>2, <1>3, PlusTyped
    <3>3. Backed(c, a)
      BY <3>1, <3>2 DEF PoolInv, PoolBacked
    <3>4. /\ a.funded = audit.funded + e.funded /\ b.funded = audit'.funded + e.funded
          /\ a.paid = audit.paid + e.paid /\ b.paid = audit'.paid + e.paid
          /\ a.records = audit.records + e.records /\ b.records = audit'.records + e.records
      BY <1>2, <1>3, <3>2, PlusTyped
    <3>5. b.funded >= a.funded /\ b.paid >= a.paid /\ b.records >= a.records
      BY <1>2, <1>3, <3>2, <3>4 DEF Entry
    <3>6. Backed(c, b)
      BY <3>2, <3>3, <3>5 DEF Backed, PoolRow, Entry
    <3> QED BY <3>1, <3>2, <3>6
  <2> QED BY <1>2, <2>1 DEF PoolBacked
<1>6. PoolExact'
  <2> SUFFICES ASSUME ~overlapped' PROVE PoolExact'
    BY DEF PoolExact
  <2>1. ~overlapped
    BY <1>2
  <2>2. \A s \in Transactions : tx'[s].stage = "none"
    BY <1>1, <2>1, NoTxTyped DEF PoolInv, PoolExact, BeforeSave
  <2> QED BY <1>2, <2>1, <2>2 DEF PoolExact, BeforeSave
<1> QED BY <1>4, <1>5, <1>6 DEF PoolInv

LEMMA InsertPoolStep ==
    ASSUME PoolInv, NEW t \in Transactions, InsertPool(t)
    PROVE  PoolInv'
<1>1. PICK copy \in PoolRow : copy = tx[t].copy
  BY DEF PoolInv, PoolTypes, PoolTypeOK
<1>2. pool' = [exists |-> TRUE, balance |-> copy.balance, totalFunded |-> copy.totalFunded,
               totalDistributed |-> copy.totalDistributed, isDistributed |-> copy.isDistributed,
               rules |-> copy.rules]
  BY <1>1 DEF InsertPool, PoolRow
<1>3. pool' \in PoolRow
  BY <1>1, <1>2 DEF PoolRow
<1>4. BeforeSave(t) /\ Logged(t)
  BY DEF InsertPool, BeforeSave
<1>5. Backed(copy, Plus(audit, tx[t].entry))
  BY <1>1, <1>4 DEF PoolInv, PoolBacked
<1>6. Backed(pool', Plus(audit, tx[t].entry))
  BY <1>2, <1>5 DEF Backed
<1>7. ~overlapped => Books(copy, Plus(audit, tx[t].entry))
  BY <1>1, <1>4 DEF PoolInv, PoolExact
<1>8. ~overlapped => Books(pool', Plus(audit, tx[t].entry))
  BY <1>2, <1>7 DEF Books
<1> QED BY <1>3, <1>4, <1>6, <1>8, LoggedStep

LEMMA WriteRowStep ==
    ASSUME PoolInv, NEW t \in Transactions, WriteRow(t)
    PROVE  PoolInv'
<1>1. PICK copy \in PoolRow, e \in Entry : copy = tx[t].copy /\ e = tx[t].entry
  BY DEF PoolInv, PoolTypes, PoolTypeOK
<1>2. pool \in PoolRow /\ audit \in Entry /\ BeforeSave(t) /\ Logged(t)
  BY DEF PoolInv, PoolTypes, PoolTypeOK, WriteRow, BeforeSave
<1>3. pool' = [c \in DOMAIN pool |-> IF c \in tx[t].dirty THEN copy[c] ELSE pool[c]]
  BY <1>1 DEF WriteRow
<1>4. /\ pool' \in PoolRow
      /\ pool'.balance \in {pool.balance, copy.balance}
      /\ pool'.totalFunded \in {pool.totalFunded, copy.totalFunded}
      /\ pool'.totalDistributed \in {pool.totalDistributed, copy.totalDistributed}
  BY <1>2, <1>3, ColumnsMerge
<1>5. PICK a \in Entry : /\ a = Plus(audit, e) /\ a.funded >= audit.funded
                         /\ a.paid >= audit.paid /\ a.records >= audit.records
  BY <1>1, <1>2, PlusTyped DEF Entry
<1>6. Backed(copy, a)
  BY <1>1, <1>2, <1>5 DEF PoolInv, PoolBacked
<1>7. Backed(pool', a)
  <2>1. Backed(pool, audit)
    BY DEF PoolInv, PoolBacked
  <2>2. Backed(pool, a)
    BY <1>2, <1>5, <2>1 DEF Backed, PoolRow, Entry
  <2> QED BY <1>4, <1>6, <2>2 DEF Backed
<1>8. ~overlapped => Books(pool', a)
  <2> SUFFICES ASSUME ~overlapped PROVE Books(pool', a)
    OBVIOUS
  <2>1. /\ Books(copy, a) /\ tx[t].dirty = {c \in DOMAIN pool : copy[c] # pool[c]}
    BY <1>1, <1>2, <1>5 DEF PoolInv, PoolExact, WriteRow
  <2>2. pool' = copy
    BY <1>2, <1>3, <2>1, ColumnsThatDiffer
  <2> QED BY <2>1, <2>2
<1> QED BY <1>1, <1>2, <1>4, <1>5, <1>7, <1>8, LoggedStep

LEMMA AbortStep ==
    ASSUME PoolInv, NEW t \in Transactions, Abort(t)
    PROVE  PoolInv'
<1>1. \A s \in Transactions : tx'[s] = IF s = t THEN NoTx ELSE tx[s]
  BY DEF Abort, PoolInv, PoolTypes
<1>2. UNCHANGED <<pool, begun, audit, overlapped>>
  BY DEF Abort
<1>3. PoolTypes'
  <2>1. tx' \in [Transactions -> TxRow]
    BY NoTxTyped DEF Abort, PoolInv, PoolTypes
  <2> QED BY <1>2, <2>1 DEF PoolInv, PoolTypes, PoolTypeOK, TxRow
<1>4. PoolBacked'
  BY <1>1, <1>2, NoTxTyped DEF PoolInv, PoolBacked, BeforeSave
<1>5. PoolExact'
  BY <1>1, <1>2, NoTxTyped DEF PoolInv, PoolExact, BeforeSave
<1> QED BY <1>3, <1>4, <1>5 DEF PoolInv

(* The pool shows no money that its audit trail does not, but for the      *)
(* rounding of its payouts, whichever of its columns overlapping           *)
(* transactions overwrite; without an overlap its books agree, and what    *)
(* was paid is what the rules give the places its finishers reached, for   *)
(* every set of rules and every number of finishers.                       *)
THEOREM PoolCorrect == PoolSpec => [](PoolTypeOK /\ PoolIsBacked)
<1>1. PoolInit => PoolInv
  <2> SUFFICES ASSUME PoolInit PROVE PoolInv
    OBVIOUS
  <2>1. PoolTypes
    <3>1. tx \in [Transactions -> TxRow]
      BY NoTxTyped DEF PoolInit
    <3>2. pool \in PoolRow /\ audit \in Entry
      BY NoTxTyped DEF PoolInit
    <3>3. begun \in 0 .. MaxTransactions
      BY PoolAssumption DEF PoolInit
    <3>4. overlapped \in BOOLEAN
      BY DEF PoolInit
    <3> QED BY <3>1, <3>2, <3>3, <3>4 DEF PoolTypes, PoolTypeOK, TxRow
  <2>2. PoolBacked
    BY NoTxTyped DEF PoolInit, PoolBacked, Backed, BeforeSave, NoPool, NoEntry
  <2>3. PoolExact
    <3>1. Books(NoPool, NoEntry)
      <4>1. NoPool \in PoolRow /\ NoEntry \in Entry /\ ~NoPool.isDistributed
        BY NoTxTyped DEF NoPool
      <4>2. /\ NoPool.totalFunded = 0 /\ NoPool.balance = 0 /\ NoPool.totalDistributed = 0
            /\ NoEntry.funded = 0 /\ NoEntry.paid = 0 /\ NoEntry.records = 0 /\ NoEntry.finishers = 0
        BY DEF NoPool, NoEntry
      <4> QED BY <4>1, <4>2, FreshBooks
    <3>2. pool = NoPool /\ audit = NoEntry /\ \A t \in Transactions : tx[t].stage = "none"
      BY NoTxTyped DEF PoolInit
    <3> QED BY <3>1, <3>2 DEF PoolExact, BeforeSave
  <2> QED BY <2>1, <2>2, <2>3 DEF PoolInv
<1>2. PoolInv /\ [PoolNext]_poolVars => PoolInv'
  <2>1. ASSUME PoolInv, PoolNext PROVE PoolInv'
    BY <2>1, FundPoolStep, DistributePoolStep, SetDistributionRulesStep, CompareRowStep,
       InsertPoolStep, WriteRowStep, AbortStep DEF PoolNext
  <2>2. ASSUME PoolInv, UNCHANGED poolVars PROVE PoolInv'
    BY <2>2 DEF poolVars, PoolInv, PoolTypes, PoolTypeOK, PoolBacked, PoolExact, Backed, Books, BeforeSave
  <2> QED BY <2>1, <2>2
<1>3. PoolInv => PoolTypeOK /\ PoolIsBacked
  BY DEF PoolInv, PoolTypes, PoolBacked, Backed, PoolExact, Books, PoolIsBacked
<1> QED BY <1>1, <1>2, <1>3, PTL DEF PoolSpec

-----------------------------------------------------------------------------
(* NftMarketplace. *)

TradeRow == [step : TradeStep, listing : Listings, offer : Offers \cup {NoOffer},
             row : ListingRow, columns : SUBSET {"status", "buyer"}]

On(o, l, status) == offer[o].listing = l /\ offer[o].status = status

InSave(r) == r.step \in {"compare", "write"}

(* An offer of the user on the listing was accepted. *)
Won(l, user) == \E o \in accepted : offer[o].listing = l /\ Offeror[o] = user

(* What a request knows of rows that others may change: an offer that it   *)
(* answers was made on its listing, and its copy of the listing names only *)
(* buyers whose offers were accepted.                                      *)
TradeOK(r) ==
    /\ r.step \in {"cancelOffer", "readListing", "reject", "accept", "outbid"} =>
          r.offer \in Offers /\ offer[r.offer].status # "none" /\ offer[r.offer].listing = r.listing
    /\ InSave(r) =>
          /\ r.row.status \in {"cancelled", "escrowed", "sold"}
          /\ r.row.status = "escrowed" => r.offer \in accepted /\ offer[r.offer].listing = r.listing
          /\ r.row.status = "sold" => r.row.buyer # NoBuyer
    /\ r.step = "accept" => r.row.status = "escrowed"
    /\ r.step \in {"accept", "compare", "write", "findAccepted"} => listing[r.listing].status # "none"
    /\ r.row.buyer # NoBuyer => Won(r.listing, r.row.buyer)

(* Nobody else knows the offer that a request inserts. *)
InsertedIsNew ==
    \A t \in Traders : trade[t].step = "insertOffer" =>
        /\ trade[t].offer \in Offers /\ offer[trade[t].offer].status = "none"
        /\ \A s \in Traders : trade[s].offer = trade[t].offer => s = t

AcceptedKnown ==
    \A o \in Offers : /\ offer[o].status = "accepted" => o \in accepted
                      /\ o \in accepted => offer[o].status # "none"

SoldTo(l) ==
    /\ listing[l].status \in {"escrowed", "sold"} => \E o \in accepted : offer[o].listing = l
    /\ listing[l].buyer # NoBuyer => Won(l, listing[l].buyer)

MarketSafe ==
    /\ MarketTypeOK /\ InsertedIsNew /\ AcceptedKnown
    /\ \A t \in Traders : TradeOK(trade[t])
    /\ \A l \in Listings : SoldTo(l)

LEMMA NoTradeTyped ==
    /\ NoTrade \in TradeRow /\ NoTrade.step = "none" /\ NoTrade.offer = NoOffer
    /\ NoTrade.row = NoRow /\ NoTrade.columns = {}
    /\ AnyListing \in Listings
    /\ NoRow \in ListingRow /\ NoRow.status = "none" /\ NoRow.buyer = NoBuyer
<1>1. AnyListing \in Listings
  BY MarketAssumption DEF AnyListing
<1>2. NoRow \in ListingRow /\ NoRow.status = "none" /\ NoRow.buyer = NoBuyer
  BY DEF NoRow, ListingRow, ListingStatus
<1> QED BY <1>1, <1>2 DEF NoTrade, TradeRow, TradeStep

LEMMA TradeTyped ==
    ASSUME MarketSafe, NEW t \in Traders
    PROVE  trade[t] \in TradeRow /\ trade[t].listing \in Listings /\ TradeOK(trade[t])
BY DEF MarketSafe, MarketTypeOK, TradeRow

(* What a request may begin with, after its first read. *)
BeginRow(r) ==
    /\ r.columns = {}
    /\ \/ /\ r.step = "compare" /\ r.offer = NoOffer
          /\ listing[r.listing].status = "listed" /\ r.row.status = "cancelled"
          /\ r.row.buyer = listing[r.listing].buyer
       \/ /\ r.step = "findAccepted" /\ r.offer = NoOffer
          /\ listing[r.listing].status = "escrowed" /\ r.row = listing[r.listing]
       \/ /\ r.step = "insertOffer" /\ r.row = NoRow /\ r.offer \in Offers
          /\ listing[r.listing].status = "listed" /\ offer[r.offer].status = "none"
          /\ \A s \in Traders : trade[s].offer # r.offer
       \/ /\ r.step \in {"cancelOffer", "readListing"} /\ r.row = NoRow /\ r.offer \in Offers
          /\ offer[r.offer].status = "pending" /\ offer[r.offer].listing = r.listing

TradeBegins(t, r) ==
    /\ trade[t].step = "none" /\ trade' = [trade EXCEPT ![t] = r] /\ BeginRow(r)
    /\ disturbed' = (disturbed \/ \E s \in Traders : trade[s].step # "none")
    /\ UNCHANGED <<listing, offer, marketFaults, accepted, stranded, mixed>>

LEMMA TradeBeginning ==
    ASSUME MarketSafe, NEW t \in Traders,
           \/ \E l \in Listings : \/ BeginCancelListing(t, l) \/ BeginSettle(t, l)
                                  \/ \E o \in Offers : BeginCreateOffer(t, l, o)
           \/ \E o \in Offers : BeginCancelOffer(t, o) \/ BeginRespond(t, o)
    PROVE  \E r \in TradeRow : TradeBegins(t, r)
<1>1. ASSUME NEW step \in TradeStep, NEW l \in Listings, NEW o \in Offers \cup {NoOffer},
             NEW row \in ListingRow, BeginTrade(t, step, l, o, row)
      PROVE  LET r == [step |-> step, listing |-> l, offer |-> o, row |-> row, columns |-> {}]
             IN  r \in TradeRow /\ (BeginRow(r) => TradeBegins(t, r))
  BY <1>1 DEF TradeRow, BeginTrade, TradeBegins
<1>2. ASSUME NEW l \in Listings, BeginCancelListing(t, l)
      PROVE  \E r \in TradeRow : TradeBegins(t, r)
  <2>1. PICK row : row = [listing[l] EXCEPT !.status = "cancelled"]
    OBVIOUS
  <2>2. row \in ListingRow /\ row.status = "cancelled" /\ row.buyer = listing[l].buyer
    BY <2>1 DEF MarketSafe, MarketTypeOK, ListingRow, ListingStatus
  <2>3. BeginTrade(t, "compare", l, NoOffer, row) /\ listing[l].status = "listed"
    BY <1>2, <2>1 DEF BeginCancelListing
  <2> DEFINE r == [step |-> "compare", listing |-> l, offer |-> NoOffer, row |-> row, columns |-> {}]
  <2>4. r \in TradeRow /\ (BeginRow(r) => TradeBegins(t, r))
    BY <1>1, <2>2, <2>3 DEF TradeStep
  <2>5. BeginRow(r)
    BY <2>2, <2>3 DEF BeginRow
  <2> QED BY <2>4, <2>5
<1>3. ASSUME NEW l \in Listings, BeginSettle(t, l)
      PROVE  \E r \in TradeRow : TradeBegins(t, r)
  <2>1. BeginTrade(t, "findAccepted", l, NoOffer, listing[l]) /\ listing[l].status = "escrowed"
        /\ listing[l] \in ListingRow
    BY <1>3 DEF BeginSettle, MarketSafe, MarketTypeOK
  <2> DEFINE r == [step |-> "findAccepted", listing |-> l, offer |-> NoOffer,
                   row |-> listing[l], columns |-> {}]
  <2>2. r \in TradeRow /\ (BeginRow(r) => TradeBegins(t, r))
    BY <1>1, <2>1 DEF TradeStep
  <2>3. BeginRow(r)
    BY <2>1 DEF BeginRow
  <2> QED BY <2>2, <2>3
<1>4. ASSUME NEW l \in Listings, NEW o \in Offers, BeginCreateOffer(t, l, o)
      PROVE  \E r \in TradeRow : TradeBegins(t, r)
  <2>1. /\ BeginTrade(t, "insertOffer", l, o, NoRow) /\ listing[l].status = "listed"
        /\ offer[o].status = "none" /\ \A s \in Traders : trade[s].offer # o
    BY <1>4 DEF BeginCreateOffer
  <2> DEFINE r == [step |-> "insertOffer", listing |-> l, offer |-> o, row |-> NoRow, columns |-> {}]
  <2>2. r \in TradeRow /\ (BeginRow(r) => TradeBegins(t, r))
    BY <1>1, <2>1, NoTradeTyped DEF TradeStep
  <2>3. BeginRow(r)
    BY <2>1 DEF BeginRow
  <2> QED BY <2>2, <2>3
<1>5. ASSUME NEW o \in Offers, BeginCancelOffer(t, o) \/ BeginRespond(t, o)
      PROVE  \E r \in TradeRow : TradeBegins(t, r)
  <2>1. PICK step \in {"cancelOffer", "readListing"} :
           BeginTrade(t, step, offer[o].listing, o, NoRow) /\ offer[o].status = "pending"
    BY <1>5 DEF BeginCancelOffer, BeginRespond
  <2>2. PICK l \in Listings : l = offer[o].listing
    BY DEF MarketSafe, MarketTypeOK
  <2> DEFINE r == [step |-> step, listing |-> l, offer |-> o, row |-> NoRow, columns |-> {}]
  <2>3. r \in TradeRow /\ (BeginRow(r) => TradeBegins(t, r))
    BY <1>1, <2>1, <2>2, NoTradeTyped DEF TradeStep
  <2>4. BeginRow(r)
    BY <2>1, <2>2 DEF BeginRow
  <2> QED BY <2>3, <2>4
<1> QED BY <1>2, <1>3, <1>4, <1>5

(* How the request q goes on to r without saving anything. *)
GoesOn(q, r) ==
    \/ q.step \in {"readListing", "findAccepted"} /\ r = NoTrade
    \/ /\ q.step = "compare" /\ r.step = "write"
       /\ r.listing = q.listing /\ r.offer = q.offer /\ r.row = q.row
       /\ r.columns = {c \in {"status", "buyer"} : q.row[c] # listing[q.listing][c]}
    \/ /\ q.step = "readListing" /\ r.step \in {"accept", "reject"}
       /\ listing[q.listing].status = "listed"
       /\ r.listing = q.listing /\ r.offer = q.offer /\ r.columns = {}
       /\ r.step = "accept" => r.row.status = "escrowed" /\ r.row.buyer = listing[q.listing].buyer
       /\ r.step = "reject" => r.row = NoRow
    \/ /\ q.step = "findAccepted" /\ r.step = "compare"
       /\ r.listing = q.listing /\ r.offer = q.offer /\ r.columns = {}
       /\ r.row.status = "sold"
       /\ \E o \in Offers : On(o, q.listing, "accepted") /\ r.row.buyer = Offeror[o]

TradeGoesOn(t, r) ==
    /\ trade' = [trade EXCEPT ![t] = r] /\ GoesOn(trade[t], r)
    /\ UNCHANGED <<listing, offer, marketFaults, accepted, stranded, mixed, disturbed>>

(* A step that keeps the offer and the listing of a request. *)
LEMMA TradeStepMoves ==
    ASSUME MarketSafe, NEW t \in Traders, NEW step \in TradeStep, NEW row \in ListingRow,
           TradeGoes(t, step, row)
    PROVE  \E r \in TradeRow : /\ trade' = [trade EXCEPT ![t] = r]
                               /\ r.step = step /\ r.listing = trade[t].listing
                               /\ r.offer = trade[t].offer /\ r.row = row /\ r.columns = {}
<1> DEFINE r == [trade[t] EXCEPT !.step = step, !.row = row, !.columns = {}]
<1>1. trade[t] \in TradeRow
  BY TradeTyped
<1>2. r \in TradeRow /\ r.step = step /\ r.listing = trade[t].listing /\ r.offer = trade[t].offer
      /\ r.row = row /\ r.columns = {}
  BY <1>1 DEF TradeRow
<1>3. trade' = [trade EXCEPT ![t] = r]
  BY DEF TradeGoes
<1> QED BY <1>2, <1>3

LEMMA TradeGoingOn ==
    ASSUME MarketSafe, NEW t \in Traders, CompareListing(t) \/ ReadListing(t) \/ FindAccepted(t)
    PROVE  \E r \in TradeRow : TradeGoesOn(t, r)
<1>1. PICK l \in Listings, row \in ListingRow : l = trade[t].listing /\ row = listing[l]
  BY TradeTyped DEF MarketSafe, MarketTypeOK
<1>2. CASE CompareListing(t)
  <2>1. PICK d : d = {c \in {"status", "buyer"} : trade[t].row[c] # row[c]}
    OBVIOUS
  <2>2. DOMAIN row = {"status", "buyer"}
    BY DEF ListingRow
  <2>3. trade' = [trade EXCEPT ![t] = [trade[t] EXCEPT !.step = "write", !.columns = d]]
    BY <1>1, <1>2, <2>1, <2>2 DEF CompareListing
  <2> DEFINE r == [trade[t] EXCEPT !.step = "write", !.columns = d]
  <2>4. /\ r \in TradeRow /\ r.step = "write" /\ r.columns = d
        /\ r.listing = trade[t].listing /\ r.offer = trade[t].offer /\ r.row = trade[t].row
    BY <2>1, TradeTyped DEF TradeRow, TradeStep
  <2>5. GoesOn(trade[t], r)
    BY <1>1, <1>2, <2>1, <2>4 DEF GoesOn, CompareListing, Trading
  <2> QED BY <1>2, <2>3, <2>4, <2>5 DEF TradeGoesOn, CompareListing
<1>3. CASE ReadListing(t)
  <2>0. PICK held : held = [row EXCEPT !.status = "escrowed"]
    OBVIOUS
  <2>1. held \in ListingRow /\ held.status = "escrowed" /\ held.buyer = row.buyer
    BY <2>0 DEF ListingRow, ListingStatus
  <2>2. \/ EndTrade(t)
        \/ row.status = "listed" /\ (TradeGoes(t, "reject", NoRow) \/ TradeGoes(t, "accept", held))
    BY <1>1, <1>3, <2>0 DEF ReadListing
  <2>3. trade[t].step = "readListing"
        /\ UNCHANGED <<listing, offer, marketFaults, accepted, stranded, mixed, disturbed>>
    BY <1>3 DEF ReadListing, Trading
  <2>4. CASE EndTrade(t)
    BY <2>3, <2>4, NoTradeTyped DEF EndTrade, TradeGoesOn, GoesOn
  <2>5. CASE row.status = "listed" /\ TradeGoes(t, "reject", NoRow)
    <3>1. PICK r \in TradeRow : /\ trade' = [trade EXCEPT ![t] = r]
                                /\ r.step = "reject" /\ r.listing = trade[t].listing
                                /\ r.offer = trade[t].offer /\ r.row = NoRow /\ r.columns = {}
      BY <2>5, NoTradeTyped, TradeStepMoves DEF TradeStep
    <3>2. GoesOn(trade[t], r)
      BY <1>1, <2>3, <2>5, <3>1 DEF GoesOn
    <3> QED BY <2>3, <3>1, <3>2 DEF TradeGoesOn
  <2>6. CASE row.status = "listed" /\ TradeGoes(t, "accept", held)
    <3>1. PICK r \in TradeRow : /\ trade' = [trade EXCEPT ![t] = r]
                                /\ r.step = "accept" /\ r.listing = trade[t].listing
                                /\ r.offer = trade[t].offer /\ r.row = held /\ r.columns = {}
      BY <2>1, <2>6, TradeStepMoves DEF TradeStep
    <3>2. GoesOn(trade[t], r)
      BY <1>1, <2>1, <2>3, <2>6, <3>1 DEF GoesOn
    <3> QED BY <2>3, <3>1, <3>2 DEF TradeGoesOn
  <2> QED BY <2>2, <2>4, <2>5, <2>6
<1>4. CASE FindAccepted(t)
  <2>1. trade[t].step = "findAccepted"
        /\ UNCHANGED <<listing, offer, marketFaults, accepted, stranded, mixed, disturbed>>
    BY <1>4 DEF FindAccepted, Trading
  <2>2. CASE EndTrade(t)
    BY <2>1, <2>2, NoTradeTyped DEF EndTrade, TradeGoesOn, GoesOn
  <2>3. CASE ~EndTrade(t)
    <3>1. PICK o \in Offers : /\ On(o, l, "accepted")
                              /\ TradeGoes(t, "compare", [status |-> "sold", buyer |-> Offeror[o]])
      BY <1>1, <1>4, <2>3 DEF FindAccepted, OffersOn, On
    <3>2. PICK user \in Offerors : user = Offeror[o]
      BY MarketAssumption
    <3>3. PICK bought : bought = [status |-> "sold", buyer |-> user]
      OBVIOUS
    <3>4. bought \in ListingRow /\ bought.status = "sold" /\ bought.buyer = user
      BY <3>3 DEF ListingRow, ListingStatus
    <3>5. PICK r \in TradeRow : /\ trade' = [trade EXCEPT ![t] = r]
                                /\ r.step = "compare" /\ r.listing = trade[t].listing
                                /\ r.offer = trade[t].offer /\ r.row = bought /\ r.columns = {}
      BY <3>1, <3>2, <3>3, <3>4, TradeStepMoves DEF TradeStep
    <3>6. GoesOn(trade[t], r)
      BY <1>1, <2>1, <3>1, <3>2, <3>4, <3>5 DEF GoesOn
    <3> QED BY <2>1, <3>5, <3>6 DEF TradeGoesOn
  <2> QED BY <2>2, <2>3
<1> QED BY <1>2, <1>3, <1>4

(* How the request q saves offers, and goes on to r. *)
SavesOffers(q, r) ==
    \/ /\ q.step \in {"withdrawOffers", "outbid"} /\ r = NoTrade /\ accepted' = accepted
       /\ \A p \in Offers :
             /\ offer'[p].listing = offer[p].listing
             /\ On(p, q.listing, "pending") => offer'[p].status \in {"cancelled", "outbid"}
             /\ ~On(p, q.listing, "pending") => offer'[p] = offer[p]
    \/ /\ q.step = "insertOffer" /\ r = NoTrade /\ accepted' = accepted
       /\ q.offer \in Offers /\ offer[q.offer].status = "none"
       /\ offer'[q.offer].status = "pending" /\ offer'[q.offer].listing = q.listing
       /\ \A p \in Offers : p # q.offer => offer'[p] = offer[p]
    \/ /\ q.step \in {"cancelOffer", "reject"} /\ r = NoTrade /\ accepted' = accepted
       /\ offer'[q.offer].status \in {"cancelled", "rejected"}
       /\ \A p \in Offers : /\ offer'[p].listing = offer[p].listing
                            /\ p # q.offer => offer'[p] = offer[p]
    \/ /\ q.step = "accept" /\ accepted' = accepted \cup {q.offer}
       /\ r.step = "compare" /\ r.listing = q.listing /\ r.offer = q.offer
       /\ r.row = q.row /\ r.columns = {}
       /\ offer'[q.offer].status = "accepted"
       /\ \A p \in Offers : /\ offer'[p].listing = offer[p].listing
                            /\ p # q.offer => offer'[p] = offer[p]

TradeSavesOffers(t, r) ==
    /\ trade' = [trade EXCEPT ![t] = r] /\ SavesOffers(trade[t], r)
    /\ offer' \in [Offers -> [status : OfferStatus, listing : Listings]]
    /\ UNCHANGED <<listing, marketFaults, stranded, mixed, disturbed>>

LEMMA SetOfferEffect ==
    ASSUME MarketSafe, NEW t \in Traders, NEW o \in Offers, o = trade[t].offer,
           NEW status \in OfferStatus, SetOffer(t, status)
    PROVE  /\ offer' \in [Offers -> [status : OfferStatus, listing : Listings]]
           /\ offer'[o].status = status
           /\ \A p \in Offers : /\ offer'[p].listing = offer[p].listing
                                /\ p # o => offer'[p] = offer[p]
BY DEF MarketSafe, MarketTypeOK, SetOffer

LEMMA SetPendingEffect ==
    ASSUME MarketSafe, NEW t \in Traders, NEW status \in OfferStatus, SetPendingOffers(t, status)
    PROVE  /\ offer' \in [Offers -> [status : OfferStatus, listing : Listings]]
           /\ \A p \in Offers :
                 /\ offer'[p].listing = offer[p].listing
                 /\ On(p, trade[t].listing, "pending") => offer'[p].status = status
                 /\ ~On(p, trade[t].listing, "pending") => offer'[p] = offer[p]
<1>1. \A p \in Offers : offer[p] \in [status : OfferStatus, listing : Listings]
  BY DEF MarketSafe, MarketTypeOK
<1>2. \A p \in Offers : [offer[p] EXCEPT !.status = status] \in [status : OfferStatus, listing : Listings]
  BY <1>1
<1> QED BY <1>1, <1>2 DEF SetPendingOffers, On

LEMMA TradeSaving ==
    ASSUME MarketSafe, NEW t \in Traders,
           \/ WithdrawOffers(t) \/ OutbidOffers(t) \/ CreateOffer(t)
           \/ CancelOffer(t) \/ RejectOffer(t) \/ AcceptOffer(t)
    PROVE  \E r \in TradeRow : TradeSavesOffers(t, r)
<1>1. CASE WithdrawOffers(t) \/ OutbidOffers(t)
  <2>1. PICK status \in {"cancelled", "outbid"} : SetPendingOffers(t, status)
    BY <1>1 DEF WithdrawOffers, OutbidOffers
  <2>2. status \in OfferStatus
    BY DEF OfferStatus
  <2>3. /\ offer' \in [Offers -> [status : OfferStatus, listing : Listings]]
        /\ \A p \in Offers :
              /\ offer'[p].listing = offer[p].listing
              /\ On(p, trade[t].listing, "pending") => offer'[p].status = status
              /\ ~On(p, trade[t].listing, "pending") => offer'[p] = offer[p]
    BY <2>1, <2>2, SetPendingEffect
  <2>4. /\ trade[t].step \in {"withdrawOffers", "outbid"} /\ trade' = [trade EXCEPT ![t] = NoTrade]
        /\ UNCHANGED <<listing, marketFaults, accepted, stranded, mixed, disturbed>>
    BY <1>1 DEF WithdrawOffers, OutbidOffers, Trading, EndTrade
  <2>5. SavesOffers(trade[t], NoTrade)
    BY <2>3, <2>4 DEF SavesOffers
  <2> QED BY <2>3, <2>4, <2>5, NoTradeTyped DEF TradeSavesOffers
<1>2. CASE CreateOffer(t)
  <2>1. PICK o \in Offers, k \in Listings :
           o = trade[t].offer /\ offer[o].status = "none" /\ k = trade[t].listing
    BY <1>2, TradeTyped DEF MarketSafe, InsertedIsNew, CreateOffer, Trading
  <2>2. /\ offer' \in [Offers -> [status : OfferStatus, listing : Listings]]
        /\ offer'[o].status = "pending" /\ offer'[o].listing = k
        /\ \A p \in Offers : p # o => offer'[p] = offer[p]
    BY <1>2, <2>1 DEF CreateOffer, OfferStatus, MarketSafe, MarketTypeOK
  <2>3. /\ trade[t].step = "insertOffer" /\ trade' = [trade EXCEPT ![t] = NoTrade]
        /\ UNCHANGED <<listing, marketFaults, accepted, stranded, mixed, disturbed>>
    BY <1>2 DEF CreateOffer, Trading, EndTrade
  <2>4. SavesOffers(trade[t], NoTrade)
    BY <2>1, <2>2, <2>3 DEF SavesOffers
  <2> QED BY <2>2, <2>3, <2>4, NoTradeTyped DEF TradeSavesOffers
<1>3. CASE CancelOffer(t) \/ RejectOffer(t)
  <2>1. PICK status \in {"cancelled", "rejected"} : SetOffer(t, status)
    BY <1>3 DEF CancelOffer, RejectOffer
  <2>2. /\ trade[t].step \in {"cancelOffer", "reject"} /\ trade' = [trade EXCEPT ![t] = NoTrade]
        /\ UNCHANGED <<listing, marketFaults, accepted, stranded, mixed, disturbed>>
    BY <1>3 DEF CancelOffer, RejectOffer, Trading, EndTrade
  <2>3. PICK o \in Offers : o = trade[t].offer
    BY <2>2, TradeTyped DEF TradeOK
  <2>4. status \in OfferStatus
    BY DEF OfferStatus
  <2>5. /\ offer' \in [Offers -> [status : OfferStatus, listing : Listings]]
        /\ offer'[o].status = status
        /\ \A p \in Offers : /\ offer'[p].listing = offer[p].listing
                             /\ p # o => offer'[p] = offer[p]
    BY <2>1, <2>3, <2>4, SetOfferEffect
  <2>6. SavesOffers(trade[t], NoTrade)
    BY <2>2, <2>3, <2>5 DEF SavesOffers
  <2> QED BY <2>2, <2>5, <2>6, NoTradeTyped DEF TradeSavesOffers
<1>4. CASE AcceptOffer(t)
  <2>1. /\ trade[t].step = "accept" /\ SetOffer(t, "accepted")
        /\ accepted' = accepted \cup {trade[t].offer} /\ TradeGoes(t, "compare", trade[t].row)
        /\ UNCHANGED <<listing, marketFaults, stranded, mixed, disturbed>>
    BY <1>4 DEF AcceptOffer, Trading
  <2>2. PICK o \in Offers, row \in ListingRow : o = trade[t].offer /\ row = trade[t].row
    BY <2>1, TradeTyped DEF TradeOK, TradeRow
  <2>3. /\ offer' \in [Offers -> [status : OfferStatus, listing : Listings]]
        /\ offer'[o].status = "accepted"
        /\ \A p \in Offers : /\ offer'[p].listing = offer[p].listing
                             /\ p # o => offer'[p] = offer[p]
    BY <2>1, <2>2, SetOfferEffect DEF OfferStatus
  <2>4. PICK r \in TradeRow : /\ trade' = [trade EXCEPT ![t] = r]
                              /\ r.step = "compare" /\ r.listing = trade[t].listing
                              /\ r.offer = trade[t].offer /\ r.row = row /\ r.columns = {}
    BY <2>1, <2>2, TradeStepMoves DEF TradeStep
  <2>5. SavesOffers(trade[t], r)
    BY <2>1, <2>2, <2>3, <2>4 DEF SavesOffers
  <2> QED BY <2>1, <2>3, <2>4, <2>5 DEF TradeSavesOffers
<1> QED BY <1>1, <1>2, <1>3, <1>4

(* How the request q saves its listing, and goes on to r. *)
TradeSavesListing(t, r) ==
    LET q == trade[t]
        l == trade[t].listing
    IN  /\ q.step = "write" /\ trade' = [trade EXCEPT ![t] = r]
        /\ \/ r = NoTrade /\ q.row.status = "sold"
           \/ /\ r.listing = l /\ r.offer = q.offer /\ r.row = NoRow /\ r.columns = {}
              /\ \/ r.step = "withdrawOffers" /\ q.row.status = "cancelled"
                 \/ r.step = "outbid" /\ q.row.status = "escrowed"
        /\ listing' \in [Listings -> ListingRow]
        /\ listing'[l].status = IF "status" \in q.columns THEN q.row.status ELSE listing[l].status
        /\ listing'[l].buyer = IF "buyer" \in q.columns THEN q.row.buyer ELSE listing[l].buyer
        /\ \A k \in Listings : k # l => listing'[k] = listing[k]
        /\ mixed' = IF \E s \in Traders \ {t} : trade[s].step = "write" /\ trade[s].listing = l
                    THEN mixed \cup {l} ELSE mixed
        /\ UNCHANGED <<offer, marketFaults, accepted, stranded, disturbed>>

LEMMA ListingSaving ==
    ASSUME MarketSafe, NEW t \in Traders, WriteListing(t)
    PROVE  \E r \in TradeRow : TradeSavesListing(t, r)
<1>1. PICK l \in Listings : l = trade[t].listing
  BY TradeTyped
<1>2. PICK row \in ListingRow, columns \in SUBSET {"status", "buyer"} :
         row = trade[t].row /\ columns = trade[t].columns
  BY TradeTyped DEF TradeRow
<1>3. trade[t].step = "write" /\ row.status \in {"cancelled", "escrowed", "sold"}
  BY <1>2, TradeTyped DEF WriteListing, Trading, TradeOK, InSave
<1>4. PICK new : new = [c \in DOMAIN NoRow |-> IF c \in columns THEN row[c] ELSE listing[l][c]]
  OBVIOUS
<1>5. new = [status |-> IF "status" \in columns THEN row.status ELSE listing[l].status,
             buyer |-> IF "buyer" \in columns THEN row.buyer ELSE listing[l].buyer]
  BY <1>4 DEF NoRow
<1>6. listing[l] \in ListingRow /\ listing \in [Listings -> ListingRow]
  BY DEF MarketSafe, MarketTypeOK
<1>7. new \in ListingRow
  BY <1>5, <1>6 DEF ListingRow
<1>8. listing' = [listing EXCEPT ![l] = new]
  BY <1>1, <1>2, <1>4 DEF WriteListing
<1>9. /\ listing' \in [Listings -> ListingRow] /\ listing'[l] = new
      /\ \A k \in Listings : k # l => listing'[k] = listing[k]
  BY <1>6, <1>7, <1>8
<1>10. /\ mixed' = IF \E s \in Traders \ {t} : trade[s].step = "write" /\ trade[s].listing = l
                   THEN mixed \cup {l} ELSE mixed
       /\ UNCHANGED <<offer, marketFaults, accepted, stranded, disturbed>>
  BY <1>1 DEF WriteListing, Trading
<1>11. PICK then : /\ then = AfterListingSave[row.status]
                   /\ IF then = "none" THEN EndTrade(t) ELSE TradeGoes(t, then, NoRow)
  BY <1>2 DEF WriteListing
<1>12. \E r \in TradeRow :
          /\ trade' = [trade EXCEPT ![t] = r]
          /\ \/ r = NoTrade /\ row.status = "sold"
             \/ /\ r.listing = l /\ r.offer = trade[t].offer /\ r.row = NoRow /\ r.columns = {}
                /\ \/ r.step = "withdrawOffers" /\ row.status = "cancelled"
                   \/ r.step = "outbid" /\ row.status = "escrowed"
  <2>1. CASE row.status = "sold"
    <3>1. then = "none"
      BY <1>11, <2>1 DEF AfterListingSave
    <3> QED BY <1>11, <2>1, <3>1, NoTradeTyped DEF EndTrade
  <2>2. CASE row.status = "cancelled"
    <3>1. then = "withdrawOffers"
      BY <1>11, <2>2 DEF AfterListingSave
    <3> QED BY <1>1, <1>11, <2>2, <3>1, NoTradeTyped, TradeStepMoves DEF TradeStep
  <2>3. CASE row.status = "escrowed"
    <3>1. then = "outbid"
      BY <1>11, <2>3 DEF AfterListingSave
    <3> QED BY <1>1, <1>11, <2>3, <3>1, NoTradeTyped, TradeStepMoves DEF TradeStep
  <2> QED BY <1>3, <2>1, <2>2, <2>3
<1>13. /\ listing'[l].status = IF "status" \in columns THEN row.status ELSE listing[l].status
       /\ listing'[l].buyer = IF "buyer" \in columns THEN row.buyer ELSE listing[l].buyer
  BY <1>5, <1>9
<1> QED BY <1>1, <1>2, <1>3, <1>9, <1>10, <1>12, <1>13 DEF TradeSavesListing


(* What is never taken back. *)
Grows ==
    /\ \A o \in Offers : offer[o].status # "none" =>
          offer'[o].status # "none" /\ offer'[o].listing = offer[o].listing
    /\ accepted \subseteq accepted'
    /\ \A l \in Listings : listing[l].status # "none" => listing'[l].status # "none"

LEMMA WonStays ==
    ASSUME MarketSafe, Grows, NEW l, NEW o \in accepted, offer[o].listing = l
    PROVE  o \in accepted' /\ offer'[o].listing = l
BY DEF MarketSafe, MarketTypeOK, AcceptedKnown, Grows

LEMMA TradeStays ==
    ASSUME MarketSafe, Grows, NEW r, TradeOK(r), r.listing \in Listings
    PROVE  TradeOK(r)'
<1>1. r.step \in {"cancelOffer", "readListing", "reject", "accept", "outbid"} =>
          r.offer \in Offers /\ offer'[r.offer].status # "none" /\ offer'[r.offer].listing = r.listing
  BY DEF TradeOK, Grows
<1>2. r.offer \in accepted /\ offer[r.offer].listing = r.listing =>
          r.offer \in accepted' /\ offer'[r.offer].listing = r.listing
  BY WonStays
<1>3. ASSUME r.row.buyer # NoBuyer  PROVE  Won(r.listing, r.row.buyer)'
  <2>1. PICK o \in accepted : offer[o].listing = r.listing /\ Offeror[o] = r.row.buyer
    BY <1>3 DEF TradeOK, Won
  <2>2. o \in accepted' /\ offer'[o].listing = r.listing
    BY <2>1, WonStays
  <2> QED BY <2>1, <2>2 DEF Won
<1>4. listing[r.listing].status # "none" => listing'[r.listing].status # "none"
  BY DEF Grows
<1> QED BY <1>1, <1>2, <1>3, <1>4 DEF TradeOK, InSave

(* One request goes on to r, and another's new offer remains its own. *)
LEMMA TradeMoves ==
    ASSUME MarketSafe, Grows, NEW t \in Traders, NEW r \in TradeRow,
           trade' = [trade EXCEPT ![t] = r], TradeOK(r)',
           r.step = "insertOffer" =>
              /\ r.offer \in Offers /\ offer'[r.offer].status = "none"
              /\ \A s \in Traders : trade[s].offer # r.offer,
           \A s \in Traders \ {t} : trade[s].step = "insertOffer" =>
              r.offer # trade[s].offer /\ offer'[trade[s].offer].status = "none"
    PROVE  /\ trade' \in [Traders -> TradeRow]
           /\ InsertedIsNew'
           /\ \A s \in Traders : TradeOK(trade[s])'
<1>1. trade \in [Traders -> TradeRow]
  BY DEF MarketSafe, MarketTypeOK, TradeRow
<1>2. /\ trade' \in [Traders -> TradeRow] /\ trade'[t] = r
      /\ \A s \in Traders : s # t => trade'[s] = trade[s]
  BY <1>1
<1>3. ASSUME NEW s \in Traders  PROVE  TradeOK(trade[s])'
  <2>1. CASE s = t
    BY <1>2, <2>1 DEF TradeOK, InSave, Won
  <2>2. CASE s # t
    <3>1. PICK q : q = trade[s] /\ q = trade'[s]
      BY <1>2, <2>2
    <3>2. TradeOK(q)'
      BY <3>1, TradeTyped, TradeStays
    <3> QED BY <3>1, <3>2 DEF TradeOK, InSave, Won
  <2> QED BY <2>1, <2>2
<1>4. ASSUME NEW s \in Traders, trade'[s].step = "insertOffer"
      PROVE  /\ trade'[s].offer \in Offers /\ offer'[trade'[s].offer].status = "none"
             /\ \A u \in Traders : trade'[u].offer = trade'[s].offer => u = s
  <2>1. CASE s = t
    BY <1>2, <1>4, <2>1
  <2>2. CASE s # t
    <3>1. /\ trade'[s] = trade[s] /\ trade[s].offer \in Offers /\ offer[trade[s].offer].status = "none"
          /\ \A u \in Traders : trade[u].offer = trade[s].offer => u = s
      BY <1>2, <1>4, <2>2 DEF MarketSafe, InsertedIsNew
    <3>2. r.offer # trade[s].offer /\ offer'[trade[s].offer].status = "none"
      BY <1>4, <2>2, <3>1
    <3> QED BY <1>2, <3>1, <3>2
  <2> QED BY <2>1, <2>2
<1> QED BY <1>2, <1>3, <1>4 DEF InsertedIsNew

(* Steps that leave the listing as it is. *)
LEMMA SoldStays ==
    ASSUME MarketSafe, Grows, UNCHANGED listing, NEW l \in Listings
    PROVE  SoldTo(l)'
<1>1. SoldTo(l)
  BY DEF MarketSafe
<1>2. ASSUME listing'[l].status \in {"escrowed", "sold"}
      PROVE  \E o \in accepted' : offer'[o].listing = l
  <2>1. PICK o \in accepted : offer[o].listing = l
    BY <1>1, <1>2 DEF SoldTo
  <2> QED BY <2>1, WonStays
<1>3. ASSUME listing'[l].buyer # NoBuyer  PROVE  Won(l, listing[l].buyer)'
  <2>1. PICK o \in accepted : offer[o].listing = l /\ Offeror[o] = listing[l].buyer
    BY <1>1, <1>3 DEF SoldTo, Won
  <2>2. o \in accepted' /\ offer'[o].listing = l
    BY <2>1, WonStays
  <2> QED BY <2>1, <2>2 DEF Won
<1> QED BY <1>2, <1>3 DEF SoldTo, Won

(* The offer that another request inserts. *)
LEMMA OthersInsert ==
    ASSUME MarketSafe, NEW t \in Traders, NEW s \in Traders \ {t}, trade[s].step = "insertOffer"
    PROVE  /\ trade[s].offer \in Offers /\ trade[s].offer # NoOffer
           /\ trade[s].offer # trade[t].offer /\ offer[trade[s].offer].status = "none"
BY MarketAssumption DEF MarketSafe, InsertedIsNew

LEMMA BeginKeepsSafe ==
    ASSUME MarketSafe, NEW t \in Traders, NEW r \in TradeRow, TradeBegins(t, r)
    PROVE  MarketSafe'
<1>1. Grows
  BY DEF TradeBegins, Grows
<1>2. TradeOK(r)
  <2>1. SoldTo(r.listing)
    BY DEF MarketSafe, TradeRow
  <2>2. r.row.buyer # NoBuyer => Won(r.listing, r.row.buyer)
    BY <2>1, NoTradeTyped DEF TradeBegins, BeginRow, SoldTo
  <2> QED BY <2>2 DEF TradeBegins, BeginRow, TradeOK, InSave
<1>3. TradeOK(r)'
  BY <1>1, <1>2, TradeStays DEF TradeRow
<1>4. ASSUME NEW s \in Traders \ {t}, trade[s].step = "insertOffer"
      PROVE  r.offer # trade[s].offer /\ offer'[trade[s].offer].status = "none"
  BY <1>4, OthersInsert DEF TradeBegins, BeginRow
<1>5. r.step = "insertOffer" => /\ r.offer \in Offers /\ offer'[r.offer].status = "none"
                                /\ \A s \in Traders : trade[s].offer # r.offer
  BY DEF TradeBegins, BeginRow
<1>6. /\ trade' \in [Traders -> TradeRow] /\ InsertedIsNew'
      /\ \A s \in Traders : TradeOK(trade[s])'
  BY <1>1, <1>3, <1>4, <1>5, TradeMoves DEF TradeBegins
<1>7. \A l \in Listings : SoldTo(l)'
  BY <1>1, SoldStays DEF TradeBegins
<1>8. AcceptedKnown'
  BY DEF TradeBegins, MarketSafe, AcceptedKnown
<1>9. MarketTypeOK'
  BY <1>6 DEF TradeBegins, MarketSafe, MarketTypeOK, TradeRow
<1> QED BY <1>6, <1>7, <1>8, <1>9 DEF MarketSafe

LEMMA GoingOnKeepsSafe ==
    ASSUME MarketSafe, NEW t \in Traders, NEW r \in TradeRow, TradeGoesOn(t, r)
    PROVE  MarketSafe'
<1> DEFINE q == trade[t]
<1>1. Grows
  BY DEF TradeGoesOn, Grows
<1>2. q \in TradeRow /\ TradeOK(q) /\ GoesOn(q, r) /\ q.listing \in Listings /\ SoldTo(q.listing)
  BY TradeTyped DEF TradeGoesOn, MarketSafe
<1> HIDE DEF q
<1>3. TradeOK(r)
  <2>1. CASE r = NoTrade
    BY <2>1, NoTradeTyped DEF TradeOK, InSave
  <2>2. CASE q.step = "compare" /\ r.step = "write" /\ r.listing = q.listing
             /\ r.offer = q.offer /\ r.row = q.row
    BY <1>2, <2>2 DEF TradeOK, InSave
  <2>3. CASE q.step = "readListing" /\ r.step \in {"accept", "reject"}
    <3>1. /\ listing[q.listing].status = "listed"
          /\ r.listing = q.listing /\ r.offer = q.offer
          /\ r.step = "accept" => r.row.status = "escrowed" /\ r.row.buyer = listing[q.listing].buyer
          /\ r.step = "reject" => r.row = NoRow
      BY <1>2, <2>3, NoTradeTyped DEF GoesOn
    <3>2. r.row.buyer # NoBuyer => Won(r.listing, r.row.buyer)
      BY <1>2, <2>3, <3>1, NoTradeTyped DEF SoldTo
    <3> QED BY <1>2, <2>3, <3>1, <3>2 DEF TradeOK, InSave
  <2>4. CASE q.step = "findAccepted" /\ r.step = "compare"
    <3>1. /\ r.listing = q.listing /\ r.offer = q.offer /\ r.row.status = "sold"
          /\ \E o \in Offers : On(o, q.listing, "accepted") /\ r.row.buyer = Offeror[o]
      BY <1>2, <2>4, NoTradeTyped DEF GoesOn
    <3>2. r.row.buyer # NoBuyer /\ Won(r.listing, r.row.buyer)
      BY <3>1, MarketAssumption DEF MarketSafe, AcceptedKnown, On, Won
    <3> QED BY <1>2, <2>4, <3>1, <3>2 DEF TradeOK, InSave
  <2> QED BY <1>2, <2>1, <2>2, <2>3, <2>4 DEF GoesOn
<1>4. TradeOK(r)'
  BY <1>1, <1>3, TradeStays DEF TradeRow
<1>5. r.step # "insertOffer" /\ r.offer \in {q.offer, NoOffer}
  BY <1>2, NoTradeTyped DEF GoesOn
<1>6. ASSUME NEW s \in Traders \ {t}, trade[s].step = "insertOffer"
      PROVE  r.offer # trade[s].offer /\ offer'[trade[s].offer].status = "none"
  BY <1>5, <1>6, OthersInsert DEF TradeGoesOn, q
<1>7. /\ trade' \in [Traders -> TradeRow] /\ InsertedIsNew'
      /\ \A s \in Traders : TradeOK(trade[s])'
  BY <1>1, <1>4, <1>5, <1>6, TradeMoves DEF TradeGoesOn
<1>8. \A l \in Listings : SoldTo(l)'
  BY <1>1, SoldStays DEF TradeGoesOn
<1>9. AcceptedKnown' /\ MarketTypeOK'
  BY <1>7 DEF TradeGoesOn, MarketSafe, MarketTypeOK, AcceptedKnown, TradeRow
<1> QED BY <1>7, <1>8, <1>9 DEF MarketSafe

LEMMA SavingOffersKeepsSafe ==
    ASSUME MarketSafe, NEW t \in Traders, NEW r \in TradeRow, TradeSavesOffers(t, r)
    PROVE  MarketSafe' /\ Grows
<1>0. PICK q \in TradeRow : q = trade[t]
  BY TradeTyped
<1>1. TradeOK(q) /\ SavesOffers(q, r) /\ q.listing \in Listings
  BY <1>0, TradeTyped DEF TradeSavesOffers
<1>2. \/ r = NoTrade /\ accepted' = accepted
      \/ /\ q.step = "accept" /\ accepted' = accepted \cup {q.offer} /\ r.step = "compare"
         /\ r.listing = q.listing /\ r.offer = q.offer /\ r.row = q.row
         /\ offer'[q.offer].status = "accepted"
  BY <1>1 DEF SavesOffers
<1>3. q.step = "accept" => q.offer \in Offers /\ q.row.status = "escrowed"
  BY <1>1 DEF TradeOK
<1>4. Grows
  <2>1. ASSUME NEW o \in Offers, offer[o].status # "none"
        PROVE  offer'[o].status # "none" /\ offer'[o].listing = offer[o].listing
    BY <1>1, <2>1 DEF SavesOffers
  <2> QED BY <1>2, <2>1 DEF TradeSavesOffers, Grows
<1>5. TradeOK(r)'
  <2>1. CASE r = NoTrade
    BY <2>1, NoTradeTyped DEF TradeOK, InSave
  <2>2. CASE r # NoTrade
    <3>1. TradeOK(q)'
      BY <1>1, <1>4, TradeStays
    <3> QED BY <1>2, <1>3, <2>2, <3>1 DEF TradeOK, InSave, Won
  <2> QED BY <2>1, <2>2
<1>6. r.step # "insertOffer" /\ r.offer \in {q.offer, NoOffer}
  BY <1>2, NoTradeTyped
<1>7. ASSUME NEW s \in Traders \ {t}, trade[s].step = "insertOffer"
      PROVE  r.offer # trade[s].offer /\ offer'[trade[s].offer].status = "none"
  <2>1. /\ trade[s].offer \in Offers /\ trade[s].offer # NoOffer
        /\ trade[s].offer # q.offer /\ offer[trade[s].offer].status = "none"
    BY <1>0, <1>7, OthersInsert
  <2>2. offer'[trade[s].offer] = offer[trade[s].offer]
    BY <1>1, <2>1 DEF SavesOffers, On
  <2> QED BY <1>6, <2>1, <2>2
<1>8. /\ trade' \in [Traders -> TradeRow] /\ InsertedIsNew'
      /\ \A s \in Traders : TradeOK(trade[s])'
  BY <1>4, <1>5, <1>6, <1>7, TradeMoves DEF TradeSavesOffers
<1>9. \A l \in Listings : SoldTo(l)'
  BY <1>4, SoldStays DEF TradeSavesOffers
<1>10. AcceptedKnown'
  <2>1. ASSUME NEW o \in Offers, offer'[o].status = "accepted"  PROVE  o \in accepted'
    BY <1>1, <2>1 DEF SavesOffers, MarketSafe, AcceptedKnown
  <2>2. ASSUME NEW o \in Offers, o \in accepted'  PROVE  offer'[o].status # "none"
    BY <1>2, <1>4, <2>2 DEF Grows, MarketSafe, AcceptedKnown
  <2> QED BY <2>1, <2>2 DEF AcceptedKnown
<1>11. MarketTypeOK'
  BY <1>2, <1>3, <1>8 DEF TradeSavesOffers, MarketSafe, MarketTypeOK, TradeRow
<1> QED BY <1>4, <1>8, <1>9, <1>10, <1>11 DEF MarketSafe

LEMMA SavingListingKeepsSafe ==
    ASSUME MarketSafe, NEW t \in Traders, NEW r \in TradeRow, TradeSavesListing(t, r)
    PROVE  MarketSafe' /\ Grows
<1>1. PICK q \in TradeRow, l \in Listings : q = trade[t] /\ l = q.listing
  BY TradeTyped
<1>2. q \in TradeRow /\ TradeOK(q) /\ q.step = "write"
  BY <1>1, TradeTyped DEF TradeSavesListing
<1>3. /\ trade' = [trade EXCEPT ![t] = r]
      /\ \/ r = NoTrade
         \/ /\ r.listing = l /\ r.offer = q.offer /\ r.row = NoRow
            /\ \/ r.step = "withdrawOffers"
               \/ r.step = "outbid" /\ q.row.status = "escrowed"
      /\ listing' \in [Listings -> ListingRow]
      /\ listing'[l].status = IF "status" \in q.columns THEN q.row.status ELSE listing[l].status
      /\ listing'[l].buyer = IF "buyer" \in q.columns THEN q.row.buyer ELSE listing[l].buyer
      /\ \A k \in Listings : k # l => listing'[k] = listing[k]
      /\ UNCHANGED <<offer, marketFaults, accepted, stranded, disturbed>>
  BY <1>1 DEF TradeSavesListing
<1>4. mixed' \subseteq Listings
  BY <1>1 DEF TradeSavesListing, MarketSafe, MarketTypeOK
<1>5. /\ q.row.status \in {"cancelled", "escrowed", "sold"}
      /\ q.row.status = "escrowed" => q.offer \in accepted /\ offer[q.offer].listing = l
      /\ q.row.status = "sold" => q.row.buyer # NoBuyer
      /\ q.row.buyer # NoBuyer => Won(l, q.row.buyer)
  BY <1>1, <1>2 DEF TradeOK, InSave
<1>6. Grows
  <2>1. ASSUME NEW k \in Listings, listing[k].status # "none"  PROVE  listing'[k].status # "none"
    BY <1>3, <1>5, <2>1
  <2> QED BY <1>3, <2>1 DEF Grows
<1>7. TradeOK(r)
  <2>1. CASE r = NoTrade
    BY <2>1, NoTradeTyped DEF TradeOK, InSave
  <2>2. CASE r # NoTrade
    <3>1. q.row.status = "escrowed" => offer[q.offer].status # "none" /\ q.offer \in Offers
      BY <1>5 DEF MarketSafe, MarketTypeOK, AcceptedKnown
    <3> QED BY <1>3, <1>5, <2>2, <3>1, NoTradeTyped DEF TradeOK, InSave
  <2> QED BY <2>1, <2>2
<1>8. TradeOK(r)'
  BY <1>6, <1>7, TradeStays DEF TradeRow
<1>9. r.step # "insertOffer" /\ r.offer \in {q.offer, NoOffer}
  BY <1>3, NoTradeTyped
<1>10. ASSUME NEW s \in Traders \ {t}, trade[s].step = "insertOffer"
       PROVE  r.offer # trade[s].offer /\ offer'[trade[s].offer].status = "none"
  BY <1>1, <1>3, <1>9, <1>10, OthersInsert
<1>11. /\ trade' \in [Traders -> TradeRow] /\ InsertedIsNew'
       /\ \A s \in Traders : TradeOK(trade[s])'
  BY <1>3, <1>6, <1>8, <1>9, <1>10, TradeMoves
<1>12. ASSUME NEW k \in Listings  PROVE  SoldTo(k)'
  <2>1. SoldTo(k)
    BY DEF MarketSafe
  <2>2. CASE k # l
    BY <1>3, <2>1, <2>2 DEF SoldTo, Won
  <2>3. CASE k = l
    <3>1. listing'[l].buyer # NoBuyer => Won(l, listing'[l].buyer)
      BY <1>3, <1>5, <2>1, <2>3 DEF SoldTo
    <3>2. listing'[l].status \in {"escrowed", "sold"} => \E o \in accepted : offer[o].listing = l
      BY <1>3, <1>5, <2>1, <2>3 DEF SoldTo, Won
    <3> QED BY <1>3, <2>3, <3>1, <3>2 DEF SoldTo, Won
  <2> QED BY <2>2, <2>3
<1>13. AcceptedKnown' /\ MarketTypeOK'
  BY <1>3, <1>4, <1>11 DEF MarketSafe, MarketTypeOK, AcceptedKnown, TradeRow
<1> QED BY <1>6, <1>11, <1>12, <1>13 DEF MarketSafe

LEMMA CreateListingKeepsSafe ==
    ASSUME MarketSafe, NEW l \in Listings, CreateListing(l)
    PROVE  MarketSafe'
<1>1. listing[l] \in ListingRow /\ listing \in [Listings -> ListingRow]
  BY DEF MarketSafe, MarketTypeOK
<1>2. /\ listing' \in [Listings -> ListingRow]
      /\ listing'[l].status = "listed" /\ listing'[l].buyer = listing[l].buyer
      /\ \A k \in Listings : k # l => listing'[k] = listing[k]
  BY <1>1 DEF CreateListing, ListingRow, ListingStatus
<1>3. UNCHANGED <<offer, trade, marketFaults, accepted, stranded, mixed, disturbed>>
  BY DEF CreateListing
<1>4. Grows
  BY <1>2, <1>3 DEF Grows
<1>5. ASSUME NEW t \in Traders  PROVE  TradeOK(trade[t])'
  <2>1. PICK q : q = trade[t] /\ q = trade'[t]
    BY <1>3
  <2>2. TradeOK(q)'
    BY <1>4, <2>1, TradeTyped, TradeStays
  <2> QED BY <2>1, <2>2 DEF TradeOK, InSave, Won
<1>6. ASSUME NEW k \in Listings  PROVE  SoldTo(k)'
  <2>1. SoldTo(k)
    BY DEF MarketSafe
  <2> QED BY <1>2, <1>3, <2>1 DEF SoldTo, Won
<1>7. InsertedIsNew' /\ AcceptedKnown' /\ MarketTypeOK'
  BY <1>2, <1>3 DEF MarketSafe, InsertedIsNew, AcceptedKnown, MarketTypeOK
<1> QED BY <1>5, <1>6, <1>7 DEF MarketSafe

LEMMA FailTradeEffect ==
    ASSUME MarketSafe, NEW t \in Traders, FailTrade(t)
    PROVE  /\ trade' = [trade EXCEPT ![t] = NoTrade] /\ trade[t].step # "none"
           /\ marketFaults' \in 0 .. MaxMarketFaults
           /\ stranded' \in [Listings -> Nat]
           /\ \A l \in Listings : /\ Escrowing(t, l) => stranded'[l] = stranded[l] + 1
                                  /\ ~Escrowing(t, l) => stranded'[l] = stranded[l]
           /\ disturbed' = TRUE
           /\ UNCHANGED <<listing, offer, accepted, mixed>>
<1>1. marketFaults \in 0 .. MaxMarketFaults /\ stranded \in [Listings -> Nat]
  BY DEF MarketSafe, MarketTypeOK
<1>2. marketFaults' \in 0 .. MaxMarketFaults
  BY <1>1, MarketAssumption DEF FailTrade
<1>3. stranded' = [l \in Listings |-> IF Escrowing(t, l) THEN stranded[l] + 1 ELSE stranded[l]]
  BY DEF FailTrade
<1>4. \A l \in Listings : stranded[l] \in Nat /\ stranded[l] + 1 \in Nat
  BY <1>1
<1>5. /\ stranded' \in [Listings -> Nat]
      /\ \A l \in Listings : /\ Escrowing(t, l) => stranded'[l] = stranded[l] + 1
                             /\ ~Escrowing(t, l) => stranded'[l] = stranded[l]
  BY <1>3, <1>4, Zenon
<1> QED BY <1>2, <1>5 DEF FailTrade, EndTrade

LEMMA FailTradeKeepsSafe ==
    ASSUME MarketSafe, NEW t \in Traders, FailTrade(t)
    PROVE  MarketSafe'
<1>1. /\ trade' = [trade EXCEPT ![t] = NoTrade]
      /\ marketFaults' \in 0 .. MaxMarketFaults
      /\ stranded' \in [Listings -> Nat] /\ disturbed' = TRUE
      /\ UNCHANGED <<listing, offer, accepted, mixed>>
  BY FailTradeEffect
<1>2. Grows
  BY <1>1 DEF Grows
<1>3. TradeOK(NoTrade)'
  BY NoTradeTyped DEF TradeOK, InSave
<1>4. /\ trade' \in [Traders -> TradeRow] /\ InsertedIsNew'
      /\ \A s \in Traders : TradeOK(trade[s])'
  BY <1>1, <1>2, <1>3, NoTradeTyped, OthersInsert, TradeMoves
<1>5. \A l \in Listings : SoldTo(l)'
  BY <1>1, <1>2, SoldStays
<1>6. AcceptedKnown' /\ MarketTypeOK'
  BY <1>1, <1>4 DEF MarketSafe, AcceptedKnown, MarketTypeOK, TradeRow
<1> QED BY <1>4, <1>5, <1>6 DEF MarketSafe

(* The kinds of step that the marketplace takes. *)
LEMMA MarketSteps ==
    ASSUME MarketSafe, MarketNext
    PROVE  \/ \E l \in Listings : CreateListing(l)
           \/ \E t \in Traders : FailTrade(t)
           \/ \E t \in Traders, r \in TradeRow :
                 \/ TradeBegins(t, r) \/ TradeGoesOn(t, r)
                 \/ TradeSavesOffers(t, r) \/ TradeSavesListing(t, r)
<1>1. ASSUME NEW t \in Traders,
             \/ \E l \in Listings : \/ BeginCancelListing(t, l) \/ BeginSettle(t, l)
                                    \/ \E o \in Offers : BeginCreateOffer(t, l, o)
             \/ \E o \in Offers : BeginCancelOffer(t, o) \/ BeginRespond(t, o)
      PROVE  \E r \in TradeRow : TradeBegins(t, r)
  BY <1>1, TradeBeginning
<1>2. ASSUME NEW t \in Traders, CompareListing(t) \/ ReadListing(t) \/ FindAccepted(t)
      PROVE  \E r \in TradeRow : TradeGoesOn(t, r)
  BY <1>2, TradeGoingOn
<1>3. ASSUME NEW t \in Traders,
             \/ WithdrawOffers(t) \/ OutbidOffers(t) \/ CreateOffer(t)
             \/ CancelOffer(t) \/ RejectOffer(t) \/ AcceptOffer(t)
      PROVE  \E r \in TradeRow : TradeSavesOffers(t, r)
  BY <1>3, TradeSaving
<1>4. ASSUME NEW t \in Traders, WriteListing(t)
      PROVE  \E r \in TradeRow : TradeSavesListing(t, r)
  BY <1>4, ListingSaving
<1> QED BY <1>1, <1>2, <1>3, <1>4 DEF MarketNext

LEMMA MarketSafeInit == MarketInit => MarketSafe
<1> SUFFICES ASSUME MarketInit  PROVE  MarketSafe
  OBVIOUS
<1>1. MarketTypeOK
  <2>1. listing \in [Listings -> ListingRow] /\ trade \in [Traders -> TradeRow]
    BY NoTradeTyped DEF MarketInit
  <2>2. offer \in [Offers -> [status : OfferStatus, listing : Listings]]
    BY NoTradeTyped DEF MarketInit, OfferStatus
  <2>3. marketFaults \in 0 .. MaxMarketFaults /\ stranded \in [Listings -> Nat]
    BY MarketAssumption DEF MarketInit
  <2> QED BY <2>1, <2>2, <2>3 DEF MarketInit, MarketTypeOK, TradeRow
<1>2. \A t \in Traders : TradeOK(trade[t])
  BY NoTradeTyped DEF MarketInit, TradeOK, InSave
<1>3. \A l \in Listings : SoldTo(l)
  BY NoTradeTyped DEF MarketInit, SoldTo
<1>4. InsertedIsNew /\ AcceptedKnown
  BY NoTradeTyped DEF MarketInit, InsertedIsNew, AcceptedKnown
<1> QED BY <1>1, <1>2, <1>3, <1>4 DEF MarketSafe

LEMMA MarketSafeKept == MarketSafe /\ [MarketNext]_marketVars => MarketSafe'
<1> SUFFICES ASSUME MarketSafe, [MarketNext]_marketVars  PROVE  MarketSafe'
  OBVIOUS
<1>1. CASE MarketNext
  BY <1>1, MarketSteps, CreateListingKeepsSafe, FailTradeKeepsSafe, BeginKeepsSafe,
     GoingOnKeepsSafe, SavingOffersKeepsSafe, SavingListingKeepsSafe
<1>2. CASE UNCHANGED marketVars
  <2>1. UNCHANGED <<listing, offer, trade, marketFaults, accepted, stranded, mixed, disturbed>>
    BY <1>2 DEF marketVars
  <2>2. ASSUME NEW t \in Traders  PROVE  TradeOK(trade[t])'
    <3>1. TradeOK(trade[t])
      BY DEF MarketSafe
    <3> QED BY <2>1, <3>1 DEF TradeOK, InSave, Won
  <2>3. ASSUME NEW l \in Listings  PROVE  SoldTo(l)'
    <3>1. SoldTo(l)
      BY DEF MarketSafe
    <3> QED BY <2>1, <3>1 DEF SoldTo, Won
  <2>4. MarketTypeOK' /\ InsertedIsNew' /\ AcceptedKnown'
    BY <2>1 DEF MarketSafe, MarketTypeOK, InsertedIsNew, AcceptedKnown
  <2> QED BY <2>2, <2>3, <2>4 DEF MarketSafe
<1> QED BY <1>1, <1>2

(* As long as the saves of a listing do not mix, the sold one, and no      *)
(* other, names its buyer, and so does every copy; and what a request is   *)
(* about to write makes the row equal to its copy.                         *)
CopyUnmixed(r) ==
    /\ r.step \in {"accept", "compare", "write"} => (r.row.status = "sold" <=> r.row.buyer # NoBuyer)
    /\ r.step = "write" => r.columns = {c \in {"status", "buyer"} : r.row[c] # listing[r.listing][c]}

Unmixed ==
    \A l \in Listings \ mixed :
        /\ listing[l].status = "sold" <=> listing[l].buyer # NoBuyer
        /\ \A t \in Traders : trade[t].listing = l => CopyUnmixed(trade[t])

(* The request t goes on to r, and no listing is saved. *)
LEMMA UnmixedMoves ==
    ASSUME MarketSafe, Unmixed, NEW t \in Traders, NEW r,
           trade' = [trade EXCEPT ![t] = r], UNCHANGED <<listing, mixed>>,
           r.listing \in Listings \ mixed => CopyUnmixed(r)
    PROVE  Unmixed'
<1>1. /\ trade'[t] = r
      /\ \A s \in Traders : s # t => trade'[s] = trade[s]
  BY DEF MarketSafe, MarketTypeOK
<1>2. ASSUME NEW l \in Listings \ mixed, NEW s \in Traders, trade'[s].listing = l
      PROVE  CopyUnmixed(trade[s])'
  <2>1. CASE s = t
    BY <1>1, <1>2, <2>1 DEF CopyUnmixed
  <2>2. CASE s # t
    BY <1>1, <1>2, <2>2 DEF CopyUnmixed, Unmixed
  <2> QED BY <2>1, <2>2
<1> QED BY <1>2 DEF Unmixed

LEMMA UnmixedKept ==
    ASSUME MarketSafe, Unmixed, [MarketNext]_marketVars
    PROVE  Unmixed'
<1>1. ASSUME NEW l \in Listings, CreateListing(l)  PROVE  Unmixed'
  <2>1. listing[l] \in ListingRow /\ listing \in [Listings -> ListingRow] /\ listing[l].status = "none"
    BY <1>1 DEF MarketSafe, MarketTypeOK, CreateListing
  <2>2. /\ listing'[l].status = "listed" /\ listing'[l].buyer = listing[l].buyer
        /\ \A k \in Listings : k # l => listing'[k] = listing[k]
    BY <1>1, <2>1 DEF CreateListing, ListingRow
  <2>3. UNCHANGED <<trade, mixed>>
    BY <1>1 DEF CreateListing
  <2>4. ASSUME NEW k \in Listings \ mixed, NEW s \in Traders, trade[s].listing = k
        PROVE  CopyUnmixed(trade[s])'
    <3>1. CopyUnmixed(trade[s])
      BY <2>4 DEF Unmixed
    <3>2. trade[s].step = "write" => k # l
      BY <2>1, <2>4, TradeTyped DEF TradeOK
    <3> QED BY <2>2, <2>3, <2>4, <3>1, <3>2 DEF CopyUnmixed
  <2> QED BY <2>1, <2>2, <2>3, <2>4 DEF Unmixed
<1>2. ASSUME NEW t \in Traders, FailTrade(t)  PROVE  Unmixed'
  <2>1. CopyUnmixed(NoTrade)
    BY NoTradeTyped DEF CopyUnmixed
  <2> QED BY <1>2, <2>1, FailTradeEffect, UnmixedMoves
<1>3. ASSUME NEW t \in Traders, NEW r \in TradeRow, TradeBegins(t, r)  PROVE  Unmixed'
  <2>1. ASSUME r.listing \in Listings \ mixed  PROVE  CopyUnmixed(r)
    <3>1. listing[r.listing].status = "sold" <=> listing[r.listing].buyer # NoBuyer
      BY <2>1 DEF Unmixed
    <3> QED BY <1>3, <3>1 DEF TradeBegins, BeginRow, CopyUnmixed
  <2> QED BY <1>3, <2>1, UnmixedMoves DEF TradeBegins
<1>4. ASSUME NEW t \in Traders, NEW r \in TradeRow, TradeGoesOn(t, r)  PROVE  Unmixed'
  <2>1. PICK q \in TradeRow : q = trade[t]
    BY TradeTyped
  <2>2. GoesOn(q, r)
    BY <1>4, <2>1 DEF TradeGoesOn
  <2>3. ASSUME r.listing \in Listings \ mixed  PROVE  CopyUnmixed(r)
    <3>1. CASE r = NoTrade
      BY <3>1, NoTradeTyped DEF CopyUnmixed
    <3>2. CASE r # NoTrade
      <4>1. r.listing = q.listing
        BY <2>2, <3>2 DEF GoesOn
      <4>2. /\ listing[q.listing].status = "sold" <=> listing[q.listing].buyer # NoBuyer
            /\ CopyUnmixed(q)
        BY <2>1, <2>3, <4>1 DEF Unmixed
      <4>3. r.step = "compare" => r.row.status = "sold" /\ r.row.buyer # NoBuyer
        BY <2>2, <3>2, NoTradeTyped, MarketAssumption DEF GoesOn
      <4> QED BY <2>2, <3>2, <4>2, <4>3 DEF GoesOn, CopyUnmixed
    <3> QED BY <3>1, <3>2
  <2> QED BY <1>4, <2>3, UnmixedMoves DEF TradeGoesOn
<1>5. ASSUME NEW t \in Traders, NEW r \in TradeRow, TradeSavesOffers(t, r)  PROVE  Unmixed'
  <2>1. PICK q \in TradeRow : q = trade[t]
    BY TradeTyped
  <2>2. SavesOffers(q, r)
    BY <1>5, <2>1 DEF TradeSavesOffers
  <2>3. ASSUME r.listing \in Listings \ mixed  PROVE  CopyUnmixed(r)
    <3>1. CASE r = NoTrade
      BY <3>1, NoTradeTyped DEF CopyUnmixed
    <3>2. CASE r # NoTrade
      <4>1. /\ q.step = "accept" /\ r.step = "compare" /\ r.listing = q.listing /\ r.row = q.row
        BY <2>2, <3>2 DEF SavesOffers
      <4>2. CopyUnmixed(q)
        BY <2>1, <2>3, <4>1 DEF Unmixed
      <4> QED BY <4>1, <4>2 DEF CopyUnmixed
    <3> QED BY <3>1, <3>2
  <2> QED BY <1>5, <2>3, UnmixedMoves DEF TradeSavesOffers
<1>6. ASSUME NEW t \in Traders, NEW r \in TradeRow, TradeSavesListing(t, r)  PROVE  Unmixed'
  <2>1. PICK q \in TradeRow, l \in Listings : q = trade[t] /\ l = q.listing
    BY TradeTyped
  <2>2. /\ q.step = "write" /\ r.step \notin {"accept", "compare", "write"}
        /\ trade' = [trade EXCEPT ![t] = r]
        /\ listing'[l].status = IF "status" \in q.columns THEN q.row.status ELSE listing[l].status
        /\ listing'[l].buyer = IF "buyer" \in q.columns THEN q.row.buyer ELSE listing[l].buyer
        /\ \A k \in Listings : k # l => listing'[k] = listing[k]
        /\ mixed' = IF \E s \in Traders \ {t} : trade[s].step = "write" /\ trade[s].listing = l
                    THEN mixed \cup {l} ELSE mixed
    BY <1>6, <2>1, NoTradeTyped DEF TradeSavesListing
  <2>3. /\ trade'[t] = r
        /\ \A s \in Traders : s # t => trade'[s] = trade[s]
    BY <2>2 DEF MarketSafe, MarketTypeOK
  <2>4. ASSUME l \notin mixed'
        PROVE  listing'[l].status = "sold" <=> listing'[l].buyer # NoBuyer
    <3>1. CopyUnmixed(q)
      BY <2>1, <2>2, <2>4 DEF Unmixed
    <3>2. /\ "status" \in q.columns <=> q.row.status # listing[l].status
          /\ "buyer" \in q.columns <=> q.row.buyer # listing[l].buyer
      BY <2>1, <2>2, <3>1 DEF CopyUnmixed
    <3> QED BY <2>2, <3>1, <3>2 DEF CopyUnmixed
  <2>5. ASSUME NEW k \in Listings \ mixed', NEW s \in Traders, trade'[s].listing = k
        PROVE  CopyUnmixed(trade[s])'
    <3>1. CASE s = t
      BY <2>2, <2>3, <3>1 DEF CopyUnmixed
    <3>2. CASE s # t
      <4>1. CopyUnmixed(trade[s]) /\ trade'[s] = trade[s] /\ k \notin mixed
        BY <2>2, <2>3, <2>5, <3>2 DEF Unmixed
      <4>2. trade[s].step = "write" => k # l
        BY <2>2, <2>5, <3>2, <4>1
      <4> QED BY <2>2, <2>5, <4>1, <4>2 DEF CopyUnmixed
    <3> QED BY <3>1, <3>2
  <2>6. ASSUME NEW k \in Listings \ mixed'
        PROVE  listing'[k].status = "sold" <=> listing'[k].buyer # NoBuyer
    <3>1. CASE k = l
      BY <2>4, <3>1
    <3>2. CASE k # l
      BY <2>2, <3>2 DEF Unmixed
    <3> QED BY <3>1, <3>2
  <2> QED BY <2>5, <2>6 DEF Unmixed
<1>7. CASE UNCHANGED marketVars
  BY <1>7 DEF marketVars, Unmixed, CopyUnmixed
<1> QED BY <1>1, <1>2, <1>3, <1>4, <1>5, <1>6, <1>7, MarketSteps

(* Requests that neither overlap nor fail see the rows they read unchanged *)
(* when they save, so that every copy is exact.  In between, a request has *)
(* accepted its offer and not yet saved the listing, or has still to       *)
(* update the pending offers.                                              *)
Half(r, l)     == InSave(r) /\ r.row.status = "escrowed" /\ r.listing = l
Sweeping(r, l) == r.step \in {"withdrawOffers", "outbid"} /\ r.listing = l

Exact(r) ==
    /\ r.step \in {"insertOffer", "reject", "accept"} => listing[r.listing].status = "listed"
    /\ InSave(r) /\ r.row.status # "sold" => listing[r.listing].status = "listed"
    /\ InSave(r) /\ r.row.status = "sold" => listing[r.listing].status = "escrowed"
    /\ r.step = "write" => "status" \in r.columns
    /\ r.step \in {"outbid", "findAccepted"} => listing[r.listing].status = "escrowed"
    /\ r.step = "withdrawOffers" => listing[r.listing].status = "cancelled"
    /\ r.step \in {"cancelOffer", "readListing", "reject", "accept"} => offer[r.offer].status = "pending"
    /\ Half(r, r.listing) => offer[r.offer].status = "accepted"

ConsistentWith(l, r) ==
    /\ \A o, p \in Offers : On(o, l, "accepted") /\ On(p, l, "accepted") => o = p
    /\ (\E o \in Offers : On(o, l, "accepted"))
          <=> (listing[l].status \in {"escrowed", "sold"} \/ Half(r, l))
    /\ listing[l].status = "listed" \/ Sweeping(r, l) \/ \A o \in Offers : ~On(o, l, "pending")

Alone(t) == \A s \in Traders \ {t} : trade[s].step = "none"

Calm ==
    /\ \A s, t \in Traders : trade[s].step # "none" /\ trade[t].step # "none" => s = t
    /\ \A t \in Traders : Exact(trade[t])
    /\ \A t \in Traders : Alone(t) => \A l \in Listings : ConsistentWith(l, trade[t])
    /\ Traders = {} => \A l \in Listings : ConsistentWith(l, NoTrade)

LEMMA CalmMoves ==
    ASSUME MarketSafe, NEW t \in Traders, Alone(t), NEW r \in TradeRow,
           trade' = [trade EXCEPT ![t] = r],
           Exact(r)', \A l \in Listings : ConsistentWith(l, r)'
    PROVE  Calm'
<1>1. /\ trade'[t] = r
      /\ \A s \in Traders \ {t} : trade'[s] = trade[s] /\ trade[s].step = "none"
  BY DEF MarketSafe, MarketTypeOK, Alone
<1>2. ASSUME NEW s \in Traders  PROVE  Exact(trade[s])'
  <2>1. CASE s = t
    BY <1>1, <2>1 DEF Exact, Half, InSave
  <2>2. CASE s # t
    BY <1>1, <2>2 DEF Exact, Half, InSave
  <2> QED BY <2>1, <2>2
<1>3. ASSUME NEW s \in Traders, Alone(s)', NEW l \in Listings
      PROVE  ConsistentWith(l, trade[s])'
  <2>1. ConsistentWith(l, r)'
    OBVIOUS
  <2>2. CASE s = t
    BY <1>1, <2>1, <2>2 DEF ConsistentWith, On
  <2>3. CASE s # t
    <3>1. r.step = "none" /\ trade'[s].step = "none"
      BY <1>1, <1>3, <2>3 DEF Alone
    <3>2. ~Half(r, l) /\ ~Sweeping(r, l) /\ ~Half(trade'[s], l) /\ ~Sweeping(trade'[s], l)
      BY <3>1 DEF Half, Sweeping, InSave
    <3> QED BY <2>1, <3>2 DEF ConsistentWith, On
  <2> QED BY <2>2, <2>3
<1>4. \A s, u \in Traders : trade'[s].step # "none" /\ trade'[u].step # "none" => s = u
  BY <1>1
<1> QED BY <1>2, <1>3, <1>4 DEF Calm

(* Whoever takes a step is the only one under way. *)
LEMMA CalmActive ==
    ASSUME Calm, NEW t \in Traders, trade[t].step # "none"
    PROVE  Alone(t) /\ Exact(trade[t]) /\ \A l \in Listings : ConsistentWith(l, trade[t])
<1>1. Alone(t)
  BY DEF Calm, Alone
<1> QED BY <1>1 DEF Calm

LEMMA CreateListingKeepsCalm ==
    ASSUME MarketSafe, Calm, NEW l \in Listings, CreateListing(l)
    PROVE  Calm'
<1>1. listing[l] \in ListingRow /\ listing \in [Listings -> ListingRow] /\ listing[l].status = "none"
  BY DEF MarketSafe, MarketTypeOK, CreateListing
<1>2. /\ listing'[l].status = "listed"
      /\ \A k \in Listings : k # l => listing'[k] = listing[k]
      /\ UNCHANGED <<offer, trade>>
  BY <1>1 DEF CreateListing, ListingRow
<1>3. ASSUME NEW t \in Traders  PROVE  Exact(trade[t])'
  <2>1. Exact(trade[t]) /\ trade[t].listing \in Listings
    BY TradeTyped DEF Calm
  <2> QED BY <1>1, <1>2, <2>1 DEF Exact, Half, InSave
<1>4. ASSUME NEW k \in Listings, NEW r, ConsistentWith(k, r)  PROVE  ConsistentWith(k, r)'
  <2>1. listing'[k].status \in {"escrowed", "sold"} <=> listing[k].status \in {"escrowed", "sold"}
    BY <1>1, <1>2
  <2>2. listing[k].status = "listed" => listing'[k].status = "listed"
    BY <1>1, <1>2
  <2> QED BY <1>2, <1>4, <2>1, <2>2 DEF ConsistentWith, On
<1>5. ASSUME NEW t \in Traders, Alone(t)', NEW k \in Listings
      PROVE  ConsistentWith(k, trade[t])'
  <2>1. PICK r : r = trade[t] /\ r = trade'[t]
    BY <1>2
  <2>2. Alone(t)
    BY <1>2, <1>5 DEF Alone
  <2>3. ConsistentWith(k, r)
    BY <2>1, <2>2 DEF Calm
  <2>4. ConsistentWith(k, r)'
    BY <1>4, <2>3
  <2> QED BY <2>1, <2>4 DEF ConsistentWith, On
<1>6. ASSUME Traders = {}, NEW k \in Listings  PROVE  ConsistentWith(k, NoTrade)'
  <2>1. ConsistentWith(k, NoTrade)
    BY <1>6 DEF Calm
  <2> QED BY <1>4, <2>1
<1> QED BY <1>2, <1>3, <1>5, <1>6 DEF Calm

LEMMA BeginKeepsCalm ==
    ASSUME MarketSafe, Calm, NEW t \in Traders, NEW r \in TradeRow, TradeBegins(t, r), ~disturbed'
    PROVE  Calm'
<1>1. /\ \A s \in Traders : trade[s].step = "none"
      /\ Alone(t) /\ BeginRow(r) /\ UNCHANGED <<listing, offer>>
  BY DEF TradeBegins, Alone
<1>2. Exact(r)'
  BY <1>1 DEF BeginRow, Exact, Half, InSave
<1>3. ASSUME NEW l \in Listings  PROVE  ConsistentWith(l, r)'
  <2>1. ConsistentWith(l, trade[t])
    BY <1>1 DEF Calm
  <2>2. ~Half(trade[t], l) /\ ~Sweeping(trade[t], l)
    BY <1>1 DEF Half, Sweeping, InSave
  <2>3. ~Half(r, l)
    BY <1>1 DEF BeginRow, Half, InSave
  <2> QED BY <1>1, <2>1, <2>2, <2>3 DEF ConsistentWith, On
<1> QED BY <1>1, <1>2, <1>3, CalmMoves DEF TradeBegins

LEMMA GoingOnKeepsCalm ==
    ASSUME MarketSafe, Calm, NEW t \in Traders, NEW r \in TradeRow, TradeGoesOn(t, r)
    PROVE  Calm'
<1>1. PICK q \in TradeRow : q = trade[t]
  BY TradeTyped
<1>2. GoesOn(q, r) /\ TradeOK(q) /\ UNCHANGED <<listing, offer>>
  BY <1>1, TradeTyped DEF TradeGoesOn
<1>3. Alone(t) /\ Exact(q) /\ \A l \in Listings : ConsistentWith(l, q)
  <2>1. trade[t].step # "none"
    BY <1>1, <1>2 DEF GoesOn
  <2> QED BY <1>1, <2>1, CalmActive
<1>4. Exact(r)'
  <2>1. CASE r = NoTrade
    BY <2>1, NoTradeTyped DEF Exact, Half, InSave
  <2>2. CASE q.step = "compare" /\ r # NoTrade
    <3>1. /\ r.step = "write" /\ r.listing = q.listing /\ r.offer = q.offer /\ r.row = q.row
          /\ r.columns = {c \in {"status", "buyer"} : q.row[c] # listing[q.listing][c]}
      BY <1>2, <2>2 DEF GoesOn
    <3>2. q.row.status # listing[q.listing].status
      BY <1>2, <1>3, <2>2 DEF Exact, InSave, TradeOK
    <3>3. "status" \in r.columns
      BY <3>1, <3>2
    <3> QED BY <1>2, <1>3, <2>2, <3>1, <3>3 DEF Exact, Half, InSave
  <2>3. CASE q.step # "compare" /\ r # NoTrade
    BY <1>2, <1>3, <2>3 DEF GoesOn, Exact, Half, InSave
  <2> QED BY <2>1, <2>2, <2>3
<1>5. ASSUME NEW l \in Listings  PROVE  ConsistentWith(l, r)'
  <2>1. Half(r, l) <=> Half(q, l)
    BY <1>2, NoTradeTyped DEF GoesOn, Half, InSave
  <2>2. ~Sweeping(q, l) /\ ~Sweeping(r, l)
    BY <1>2, NoTradeTyped DEF GoesOn, Sweeping
  <2> QED BY <1>2, <1>3, <2>1, <2>2 DEF ConsistentWith, On
<1> QED BY <1>3, <1>4, <1>5, CalmMoves DEF TradeGoesOn

LEMMA SavingOffersKeepsCalm ==
    ASSUME MarketSafe, Calm, NEW t \in Traders, NEW r \in TradeRow, TradeSavesOffers(t, r)
    PROVE  Calm'
<1>1. PICK q \in TradeRow : q = trade[t]
  BY TradeTyped
<1>2. SavesOffers(q, r) /\ TradeOK(q) /\ UNCHANGED listing
  BY <1>1, TradeTyped DEF TradeSavesOffers
<1>3. Alone(t) /\ Exact(q) /\ \A l \in Listings : ConsistentWith(l, q)
  <2>1. trade[t].step # "none"
    BY <1>1, <1>2 DEF SavesOffers
  <2> QED BY <1>1, <2>1, CalmActive
<1>4. CASE q.step \in {"withdrawOffers", "outbid"}
  <2>1. /\ r = NoTrade
        /\ \A p \in Offers :
              /\ offer'[p].listing = offer[p].listing
              /\ On(p, q.listing, "pending") => offer'[p].status \in {"cancelled", "outbid"}
              /\ ~On(p, q.listing, "pending") => offer'[p] = offer[p]
    BY <1>2, <1>4 DEF SavesOffers
  <2>2. Exact(r)'
    BY <2>1, NoTradeTyped DEF Exact, Half, InSave
  <2>3. ASSUME NEW l \in Listings  PROVE  ConsistentWith(l, r)'
    <3>1. \A p \in Offers : On(p, l, "accepted")' <=> On(p, l, "accepted")
      BY <2>1 DEF On
    <3>2. \A p \in Offers : On(p, l, "pending")' => On(p, l, "pending") /\ l # q.listing
      BY <2>1 DEF On
    <3>3. ~Half(q, l) /\ ~Half(r, l) /\ (Sweeping(q, l) => l = q.listing)
      BY <1>4, <2>1, NoTradeTyped DEF Half, InSave, Sweeping
    <3>4. ConsistentWith(l, q)
      BY <1>3
    <3> QED BY <1>2, <3>1, <3>2, <3>3, <3>4 DEF ConsistentWith
  <2> QED BY <1>3, <2>2, <2>3, CalmMoves DEF TradeSavesOffers
<1>5. CASE q.step \in {"insertOffer", "cancelOffer", "reject"}
  <2>1. r = NoTrade
    BY <1>2, <1>5 DEF SavesOffers
  <2>2. ASSUME NEW p \in Offers, offer'[p] # offer[p]
        PROVE  /\ offer[p].status # "accepted"
               /\ \/ offer'[p].status \in {"cancelled", "rejected"}
                  \/ /\ offer'[p].status = "pending" /\ offer'[p].listing = q.listing
                     /\ listing[q.listing].status = "listed"
    <3>1. CASE q.step = "insertOffer"
      BY <1>2, <1>3, <2>2, <3>1 DEF SavesOffers, Exact
    <3>2. CASE q.step \in {"cancelOffer", "reject"}
      BY <1>2, <1>3, <2>2, <3>2 DEF SavesOffers, Exact
    <3> QED BY <1>5, <3>1, <3>2
  <2>3. Exact(r)'
    BY <2>1, NoTradeTyped DEF Exact, Half, InSave
  <2>4. ASSUME NEW l \in Listings  PROVE  ConsistentWith(l, r)'
    <3>1. \A p \in Offers : On(p, l, "accepted")' <=> On(p, l, "accepted")
      BY <2>2 DEF On
    <3>2. \A p \in Offers : On(p, l, "pending")' => On(p, l, "pending") \/ listing[l].status = "listed"
      BY <2>2 DEF On
    <3>3. ~Half(q, l) /\ ~Half(r, l) /\ ~Sweeping(q, l)
      BY <1>5, <2>1, NoTradeTyped DEF Half, InSave, Sweeping
    <3>4. ConsistentWith(l, q)
      BY <1>3
    <3> QED BY <1>2, <3>1, <3>2, <3>3, <3>4 DEF ConsistentWith
  <2> QED BY <1>3, <2>3, <2>4, CalmMoves DEF TradeSavesOffers
<1>6. CASE q.step = "accept"
  <2>1. /\ r.step = "compare" /\ r.listing = q.listing /\ r.offer = q.offer
        /\ r.row = q.row /\ q.row.status = "escrowed" /\ q.listing \in Listings
        /\ offer'[q.offer].status = "accepted" /\ q.offer \in Offers
        /\ offer[q.offer].status = "pending" /\ offer[q.offer].listing = q.listing
        /\ listing[q.listing].status = "listed"
        /\ \A p \in Offers : /\ offer'[p].listing = offer[p].listing
                             /\ p # q.offer => offer'[p] = offer[p]
    BY <1>2, <1>3, <1>6 DEF SavesOffers, TradeOK, Exact, TradeRow
  <2>2. Exact(r)'
    BY <1>2, <2>1 DEF Exact, Half, InSave
  <2>3. ASSUME NEW l \in Listings  PROVE  ConsistentWith(l, r)'
    <3>1. ~Half(q, l) /\ ~Sweeping(q, l) /\ ~Sweeping(r, l) /\ (Half(r, l) <=> l = q.listing)
      BY <1>6, <2>1 DEF Half, InSave, Sweeping
    <3>2. ConsistentWith(l, q)
      BY <1>3
    <3>3. \A p \in Offers : On(p, l, "accepted")' <=> (On(p, l, "accepted") \/ (l = q.listing /\ p = q.offer))
      BY <2>1 DEF On
    <3>4. \A p \in Offers : On(p, l, "pending")' => On(p, l, "pending")
      BY <2>1 DEF On
    <3>5. l = q.listing => \A p \in Offers : ~On(p, l, "accepted")
      BY <2>1, <3>1, <3>2 DEF ConsistentWith
    <3> QED BY <1>2, <2>1, <3>1, <3>2, <3>3, <3>4, <3>5 DEF ConsistentWith
  <2> QED BY <1>3, <2>2, <2>3, CalmMoves DEF TradeSavesOffers
<1> QED BY <1>2, <1>4, <1>5, <1>6 DEF SavesOffers

LEMMA SavingListingKeepsCalm ==
    ASSUME MarketSafe, Calm, NEW t \in Traders, NEW r \in TradeRow, TradeSavesListing(t, r)
    PROVE  Calm'
<1>1. PICK q \in TradeRow, k \in Listings : q = trade[t] /\ k = q.listing
  BY TradeTyped
<1>2. /\ q.step = "write"
      /\ \/ r = NoTrade /\ q.row.status = "sold"
         \/ /\ r.listing = k /\ r.offer = q.offer
            /\ \/ r.step = "withdrawOffers" /\ q.row.status = "cancelled"
               \/ r.step = "outbid" /\ q.row.status = "escrowed"
      /\ listing'[k].status = IF "status" \in q.columns THEN q.row.status ELSE listing[k].status
      /\ \A l \in Listings : l # k => listing'[l] = listing[l]
      /\ UNCHANGED offer
  BY <1>1 DEF TradeSavesListing
<1>3. Alone(t) /\ Exact(q) /\ \A l \in Listings : ConsistentWith(l, q)
  BY <1>1, <1>2, CalmActive
<1>4. /\ listing'[k].status = q.row.status
      /\ q.row.status # "sold" => listing[k].status = "listed"
      /\ q.row.status = "sold" => listing[k].status = "escrowed"
      /\ q.row.status = "escrowed" => offer[q.offer].status = "accepted"
  BY <1>1, <1>2, <1>3 DEF Exact, InSave, Half
<1>5. Exact(r)'
  BY <1>2, <1>4, NoTradeTyped DEF Exact, Half, InSave
<1>6. ASSUME NEW l \in Listings  PROVE  ConsistentWith(l, r)'
  <2>1. ConsistentWith(l, q)
    BY <1>3
  <2>2. ~Half(r, l) /\ ~Sweeping(q, l)
    BY <1>2, NoTradeTyped DEF Half, InSave, Sweeping
  <2>3. \A p \in Offers, status \in OfferStatus : On(p, l, status)' <=> On(p, l, status)
    BY <1>2 DEF On
  <2>4. CASE l # k
    <3>1. ~Half(q, l) /\ listing'[l] = listing[l]
      BY <1>1, <1>2, <2>4 DEF Half
    <3> QED BY <2>1, <2>2, <2>3, <3>1 DEF ConsistentWith, OfferStatus
  <2>5. CASE l = k
    <3>1. Half(q, l) <=> q.row.status = "escrowed"
      BY <1>1, <1>2, <2>5 DEF Half, InSave
    <3>2. q.row.status # "sold" => Sweeping(r, l)
      BY <1>2, <2>5 DEF Sweeping
    <3> QED BY <1>2, <1>4, <2>1, <2>2, <2>3, <2>5, <3>1, <3>2 DEF ConsistentWith, OfferStatus
  <2> QED BY <2>4, <2>5
<1> QED BY <1>3, <1>5, <1>6, CalmMoves DEF TradeSavesListing

LEMMA CalmKept ==
    ASSUME MarketSafe, ~disturbed => Calm, [MarketNext]_marketVars
    PROVE  (~disturbed => Calm)'
<1> SUFFICES ASSUME ~disturbed'  PROVE  Calm'
  OBVIOUS
<1>1. CASE UNCHANGED marketVars
  BY <1>1 DEF marketVars, Calm, Exact, Half, InSave, Alone, ConsistentWith, Sweeping, On
<1>2. ASSUME NEW l \in Listings, CreateListing(l)  PROVE  Calm'
  BY <1>2, CreateListingKeepsCalm DEF CreateListing
<1>3. ASSUME NEW t \in Traders, NEW r \in TradeRow, TradeBegins(t, r)  PROVE  Calm'
  BY <1>3, BeginKeepsCalm DEF TradeBegins
<1>4. ASSUME NEW t \in Traders, NEW r \in TradeRow, TradeGoesOn(t, r)  PROVE  Calm'
  BY <1>4, GoingOnKeepsCalm DEF TradeGoesOn
<1>5. ASSUME NEW t \in Traders, NEW r \in TradeRow, TradeSavesOffers(t, r)  PROVE  Calm'
  BY <1>5, SavingOffersKeepsCalm DEF TradeSavesOffers
<1>6. ASSUME NEW t \in Traders, NEW r \in TradeRow, TradeSavesListing(t, r)  PROVE  Calm'
  BY <1>6, SavingListingKeepsCalm DEF TradeSavesListing
<1> QED BY <1>1, <1>2, <1>3, <1>4, <1>5, <1>6, MarketSteps, FailTradeEffect

(* How many offers on a listing were accepted: while it is open, as many   *)
(* as there are requests that are about to close it; afterwards, an answer *)
(* that has read the listing before may still accept one.                  *)
Open(l)         == listing[l].status \in {"none", "listed"}
EscrowingOn(l)  == {t \in Traders : Escrowing(t, l)}
AnsweringOn(l)  == {t \in Traders : trade[t].step = "accept" /\ trade[t].listing = l}

Counted(l) ==
    /\ Open(l) => Cardinality(AcceptedOn(l)) <= Cardinality(EscrowingOn(l)) + stranded[l]
    /\ ~Open(l) => Cardinality(AcceptedOn(l)) + Cardinality(AnsweringOn(l))
                      <= Cardinality(Traders) + stranded[l]

Counting ==
    /\ IsFiniteSet(accepted)
    /\ \A t \in Traders : trade[t].step = "write" /\ "status" \notin trade[t].columns =>
          ~Open(trade[t].listing)
    /\ \A l \in Listings : Counted(l)

LEMMA CountsTyped ==
    ASSUME NEW l \in Listings
    PROVE  /\ IsFiniteSet(EscrowingOn(l)) /\ Cardinality(EscrowingOn(l)) \in Nat
           /\ IsFiniteSet(AnsweringOn(l)) /\ Cardinality(AnsweringOn(l)) \in Nat
           /\ Cardinality(Traders) \in Nat
           /\ Cardinality(EscrowingOn(l)) + Cardinality(AnsweringOn(l)) <= Cardinality(Traders)
<1>1. EscrowingOn(l) \subseteq Traders /\ AnsweringOn(l) \subseteq Traders
      /\ IsFiniteSet(Traders)
  BY MarketAssumption DEF EscrowingOn, AnsweringOn
<1>2. IsFiniteSet(EscrowingOn(l)) /\ IsFiniteSet(AnsweringOn(l))
  BY <1>1, FS_Subset
<1>3. EscrowingOn(l) \cap AnsweringOn(l) = {}
  BY DEF EscrowingOn, AnsweringOn, Escrowing
<1>4. Cardinality(EscrowingOn(l) \cap AnsweringOn(l)) = 0
  BY <1>3, FS_EmptySet
<1>5. Cardinality(EscrowingOn(l) \cup AnsweringOn(l))
         = Cardinality(EscrowingOn(l)) + Cardinality(AnsweringOn(l)) - 0
  BY <1>2, <1>4, FS_Union
<1>6. EscrowingOn(l) \cup AnsweringOn(l) \in SUBSET Traders
  BY <1>1
<1>7. Cardinality(EscrowingOn(l) \cup AnsweringOn(l)) <= Cardinality(Traders)
  BY <1>1, <1>6, FS_Subset
<1>8. /\ Cardinality(EscrowingOn(l)) \in Nat /\ Cardinality(AnsweringOn(l)) \in Nat
      /\ Cardinality(Traders) \in Nat
  BY <1>1, <1>2, FS_CardinalityType
<1> QED BY <1>2, <1>5, <1>7, <1>8

LEMMA AcceptedTyped ==
    ASSUME IsFiniteSet(accepted), NEW l \in Listings
    PROVE  IsFiniteSet(AcceptedOn(l)) /\ Cardinality(AcceptedOn(l)) \in Nat
<1>1. AcceptedOn(l) \in SUBSET accepted
  BY DEF AcceptedOn
<1>2. IsFiniteSet(AcceptedOn(l))
  BY <1>1, FS_Subset
<1> QED BY <1>2, FS_CardinalityType

(* Open or not, the second bound holds. *)
LEMMA AcceptedBound ==
    ASSUME MarketSafe, Counting, NEW l \in Listings
    PROVE  Cardinality(AcceptedOn(l)) + Cardinality(AnsweringOn(l)) <= Cardinality(Traders) + stranded[l]
<1>1. stranded[l] \in Nat /\ Cardinality(AcceptedOn(l)) \in Nat
  BY AcceptedTyped DEF MarketSafe, MarketTypeOK, Counting
<1>2. Counted(l)
  BY DEF Counting
<1>3. CASE Open(l)
  <2>1. Cardinality(AcceptedOn(l)) <= Cardinality(EscrowingOn(l)) + stranded[l]
    BY <1>2, <1>3 DEF Counted
  <2> QED BY <1>1, <2>1, CountsTyped
<1>4. CASE ~Open(l)
  BY <1>2, <1>4 DEF Counted
<1> QED BY <1>3, <1>4

(* The steps that neither accept an offer on the listing nor fail between  *)
(* its acceptance and the listing.                                         *)
LEMMA CountStays ==
    ASSUME MarketSafe, Counting, NEW l \in Listings,
           Open(l)' => Open(l),
           AcceptedOn(l)' \subseteq AcceptedOn(l), stranded'[l] = stranded[l],
           Open(l)' => EscrowingOn(l) \subseteq EscrowingOn(l)',
           ~Open(l)' => AnsweringOn(l)' \subseteq AnsweringOn(l)
    PROVE  Counted(l)'
<1>1. /\ stranded[l] \in Nat /\ Cardinality(AcceptedOn(l)) \in Nat
      /\ Cardinality(EscrowingOn(l)) \in Nat /\ Cardinality(AnsweringOn(l)) \in Nat
      /\ Cardinality(Traders) \in Nat
  BY AcceptedTyped, CountsTyped DEF MarketSafe, MarketTypeOK, Counting
<1>2. /\ Cardinality(AcceptedOn(l)') <= Cardinality(AcceptedOn(l))
      /\ Cardinality(AcceptedOn(l)') \in Nat
  <2>1. AcceptedOn(l)' \in SUBSET AcceptedOn(l) /\ IsFiniteSet(AcceptedOn(l))
    BY AcceptedTyped DEF Counting
  <2>2. IsFiniteSet(AcceptedOn(l)')
    BY <2>1, FS_Subset
  <2> QED BY <2>1, <2>2, FS_Subset, FS_CardinalityType
<1>3. EscrowingOn(l)' \in SUBSET Traders /\ IsFiniteSet(Traders)
  BY MarketAssumption DEF EscrowingOn
<1>4. IsFiniteSet(EscrowingOn(l)')
  BY <1>3, FS_Subset
<1>5. CASE Open(l)'
  <2>1. Cardinality(AcceptedOn(l)) <= Cardinality(EscrowingOn(l)) + stranded[l]
    BY <1>5 DEF Counting, Counted
  <2>2. EscrowingOn(l) \in SUBSET EscrowingOn(l)'
    BY <1>5
  <2>3. Cardinality(EscrowingOn(l)) <= Cardinality(EscrowingOn(l)')
    BY <1>4, <2>2, FS_Subset
  <2>4. Cardinality(EscrowingOn(l)') \in Nat
    BY <1>4, FS_CardinalityType
  <2>5. Cardinality(AcceptedOn(l)') <= Cardinality(EscrowingOn(l)') + stranded'[l]
    BY <1>1, <1>2, <2>1, <2>3, <2>4
  <2> QED BY <1>5, <2>5 DEF Counted
<1>6. CASE ~Open(l)'
  <2>1. Cardinality(AcceptedOn(l)) + Cardinality(AnsweringOn(l)) <= Cardinality(Traders) + stranded[l]
    BY AcceptedBound
  <2>2. AnsweringOn(l)' \in SUBSET AnsweringOn(l) /\ IsFiniteSet(AnsweringOn(l))
    BY <1>6, CountsTyped
  <2>3. Cardinality(AnsweringOn(l)') <= Cardinality(AnsweringOn(l)) /\ IsFiniteSet(AnsweringOn(l)')
    BY <2>2, FS_Subset
  <2>4. Cardinality(AnsweringOn(l)') \in Nat
    BY <2>3, FS_CardinalityType
  <2>5. Cardinality(AcceptedOn(l)') + Cardinality(AnsweringOn(l)') <= Cardinality(Traders) + stranded'[l]
    BY <1>1, <1>2, <2>1, <2>3, <2>4
  <2> QED BY <1>6, <2>5 DEF Counted
<1> QED BY <1>5, <1>6

LEMMA EscrowingSets ==
    ASSUME NEW l \in Listings
    PROVE  /\ EscrowingOn(l) = {t \in Traders : Half(trade[t], l)}
           /\ EscrowingOn(l)' = {t \in Traders : Half(trade'[t], l)}
           /\ AnsweringOn(l)' = {t \in Traders : trade'[t].step = "accept" /\ trade'[t].listing = l}
BY DEF EscrowingOn, Escrowing, Half, InSave, AnsweringOn

(* A request that goes on to r. *)
LEMMA EscrowingSame ==
    ASSUME NEW t \in Traders, NEW r, NEW l \in Listings, trade'[t] = r,
           \A s \in Traders : s # t => trade'[s] = trade[s],
           Half(r, l) <=> Half(trade[t], l)
    PROVE  EscrowingOn(l)' = EscrowingOn(l)
<1>1. \A s \in Traders : Half(trade'[s], l) <=> Half(trade[s], l)
  <2> SUFFICES ASSUME NEW s \in Traders  PROVE  Half(trade'[s], l) <=> Half(trade[s], l)
    OBVIOUS
  <2>1. CASE s = t
    BY <2>1
  <2>2. CASE s # t
    <3>1. trade'[s] = trade[s]
      BY <2>2
    <3> QED BY <3>1
  <2> QED BY <2>1, <2>2
<1> QED BY <1>1, EscrowingSets

LEMMA AnsweringShrinks ==
    ASSUME NEW t \in Traders, NEW r, NEW l \in Listings, trade'[t] = r,
           \A s \in Traders : s # t => trade'[s] = trade[s],
           ~(r.step = "accept" /\ r.listing = l)
    PROVE  AnsweringOn(l)' \subseteq AnsweringOn(l)
BY EscrowingSets DEF AnsweringOn

LEMMA CreateListingKeepsCount ==
    ASSUME MarketSafe, Counting, NEW l \in Listings, CreateListing(l)
    PROVE  Counting'
<1>1. listing[l] \in ListingRow /\ listing \in [Listings -> ListingRow] /\ listing[l].status = "none"
  BY DEF MarketSafe, MarketTypeOK, CreateListing
<1>2. /\ \A k \in Listings : Open(k)' <=> Open(k)
      /\ UNCHANGED <<offer, trade, accepted, stranded>>
  BY <1>1 DEF CreateListing, ListingRow, Open
<1>3. ASSUME NEW k \in Listings  PROVE  Counted(k)'
  BY <1>2, CountStays DEF AcceptedOn, EscrowingOn, Escrowing, AnsweringOn
<1>4. ASSUME NEW t \in Traders, trade'[t].step = "write", "status" \notin trade'[t].columns
      PROVE  listing'[trade'[t].listing].status \notin {"none", "listed"}
  <2>1. trade[t].listing \in Listings /\ ~Open(trade[t].listing) /\ trade'[t] = trade[t]
    BY <1>2, <1>4, TradeTyped DEF Counting
  <2> QED BY <1>2, <2>1 DEF Open
<1> QED BY <1>2, <1>3, <1>4 DEF Counting, Open

(* A request goes on to r; what it writes next is the exact difference. *)
LEMMA WritesStay ==
    ASSUME MarketSafe, Counting, NEW t \in Traders, NEW r \in TradeRow,
           trade' = [trade EXCEPT ![t] = r],
           \A l \in Listings : Open(l)' => Open(l),
           r.step = "write" /\ "status" \notin r.columns => ~Open(r.listing)
    PROVE  \A s \in Traders : trade'[s].step = "write" /\ "status" \notin trade'[s].columns =>
              listing'[trade'[s].listing].status \notin {"none", "listed"}
<1>1. /\ trade'[t] = r
      /\ \A s \in Traders : s # t => trade'[s] = trade[s]
  BY DEF MarketSafe, MarketTypeOK
<1>2. ASSUME NEW s \in Traders, trade'[s].step = "write", "status" \notin trade'[s].columns
      PROVE  listing'[trade'[s].listing].status \notin {"none", "listed"}
  <2>1. trade'[s].listing \in Listings /\ ~Open(trade'[s].listing)
    <3>1. CASE s = t
      BY <1>1, <1>2, <3>1 DEF TradeRow
    <3>2. CASE s # t
      BY <1>1, <1>2, <3>2, TradeTyped DEF Counting
    <3> QED BY <3>1, <3>2
  <2>2. PICK k \in Listings : k = trade'[s].listing
    BY <2>1
  <2>3. ~Open(k)'
    BY <2>1, <2>2
  <2> QED BY <2>2, <2>3 DEF Open
<1> QED BY <1>2

LEMMA BeginKeepsCount ==
    ASSUME MarketSafe, Counting, NEW t \in Traders, NEW r \in TradeRow, TradeBegins(t, r)
    PROVE  Counting'
<1>1. /\ trade[t].step = "none" /\ r.step # "accept" /\ r.step # "write"
      /\ r.step = "compare" => r.row.status = "cancelled"
      /\ trade' = [trade EXCEPT ![t] = r]
      /\ UNCHANGED <<listing, offer, accepted, stranded>>
  BY DEF TradeBegins, BeginRow
<1>2. /\ trade'[t] = r
      /\ \A s \in Traders : s # t => trade'[s] = trade[s]
  BY <1>1 DEF MarketSafe, MarketTypeOK
<1>3. ASSUME NEW l \in Listings  PROVE  Counted(l)'
  <2>1. EscrowingOn(l)' = EscrowingOn(l)
    <3>1. ~Half(trade[t], l) /\ ~Half(r, l)
      BY <1>1 DEF Half, InSave
    <3> QED BY <1>2, <3>1, EscrowingSame
  <2>2. AnsweringOn(l)' = AnsweringOn(l)
    BY <1>1, <1>2, EscrowingSets DEF AnsweringOn
  <2> QED BY <1>1, <2>1, <2>2, CountStays DEF AcceptedOn, Open
<1>4. \A l \in Listings : Open(l)' => Open(l)
  BY <1>1 DEF Open
<1> QED BY <1>1, <1>3, <1>4, WritesStay DEF Counting, Open

LEMMA GoingOnKeepsCount ==
    ASSUME MarketSafe, Counting, NEW t \in Traders, NEW r \in TradeRow, TradeGoesOn(t, r)
    PROVE  Counting'
<1>1. PICK q \in TradeRow : q = trade[t]
  BY TradeTyped
<1>2. /\ GoesOn(q, r) /\ TradeOK(q) /\ trade' = [trade EXCEPT ![t] = r]
      /\ UNCHANGED <<listing, offer, accepted, stranded>>
  BY <1>1, TradeTyped DEF TradeGoesOn
<1>3. /\ trade'[t] = r
      /\ \A s \in Traders : s # t => trade'[s] = trade[s]
  BY <1>2 DEF MarketSafe, MarketTypeOK
<1>4. ASSUME NEW l \in Listings  PROVE  Counted(l)'
  <2>1. Half(r, l) <=> Half(q, l)
    BY <1>2, NoTradeTyped DEF GoesOn, Half, InSave
  <2>2. EscrowingOn(l)' = EscrowingOn(l)
    BY <1>1, <1>3, <2>1, EscrowingSame
  <2>3. r.step = "accept" /\ r.listing = l => Open(l)
    BY <1>2, NoTradeTyped DEF GoesOn, Open
  <2>4. ~Open(l) => AnsweringOn(l)' \subseteq AnsweringOn(l)
    BY <1>3, <2>3, EscrowingSets DEF AnsweringOn
  <2> QED BY <1>2, <2>2, <2>4, CountStays DEF AcceptedOn, Open
<1>5. r.step = "write" /\ "status" \notin r.columns => ~Open(r.listing)
  <2>1. ASSUME r.step = "write", "status" \notin r.columns
        PROVE  listing[r.listing].status \in {"cancelled", "escrowed", "sold"}
    <3>1. /\ q.step = "compare" /\ r.listing = q.listing
          /\ r.columns = {c \in {"status", "buyer"} : q.row[c] # listing[q.listing][c]}
      BY <1>2, <2>1, NoTradeTyped DEF GoesOn
    <3>2. q.row.status = listing[r.listing].status
      BY <2>1, <3>1
    <3> QED BY <1>2, <3>1, <3>2 DEF TradeOK, InSave
  <2> QED BY <2>1 DEF Open
<1>6. \A l \in Listings : Open(l)' => Open(l)
  BY <1>2 DEF Open
<1> QED BY <1>2, <1>4, <1>5, <1>6, WritesStay DEF Counting, Open

LEMMA SavingOffersKeepsCount ==
    ASSUME MarketSafe, Counting, NEW t \in Traders, NEW r \in TradeRow, TradeSavesOffers(t, r)
    PROVE  Counting'
<1>1. PICK q \in TradeRow : q = trade[t]
  BY TradeTyped
<1>2. /\ SavesOffers(q, r) /\ TradeOK(q) /\ trade' = [trade EXCEPT ![t] = r]
      /\ UNCHANGED <<listing, stranded>>
  BY <1>1, TradeTyped DEF TradeSavesOffers
<1>3. /\ trade'[t] = r
      /\ \A s \in Traders : s # t => trade'[s] = trade[s]
  BY <1>2 DEF MarketSafe, MarketTypeOK
<1>4. accepted' = (IF q.step = "accept" THEN accepted \cup {q.offer} ELSE accepted)
      /\ r.step \notin {"write", "accept"}
  BY <1>2, NoTradeTyped DEF SavesOffers
<1>5. ASSUME NEW o \in accepted  PROVE  offer'[o].listing = offer[o].listing
  BY <1>2, <1>5 DEF SavesOffers, MarketSafe, MarketTypeOK, AcceptedKnown
<1>6. \A l \in Listings : Open(l)' <=> Open(l)
  BY <1>2 DEF Open
<1>7. CASE q.step # "accept"
  <2>1. ASSUME NEW l \in Listings  PROVE  Counted(l)'
    <3>1. r = NoTrade
      BY <1>2, <1>7 DEF SavesOffers
    <3>2. ~Half(q, l) /\ ~Half(r, l)
      BY <1>2, <1>7, <3>1, NoTradeTyped DEF SavesOffers, Half, InSave
    <3>3. EscrowingOn(l)' = EscrowingOn(l)
      BY <1>1, <1>3, <3>2, EscrowingSame
    <3>4. AnsweringOn(l)' \subseteq AnsweringOn(l)
      BY <1>3, <1>4, AnsweringShrinks
    <3>5. AcceptedOn(l)' \subseteq AcceptedOn(l)
      BY <1>4, <1>5, <1>7 DEF AcceptedOn
    <3> QED BY <1>2, <1>6, <3>3, <3>4, <3>5, CountStays
  <2> QED BY <1>2, <1>4, <1>6, <1>7, <2>1, WritesStay DEF Counting, Open
<1>8. CASE q.step = "accept"
  <2>1. /\ r.step = "compare" /\ r.listing = q.listing /\ r.row.status = "escrowed"
        /\ accepted' = accepted \cup {q.offer}
        /\ q.offer \in Offers /\ offer'[q.offer].listing = q.listing
    BY <1>2, <1>8 DEF SavesOffers, TradeOK
  <2>2. IsFiniteSet(accepted')
    BY <2>1, FS_AddElement DEF Counting
  <2>3. ASSUME NEW l \in Listings, l # q.listing  PROVE  Counted(l)'
    <3>1. EscrowingOn(l)' = EscrowingOn(l)
      <4>1. ~Half(q, l) /\ ~Half(r, l)
        BY <2>1, <2>3 DEF Half
      <4> QED BY <1>1, <1>3, <4>1, EscrowingSame
    <3>2. AnsweringOn(l)' \subseteq AnsweringOn(l)
      BY <1>3, <1>4, AnsweringShrinks
    <3>3. AcceptedOn(l)' \subseteq AcceptedOn(l)
      BY <1>5, <2>1, <2>3 DEF AcceptedOn
    <3> QED BY <1>2, <1>6, <3>1, <3>2, <3>3, CountStays
  <2>4. ASSUME NEW l \in Listings, l = q.listing  PROVE  Counted(l)'
    <3>1. AcceptedOn(l)' \in SUBSET (AcceptedOn(l) \cup {q.offer})
      BY <1>5, <2>1 DEF AcceptedOn
    <3>2. IsFiniteSet(AcceptedOn(l)) /\ Cardinality(AcceptedOn(l)) \in Nat
      BY AcceptedTyped DEF Counting
    <3>3. /\ IsFiniteSet(AcceptedOn(l) \cup {q.offer})
          /\ Cardinality(AcceptedOn(l) \cup {q.offer}) <= Cardinality(AcceptedOn(l)) + 1
      BY <3>2, FS_AddElement
    <3>4. Cardinality(AcceptedOn(l)') <= Cardinality(AcceptedOn(l) \cup {q.offer})
          /\ IsFiniteSet(AcceptedOn(l)')
      BY <3>1, <3>3, FS_Subset
    <3>5. /\ Cardinality(AcceptedOn(l)') \in Nat
          /\ Cardinality(AcceptedOn(l) \cup {q.offer}) \in Nat
      BY <3>3, <3>4, FS_CardinalityType
    <3>6. Half(r, l) /\ ~Half(q, l) /\ EscrowingOn(l)' = EscrowingOn(l) \cup {t}
          /\ t \notin EscrowingOn(l)
      BY <1>1, <1>3, <1>8, <2>1, <2>4, EscrowingSets DEF Half, InSave
    <3>7. AnsweringOn(l)' = AnsweringOn(l) \ {t} /\ t \in AnsweringOn(l)
      BY <1>1, <1>3, <1>4, <1>8, <2>4, EscrowingSets DEF AnsweringOn
    <3>8. Cardinality(EscrowingOn(l)') = Cardinality(EscrowingOn(l)) + 1
      BY <3>6, CountsTyped, FS_AddElement
    <3>9. Cardinality(AnsweringOn(l)') = Cardinality(AnsweringOn(l)) - 1
      BY <3>7, CountsTyped, FS_RemoveElement
    <3>10. /\ stranded[l] \in Nat /\ stranded'[l] = stranded[l]
           /\ Cardinality(EscrowingOn(l)) \in Nat /\ Cardinality(AnsweringOn(l)) \in Nat
           /\ Cardinality(Traders) \in Nat
      BY <1>2, CountsTyped DEF MarketSafe, MarketTypeOK
    <3>11. Counted(l)
      BY DEF Counting
    <3>12. ASSUME Open(l)
           PROVE  Cardinality(AcceptedOn(l)') <= Cardinality(EscrowingOn(l)') + stranded'[l]
      <4>1. Cardinality(AcceptedOn(l)) <= Cardinality(EscrowingOn(l)) + stranded[l]
        BY <3>11, <3>12 DEF Counted
      <4> QED BY <3>2, <3>3, <3>4, <3>5, <3>8, <3>10, <4>1
    <3>13. ASSUME ~Open(l)
           PROVE  Cardinality(AcceptedOn(l)') + Cardinality(AnsweringOn(l)')
                     <= Cardinality(Traders) + stranded'[l]
      <4>1. Cardinality(AcceptedOn(l)) + Cardinality(AnsweringOn(l)) <= Cardinality(Traders) + stranded[l]
        BY <3>11, <3>13 DEF Counted
      <4> QED BY <3>2, <3>3, <3>4, <3>5, <3>9, <3>10, <4>1
    <3> QED BY <1>6, <3>12, <3>13 DEF Counted
  <2> QED BY <1>2, <1>4, <1>6, <2>2, <2>3, <2>4, WritesStay DEF Counting, Open
<1> QED BY <1>7, <1>8

LEMMA SavingListingKeepsCount ==
    ASSUME MarketSafe, Counting, NEW t \in Traders, NEW r \in TradeRow, TradeSavesListing(t, r)
    PROVE  Counting'
<1>1. PICK q \in TradeRow, k \in Listings : q = trade[t] /\ k = q.listing
  BY TradeTyped
<1>2. /\ q.step = "write" /\ r.step \in {"none", "withdrawOffers", "outbid"}
      /\ trade' = [trade EXCEPT ![t] = r]
      /\ listing'[k].status = IF "status" \in q.columns THEN q.row.status ELSE listing[k].status
      /\ \A l \in Listings : l # k => listing'[l] = listing[l]
      /\ UNCHANGED <<offer, accepted, stranded>>
  BY <1>1, NoTradeTyped DEF TradeSavesListing
<1>3. /\ trade'[t] = r
      /\ \A s \in Traders : s # t => trade'[s] = trade[s]
  BY <1>2 DEF MarketSafe, MarketTypeOK
<1>4. ~Open(k)'
  <2>1. q.row.status \in {"cancelled", "escrowed", "sold"}
    BY <1>1, <1>2, TradeTyped DEF TradeOK, InSave
  <2>2. "status" \notin q.columns => ~Open(k)
    BY <1>1, <1>2 DEF Counting
  <2> QED BY <1>2, <2>1, <2>2 DEF Open
<1>5. \A l \in Listings : Open(l)' => Open(l) /\ l # k
  BY <1>2, <1>4 DEF Open
<1>6. ASSUME NEW l \in Listings  PROVE  Counted(l)'
  <2>1. l # k => EscrowingOn(l)' = EscrowingOn(l)
    <3>1. l # k => ~Half(trade[t], l) /\ ~Half(r, l)
      BY <1>1, <1>2 DEF Half, InSave
    <3> QED BY <1>3, <3>1, EscrowingSame
  <2>2. AnsweringOn(l)' \subseteq AnsweringOn(l)
    BY <1>2, <1>3, AnsweringShrinks
  <2> QED BY <1>2, <1>5, <2>1, <2>2, CountStays DEF AcceptedOn
<1> QED BY <1>2, <1>5, <1>6, WritesStay DEF Counting, Open

LEMMA FailTradeKeepsCount ==
    ASSUME MarketSafe, Counting, NEW t \in Traders, FailTrade(t)
    PROVE  Counting'
<1>1. /\ trade' = [trade EXCEPT ![t] = NoTrade]
      /\ \A l \in Listings : /\ Escrowing(t, l) => stranded'[l] = stranded[l] + 1
                             /\ ~Escrowing(t, l) => stranded'[l] = stranded[l]
      /\ UNCHANGED <<listing, offer, accepted>>
  BY FailTradeEffect
<1>2. /\ trade'[t] = NoTrade
      /\ \A s \in Traders : s # t => trade'[s] = trade[s]
  BY <1>1 DEF MarketSafe, MarketTypeOK
<1>3. \A l \in Listings : Open(l)' <=> Open(l)
  BY <1>1 DEF Open
<1>4. ASSUME NEW l \in Listings  PROVE  Counted(l)'
  <2>1. EscrowingOn(l)' = EscrowingOn(l) \ {t} /\ (t \in EscrowingOn(l) <=> Escrowing(t, l))
    <3>1. t \in EscrowingOn(l) <=> Escrowing(t, l)
      BY DEF EscrowingOn
    <3> QED BY <1>2, <3>1, NoTradeTyped, EscrowingSets DEF Half, InSave
  <2>2. AnsweringOn(l)' \subseteq AnsweringOn(l)
    BY <1>2, NoTradeTyped, EscrowingSets DEF AnsweringOn
  <2>3. AcceptedOn(l)' = AcceptedOn(l)
    BY <1>1 DEF AcceptedOn
  <2>4. CASE ~Escrowing(t, l)
    <3>1. EscrowingOn(l)' = EscrowingOn(l)
      BY <2>1, <2>4
    <3> QED BY <1>1, <1>3, <2>2, <2>3, <2>4, <3>1, CountStays
  <2>5. CASE Escrowing(t, l)
    <3>1. stranded'[l] = stranded[l] + 1 /\ stranded[l] \in Nat
      BY <1>1, <2>5 DEF MarketSafe, MarketTypeOK
    <3>2. Cardinality(EscrowingOn(l)') = Cardinality(EscrowingOn(l)) - 1
      BY <2>1, <2>5, CountsTyped, FS_RemoveElement
    <3>3. Cardinality(AnsweringOn(l)') <= Cardinality(AnsweringOn(l))
          /\ IsFiniteSet(AnsweringOn(l)')
      <4>1. AnsweringOn(l)' \in SUBSET AnsweringOn(l) /\ IsFiniteSet(AnsweringOn(l))
        BY <2>2, CountsTyped
      <4> QED BY <4>1, FS_Subset
    <3>4. /\ Cardinality(AcceptedOn(l)) \in Nat /\ Cardinality(AnsweringOn(l)') \in Nat
          /\ Cardinality(EscrowingOn(l)) \in Nat /\ Cardinality(AnsweringOn(l)) \in Nat
          /\ Cardinality(Traders) \in Nat
      BY <3>3, AcceptedTyped, CountsTyped, FS_CardinalityType DEF Counting
    <3>5. Counted(l)
      BY DEF Counting
    <3>6. ASSUME Open(l)
          PROVE  Cardinality(AcceptedOn(l)') <= Cardinality(EscrowingOn(l)') + stranded'[l]
      <4>1. Cardinality(AcceptedOn(l)) <= Cardinality(EscrowingOn(l)) + stranded[l]
        BY <3>5, <3>6 DEF Counted
      <4> QED BY <2>3, <3>1, <3>2, <3>4, <4>1
    <3>7. ASSUME ~Open(l)
          PROVE  Cardinality(AcceptedOn(l)') + Cardinality(AnsweringOn(l)')
                    <= Cardinality(Traders) + stranded'[l]
      <4>1. Cardinality(AcceptedOn(l)) + Cardinality(AnsweringOn(l)) <= Cardinality(Traders) + stranded[l]
        BY <3>5, <3>7 DEF Counted
      <4> QED BY <2>3, <3>1, <3>3, <3>4, <4>1
    <3> QED BY <1>3, <3>6, <3>7 DEF Counted
  <2> QED BY <2>4, <2>5
<1> QED BY <1>1, <1>3, <1>4, NoTradeTyped, WritesStay DEF Counting, Open

LEMMA CountingKept ==
    ASSUME MarketSafe, Counting, [MarketNext]_marketVars
    PROVE  Counting'
<1>1. CASE UNCHANGED marketVars
  BY <1>1 DEF marketVars, Counting, Counted, Open, AcceptedOn, EscrowingOn, Escrowing, AnsweringOn
<1> QED BY <1>1, MarketSteps, CreateListingKeepsCount, FailTradeKeepsCount, BeginKeepsCount,
        GoingOnKeepsCount, SavingOffersKeepsCount, SavingListingKeepsCount

(* The marketplace keeps its types, sells only what was accepted, and      *)
(* accepts no more than the requests under way and the failed ones allow,  *)
(* whatever the number of requests, listings and offers.                   *)
THEOREM TradesCorrect ==
    MarketSpec => [](MarketTypeOK /\ TradesFollowAcceptance)
<1> DEFINE Inv == MarketSafe /\ Unmixed /\ (~disturbed => Calm) /\ Counting
<1>1. MarketInit => Inv
  <2> SUFFICES ASSUME MarketInit  PROVE  Inv
    OBVIOUS
  <2>1. MarketSafe
    BY MarketSafeInit
  <2>2. Unmixed
    BY NoTradeTyped DEF MarketInit, Unmixed, CopyUnmixed
  <2>3. \A t \in Traders : Exact(trade[t])
    BY NoTradeTyped DEF MarketInit, Exact, Half, InSave
  <2>4. \A l \in Listings : \A r : ConsistentWith(l, r) <=> ~Half(r, l)
    BY NoTradeTyped DEF MarketInit, ConsistentWith, On
  <2>5. \A l \in Listings : ~Half(NoTrade, l)
    BY NoTradeTyped DEF Half, InSave
  <2>6. Calm
    BY <2>3, <2>4, <2>5, NoTradeTyped DEF MarketInit, Calm
  <2>7. ASSUME NEW l \in Listings  PROVE  Counted(l)
    <3>1. AcceptedOn(l) = {} /\ Open(l) /\ stranded[l] = 0
      BY NoTradeTyped DEF MarketInit, AcceptedOn, Open
    <3>2. Cardinality(AcceptedOn(l)) = 0
      BY <3>1, FS_EmptySet
    <3> QED BY <3>1, <3>2, CountsTyped DEF Counted
  <2>8. IsFiniteSet(accepted) /\ \A t \in Traders : trade[t].step # "write"
    BY NoTradeTyped, FS_EmptySet DEF MarketInit
  <2> QED BY <2>1, <2>2, <2>6, <2>7, <2>8 DEF Counting
<1>2. Inv /\ [MarketNext]_marketVars => Inv'
  BY MarketSafeKept, UnmixedKept, CalmKept, CountingKept
<1>3. Inv => MarketTypeOK /\ TradesFollowAcceptance
  <2> SUFFICES ASSUME Inv
               PROVE  MarketTypeOK /\ TradesFollowAcceptance
    OBVIOUS
  <2>1. MarketTypeOK
    BY DEF MarketSafe
  <2>2. ASSUME NEW l \in Listings
        PROVE  /\ listing[l].status \in {"escrowed", "sold"} => AcceptedOn(l) # {}
               /\ listing[l].buyer # NoBuyer => \E o \in AcceptedOn(l) : Offeror[o] = listing[l].buyer
    BY DEF MarketSafe, SoldTo, Won, AcceptedOn
  <2>3. ASSUME NEW l \in Listings \ mixed
        PROVE  listing[l].status = "sold" <=> listing[l].buyer # NoBuyer
    BY DEF Unmixed
  <2>4. ASSUME NEW l \in Listings, ~disturbed, \A t \in Traders : trade[t].step = "none"
        PROVE  /\ listing[l].status \in {"escrowed", "sold"} <=> OffersOn(l, "accepted") # {}
               /\ Cardinality(OffersOn(l, "accepted")) <= 1
               /\ listing[l].status # "listed" => OffersOn(l, "pending") = {}
    <3>1. PICK r : ConsistentWith(l, r) /\ r.step = "none"
      BY <2>4, NoTradeTyped DEF Calm, Alone
    <3>2. ~Half(r, l) /\ ~Sweeping(r, l)
      BY <3>1 DEF Half, InSave, Sweeping
    <3>3. OffersOn(l, "accepted") = {} \/ \E o \in Offers : OffersOn(l, "accepted") = {o}
      BY <3>1 DEF ConsistentWith, On, OffersOn
    <3>4. Cardinality(OffersOn(l, "accepted")) <= 1
      <4>1. CASE OffersOn(l, "accepted") = {}
        <5>1. Cardinality(OffersOn(l, "accepted")) = 0
          BY <4>1, FS_EmptySet
        <5> QED BY <5>1
      <4>2. CASE \E o \in Offers : OffersOn(l, "accepted") = {o}
        <5>1. Cardinality(OffersOn(l, "accepted")) = 1
          BY <4>2, FS_Singleton
        <5> QED BY <5>1
      <4> QED BY <3>3, <4>1, <4>2
    <3> QED BY <3>1, <3>2, <3>4 DEF ConsistentWith, On, OffersOn
  <2>5. ASSUME NEW l \in Listings
        PROVE  /\ listing[l].status \in {"none", "listed"} =>
                     Cardinality(AcceptedOn(l)) <= Cardinality(EscrowingOn(l)) + stranded[l]
               /\ Cardinality(AcceptedOn(l)) <= Cardinality(Traders) + stranded[l]
    <3>1. /\ Cardinality(AcceptedOn(l)) \in Nat /\ Cardinality(AnsweringOn(l)) \in Nat
          /\ Cardinality(Traders) \in Nat /\ stranded[l] \in Nat
      BY AcceptedTyped, CountsTyped DEF Counting, MarketSafe, MarketTypeOK
    <3>2. Cardinality(AcceptedOn(l)) + Cardinality(AnsweringOn(l)) <= Cardinality(Traders) + stranded[l]
      BY AcceptedBound
    <3>3. Counted(l)
      BY DEF Counting
    <3> QED BY <3>1, <3>2, <3>3 DEF Counted, Open
  <2>6. TradesFollowAcceptance
    BY <2>2, <2>3, <2>4, <2>5 DEF TradesFollowAcceptance, EscrowingOn
  <2> QED BY <2>1, <2>6
<1> QED BY <1>1, <1>2, <1>3, PTL DEF MarketSpec

-----------------------------------------------------------------------------
(* CacheService. *)

CallOps  == {"get", "set"}
WriteOps == {"del", "keys"}
CallRow  == [step : CallSteps, at : Instances, seen : 0 .. MaxWrites, value : 0 .. MaxWrites]
WriteRecordRow == [step : {"none", "written", "sent", "found", "done"}, at : Instances]

(* The instance i has called invalidate for the version w. *)
Invalidating(w, i) == writes[w].at = i /\ writes[w].step \in {"sent", "found", "done"}

(* Every command belongs to one call or writer, which waits for it.        *)
WireMatches ==
    \A i \in Instances : \A p \in 1 .. Len(wire[i]) :
        /\ wire[i][p].op \in CallOps => /\ calls[wire[i][p].of].at = i
                                        /\ calls[wire[i][p].of].step = wire[i][p].op
        /\ wire[i][p].op \in WriteOps => /\ writes[wire[i][p].of].at = i
                                         /\ writes[wire[i][p].of].step = "sent"
        /\ \A q \in 1 .. Len(wire[i]) :
              /\ wire[i][q].of = wire[i][p].of
              /\ wire[i][q].op \in CallOps <=> wire[i][p].op \in CallOps
              => q = p

(* A value on its way into the cache is as new as what its instance        *)
(* invalidated, or the invalidation is behind it on the connection.        *)
SetsAreFollowed ==
    \A i \in Instances : \A p \in 1 .. Len(wire[i]) : wire[i][p].op = "set" =>
        \A w \in Versions : Invalidating(w, i) =>
            \/ calls[wire[i][p].of].value >= w
            \/ \E q \in 1 .. Len(wire[i]) :
                  q > p /\ wire[i][q].op \in WriteOps /\ wire[i][q].of = w

(* What was loaded is as new as what the instance invalidated, unless the  *)
(* instance has counted an invalidation since.                             *)
LoadsAreFresh ==
    \A c \in Calls :
        /\ calls[c].seen <= invalidationVersion[calls[c].at]
        /\ calls[c].step = "store" /\ calls[c].seen = invalidationVersion[calls[c].at] =>
              \A w \in Versions : Invalidating(w, calls[c].at) => calls[c].value >= w

WrittenSoFar == \A w \in Versions : writes[w].step # "none" => w <= record

InvalidationsDone ==
    \A i \in Instances : invalidated[i] # 0 =>
        writes[invalidated[i]].at = i /\ writes[invalidated[i]].step = "done"

InvalidationsCounted ==
    \A i \in Instances : invalidationVersion[i] = Cardinality({w \in Versions : Invalidating(w, i)})

CacheInv ==
    /\ CacheTypeOK /\ WireMatches /\ SetsAreFollowed /\ LoadsAreFresh /\ WrittenSoFar
    /\ InvalidationsDone /\ InvalidationsCounted /\ StaleOnlyByOthers

LEMMA AppendEffect ==
    ASSUME NEW S, NEW q \in Seq(S), NEW x \in S
    PROVE  /\ Append(q, x) \in Seq(S) /\ Len(q) \in Nat /\ Len(Append(q, x)) = Len(q) + 1
           /\ \A p \in 1 .. Len(q) : Append(q, x)[p] = q[p]
           /\ Append(q, x)[Len(q) + 1] = x
OBVIOUS

LEMMA TailEffect ==
    ASSUME NEW S, NEW q \in Seq(S), q # << >>
    PROVE  /\ Tail(q) \in Seq(S) /\ Len(q) \in Nat /\ Len(q) > 0 /\ Len(Tail(q)) = Len(q) - 1
           /\ \A p \in 1 .. Len(q) - 1 : Tail(q)[p] = q[p + 1]
           /\ Head(q) = q[1] /\ q[1] \in S
OBVIOUS

LEMMA MaxOfTwo ==
    ASSUME NEW a \in Nat, NEW b \in Nat
    PROVE  Max({a, b}) \in {a, b}
<1>1. \E x \in {a, b} : \A y \in {a, b} : x >= y
  OBVIOUS
<1> QED BY <1>1 DEF Max

(* A step of calls that have no command on a connection. *)
LEMMA CallsMove ==
    ASSUME CacheInv, calls' \in [Calls -> CallRow], inFlight' \in [Instances -> Calls \cup {NoCall}],
           \A d \in Calls :
              /\ calls'[d].at = calls[d].at /\ calls'[d].seen = calls[d].seen
              /\ calls[d].step \in CallOps => calls'[d] = calls[d]
              /\ calls'[d].step = "store" => calls'[d] = calls[d] \/ calls'[d].value = record
              /\ calls'[d].step = "wait" => inFlight'[calls'[d].at] # NoCall,
           UNCHANGED <<record, cached, wire, invalidationVersion, writes, invalidated>>,
           cacheFaults' \in 0 .. MaxCacheFaults
    PROVE  CacheInv'
<1>1. CacheTypeOK'
  BY DEF CacheInv, CacheTypeOK, CallRow
<1>2. \A w, i : Invalidating(w, i)' <=> Invalidating(w, i)
  BY DEF Invalidating
<1>3. ASSUME NEW i \in Instances, NEW p \in 1 .. Len(wire[i]), wire[i][p].op \in CallOps
      PROVE  wire[i][p].of \in Calls /\ calls'[wire[i][p].of] = calls[wire[i][p].of]
  <2>1. wire[i] \in Seq(Commands) /\ wire[i][p] \in Commands
    BY DEF CacheInv, CacheTypeOK
  <2>2. wire[i][p].of \in Calls
    BY <1>3, <2>1 DEF Commands, CallOps
  <2>3. calls[wire[i][p].of].step \in CallOps
    BY <1>3 DEF CacheInv, WireMatches
  <2> QED BY <2>2, <2>3
<1>4. WireMatches'
  BY <1>3 DEF CacheInv, WireMatches
<1>5. SetsAreFollowed'
  BY <1>2, <1>3 DEF CacheInv, SetsAreFollowed, CallOps
<1>6. LoadsAreFresh'
  <2> SUFFICES ASSUME NEW c \in Calls
               PROVE  /\ calls'[c].seen <= invalidationVersion[calls'[c].at]
                      /\ calls'[c].step = "store"
                         /\ calls'[c].seen = invalidationVersion[calls'[c].at] =>
                            \A w \in Versions : Invalidating(w, calls'[c].at) => calls'[c].value >= w
    BY <1>2 DEF LoadsAreFresh, Invalidating
  <2>1. calls'[c].seen <= invalidationVersion[calls'[c].at]
    BY DEF CacheInv, LoadsAreFresh
  <2>2. CASE calls'[c] = calls[c]
    BY <2>1, <2>2 DEF CacheInv, LoadsAreFresh
  <2>3. CASE calls'[c].value = record
    BY <2>1, <2>3 DEF CacheInv, WrittenSoFar, Invalidating, CacheTypeOK, Versions
  <2> QED BY <2>1, <2>2, <2>3
<1>7. WrittenSoFar' /\ InvalidationsDone'
  BY DEF CacheInv, WrittenSoFar, InvalidationsDone
<1>8. InvalidationsCounted'
  BY <1>2 DEF CacheInv, InvalidationsCounted
<1>9. StaleOnlyByOthers'
  BY DEF CacheInv, StaleOnlyByOthers
<1> QED BY <1>1, <1>4, <1>5, <1>6, <1>7, <1>8, <1>9 DEF CacheInv

(* The loader c is done, and so are the calls that wait for it. *)
LEMMA SettleEffect ==
    ASSUME CacheInv, NEW c \in Calls, Settle(c)
    PROVE  /\ calls' \in [Calls -> CallRow] /\ inFlight' \in [Instances -> Calls \cup {NoCall}]
           /\ \A d \in Calls :
                 /\ calls'[d].at = calls[d].at /\ calls'[d].seen = calls[d].seen
                 /\ \/ calls'[d] = calls[d] /\ d # c
                    \/ calls'[d].step = "done" /\ (d = c \/ calls[d].step = "wait")
                 /\ calls'[d].step = "wait" => inFlight'[calls'[d].at] # NoCall
<1>1. \A d \in Calls : calls[d] \in CallRow
  BY DEF CacheInv, CacheTypeOK, CallRow
<1>2. ASSUME NEW d \in Calls
      PROVE  /\ [calls[d] EXCEPT !.step = "done", !.value = calls[c].value] \in CallRow
             /\ [calls[d] EXCEPT !.step = "done", !.value = calls[c].value].step = "done"
             /\ [calls[d] EXCEPT !.step = "done", !.value = calls[c].value].at = calls[d].at
             /\ [calls[d] EXCEPT !.step = "done", !.value = calls[c].value].seen = calls[d].seen
  BY <1>1 DEF CallRow, CallSteps
<1>3. calls' \in [Calls -> CallRow] /\ inFlight' \in [Instances -> Calls \cup {NoCall}]
  BY <1>1, <1>2 DEF Settle, CacheInv, CacheTypeOK
<1>4. ASSUME NEW d \in Calls
      PROVE  /\ calls'[d].at = calls[d].at /\ calls'[d].seen = calls[d].seen
             /\ \/ calls'[d] = calls[d] /\ d # c
                   /\ ~(calls[d].step = "wait" /\ calls[d].at = calls[c].at)
                \/ calls'[d].step = "done" /\ (d = c \/ calls[d].step = "wait")
  BY <1>1, <1>2 DEF Settle
<1>5. ASSUME NEW d \in Calls, calls'[d].step = "wait"
      PROVE  inFlight'[calls'[d].at] # NoCall
  <2>1. calls'[d] = calls[d] /\ calls[d].at # calls[c].at /\ calls[d].at \in Instances
    BY <1>1, <1>4, <1>5 DEF CallRow
  <2>2. inFlight[calls[d].at] # NoCall
    BY <1>5, <2>1 DEF CacheInv, StaleOnlyByOthers
  <2> QED BY <2>1, <2>2 DEF Settle, CacheInv, CacheTypeOK
<1> QED BY <1>3, <1>4, <1>5

(* A command goes to the end of a connection. *)
LEMMA SendEffect ==
    ASSUME CacheInv, NEW i \in Instances, NEW op, NEW of, Send(i, op, of),
           [op |-> op, of |-> of] \in Commands
    PROVE  /\ wire' \in [Instances -> Seq(Commands)]
           /\ Len(wire[i]) \in Nat /\ Len(wire'[i]) = Len(wire[i]) + 1
           /\ \A p \in 1 .. Len(wire[i]) : wire'[i][p] = wire[i][p]
           /\ wire'[i][Len(wire[i]) + 1].op = op /\ wire'[i][Len(wire[i]) + 1].of = of
           /\ \A j \in Instances : j # i => wire'[j] = wire[j]
<1> DEFINE cmd == [op |-> op, of |-> of]
<1>1. wire \in [Instances -> Seq(Commands)] /\ cmd \in Commands /\ cmd.op = op /\ cmd.of = of
  BY DEF CacheInv, CacheTypeOK
<1>2. wire' = [wire EXCEPT ![i] = Append(wire[i], cmd)]
  BY DEF Send
<1> HIDE DEF cmd
<1>3. wire[i] \in Seq(Commands)
  BY <1>1
<1>4. /\ Append(wire[i], cmd) \in Seq(Commands) /\ Len(wire[i]) \in Nat
      /\ Len(Append(wire[i], cmd)) = Len(wire[i]) + 1
      /\ \A p \in 1 .. Len(wire[i]) : Append(wire[i], cmd)[p] = wire[i][p]
      /\ Append(wire[i], cmd)[Len(wire[i]) + 1] = cmd
  BY <1>1, <1>3, AppendEffect
<1>5. wire'[i] = Append(wire[i], cmd) /\ wire' \in [Instances -> Seq(Commands)]
      /\ \A j \in Instances : j # i => wire'[j] = wire[j]
  BY <1>1, <1>2, <1>4
<1> QED BY <1>1, <1>4, <1>5

(* What the positions of a connection hold. *)
LEMMA CommandTyped ==
    ASSUME CacheInv, NEW i \in Instances, NEW p \in 1 .. Len(wire[i])
    PROVE  /\ wire[i][p] \in Commands /\ wire[i][p].op \in CallOps \cup WriteOps
           /\ wire[i][p].op \in CallOps => wire[i][p].of \in Calls
           /\ wire[i][p].op \in WriteOps => wire[i][p].of \in Versions
<1>1. wire[i] \in Seq(Commands)
  BY DEF CacheInv, CacheTypeOK
<1> QED BY <1>1 DEF Commands, CallOps, WriteOps

(* A call sends a command: with what it loaded, if it is to be stored. *)
LEMMA CallSends ==
    ASSUME CacheInv, NEW c \in Calls, NEW i \in Instances, NEW op \in CallOps, Send(i, op, c),
           calls[c].step \notin CallOps \cup {"wait"},
           calls' \in [Calls -> CallRow], \A d \in Calls : d # c => calls'[d] = calls[d],
           calls'[c].step = op /\ calls'[c].at = i,
           calls'[c].seen <= invalidationVersion[i],
           op = "set" => \A w \in Versions : Invalidating(w, i) => calls'[c].value >= w,
           UNCHANGED <<record, cached, invalidationVersion, inFlight, writes, cacheFaults, invalidated>>
    PROVE  CacheInv'
<1>1. [op |-> op, of |-> c] \in Commands
  BY DEF Commands, CallOps
<1>2. /\ wire' \in [Instances -> Seq(Commands)]
      /\ Len(wire[i]) \in Nat /\ Len(wire'[i]) = Len(wire[i]) + 1
      /\ \A p \in 1 .. Len(wire[i]) : wire'[i][p] = wire[i][p]
      /\ wire'[i][Len(wire[i]) + 1].op = op /\ wire'[i][Len(wire[i]) + 1].of = c
      /\ \A j \in Instances : j # i => wire'[j] = wire[j]
  BY <1>1, SendEffect
<1>3. CacheTypeOK'
  BY <1>2 DEF CacheInv, CacheTypeOK, CallRow
<1>4. \A w, j : Invalidating(w, j)' <=> Invalidating(w, j)
  BY DEF Invalidating
<1>5. ASSUME NEW j \in Instances, NEW p \in 1 .. Len(wire[j]), wire[j][p].op \in CallOps
      PROVE  wire[j][p].of \in Calls /\ wire[j][p].of # c
             /\ calls'[wire[j][p].of] = calls[wire[j][p].of]
  <2>1. wire[j][p].of \in Calls /\ calls[wire[j][p].of].step \in CallOps
    BY <1>5, CommandTyped DEF CacheInv, WireMatches
  <2> QED BY <2>1
<1>6. WireMatches'
  <2> SUFFICES ASSUME NEW j \in Instances, NEW p \in 1 .. Len(wire'[j])
               PROVE  /\ wire'[j][p].op \in CallOps => /\ calls'[wire'[j][p].of].at = j
                                                       /\ calls'[wire'[j][p].of].step = wire'[j][p].op
                      /\ wire'[j][p].op \in WriteOps => /\ writes[wire'[j][p].of].at = j
                                                        /\ writes[wire'[j][p].of].step = "sent"
                      /\ \A q \in 1 .. Len(wire'[j]) :
                            /\ wire'[j][q].of = wire'[j][p].of
                            /\ wire'[j][q].op \in CallOps <=> wire'[j][p].op \in CallOps
                            => q = p
    BY DEF WireMatches
  <2>1. CASE j # i
    <3>1. wire'[j] = wire[j]
      BY <1>2, <2>1
    <3> QED BY <1>5, <3>1 DEF CacheInv, WireMatches
  <2>2. CASE j = i
    <3>1. \A q \in 1 .. Len(wire'[i]) : q \in 1 .. Len(wire[i]) \/ q = Len(wire[i]) + 1
      BY <1>2
    <3>2. CASE p = Len(wire[i]) + 1
      <4>1. wire'[j][p].op = op /\ wire'[j][p].of = c /\ op \notin WriteOps
        BY <1>2, <2>2, <3>2 DEF CallOps, WriteOps
      <4>2. \A q \in 1 .. Len(wire'[i]) : q # p =>
               ~(wire'[i][q].of = c /\ wire'[i][q].op \in CallOps)
        BY <1>2, <1>5, <3>1, <3>2
      <4> QED BY <2>2, <4>1, <4>2
    <3>3. CASE p \in 1 .. Len(wire[i])
      <4>1. wire'[j][p] = wire[i][p]
        BY <1>2, <2>2, <3>3
      <4>2. /\ wire[i][p].op \in CallOps => /\ calls'[wire[i][p].of].at = i
                                            /\ calls'[wire[i][p].of].step = wire[i][p].op
            /\ wire[i][p].op \in WriteOps => /\ writes[wire[i][p].of].at = i
                                             /\ writes[wire[i][p].of].step = "sent"
        BY <1>5, <3>3 DEF CacheInv, WireMatches
      <4>3. ASSUME NEW q \in 1 .. Len(wire'[i]), wire'[i][q].of = wire[i][p].of,
                   wire'[i][q].op \in CallOps <=> wire[i][p].op \in CallOps
            PROVE  q = p
        <5>1. CASE q \in 1 .. Len(wire[i])
          BY <1>2, <3>3, <4>3, <5>1 DEF CacheInv, WireMatches
        <5>2. CASE q = Len(wire[i]) + 1
          BY <1>2, <1>5, <3>3, <4>3, <5>2
        <5> QED BY <3>1, <5>1, <5>2
      <4> QED BY <2>2, <4>1, <4>2, <4>3
    <3> QED BY <2>2, <3>1, <3>2, <3>3
  <2> QED BY <2>1, <2>2
<1>7. SetsAreFollowed'
  <2> SUFFICES ASSUME NEW j \in Instances, NEW p \in 1 .. Len(wire'[j]), wire'[j][p].op = "set",
                      NEW w \in Versions, Invalidating(w, j)
               PROVE  \/ calls'[wire'[j][p].of].value >= w
                      \/ \E q \in 1 .. Len(wire'[j]) :
                            q > p /\ wire'[j][q].op \in WriteOps /\ wire'[j][q].of = w
    BY <1>4 DEF SetsAreFollowed
  <2>1. CASE p \in 1 .. Len(wire[j])
    <3>1. wire'[j][p] = wire[j][p] /\ wire[j][p].op \in CallOps
      BY <1>2, <2>1 DEF CallOps
    <3>2. calls'[wire[j][p].of] = calls[wire[j][p].of]
      BY <1>5, <2>1, <3>1
    <3>3. \/ calls[wire[j][p].of].value >= w
          \/ \E q \in 1 .. Len(wire[j]) : q > p /\ wire[j][q].op \in WriteOps /\ wire[j][q].of = w
      BY <2>1, <3>1 DEF CacheInv, SetsAreFollowed
    <3>4. \A q \in 1 .. Len(wire[j]) : q \in 1 .. Len(wire'[j]) /\ wire'[j][q] = wire[j][q]
      BY <1>2
    <3> QED BY <3>1, <3>2, <3>3, <3>4
  <2>2. CASE j = i /\ p = Len(wire[i]) + 1
    BY <1>2, <2>2
  <2> QED BY <1>2, <2>1, <2>2
<1>8. LoadsAreFresh'
  <2> SUFFICES ASSUME NEW d \in Calls
               PROVE  /\ calls'[d].seen <= invalidationVersion[calls'[d].at]
                      /\ calls'[d].step = "store"
                         /\ calls'[d].seen = invalidationVersion[calls'[d].at] =>
                            \A w \in Versions : Invalidating(w, calls'[d].at) => calls'[d].value >= w
    BY <1>4 DEF LoadsAreFresh, Invalidating
  <2>1. CASE d = c
    BY <2>1 DEF CallOps
  <2>2. CASE d # c
    BY <2>2 DEF CacheInv, LoadsAreFresh
  <2> QED BY <2>1, <2>2
<1>9. WrittenSoFar' /\ InvalidationsDone'
  BY DEF CacheInv, WrittenSoFar, InvalidationsDone
<1>10. InvalidationsCounted'
  BY <1>4 DEF CacheInv, InvalidationsCounted
<1>11. StaleOnlyByOthers'
  BY DEF CacheInv, StaleOnlyByOthers, CallOps
<1> QED BY <1>3, <1>6, <1>7, <1>8, <1>9, <1>10, <1>11 DEF CacheInv

LEMMA VersionsCounted == IsFiniteSet(Versions) /\ Cardinality(Versions) = MaxWrites
<1>1. 1 \in Int /\ MaxWrites \in Int /\ MaxWrites >= 0
  BY CacheAssumption
<1>2. IsFiniteSet(1 .. MaxWrites)
      /\ Cardinality(1 .. MaxWrites) = IF 1 > MaxWrites THEN 0 ELSE MaxWrites - 1 + 1
  BY <1>1, FS_Interval
<1> QED BY <1>1, <1>2 DEF Versions

(* A writer sends a command, and counts an invalidation with the first.    *)
LEMMA WriterSends ==
    ASSUME CacheInv, NEW w \in Versions, NEW i \in Instances, writes[w].at = i,
           NEW op \in WriteOps, Send(i, op, w),
           writes' = [writes EXCEPT ![w].step = "sent"],
           \/ /\ writes[w].step = "written"
              /\ invalidationVersion' = [invalidationVersion EXCEPT ![i] = @ + 1]
           \/ writes[w].step = "found" /\ invalidationVersion' = invalidationVersion,
           UNCHANGED <<record, cached, inFlight, calls, cacheFaults, invalidated>>
    PROVE  CacheInv'
<1>1. [op |-> op, of |-> w] \in Commands
  BY DEF Commands, WriteOps
<1>2. /\ wire' \in [Instances -> Seq(Commands)]
      /\ Len(wire[i]) \in Nat /\ Len(wire'[i]) = Len(wire[i]) + 1
      /\ \A p \in 1 .. Len(wire[i]) : wire'[i][p] = wire[i][p]
      /\ wire'[i][Len(wire[i]) + 1].op = op /\ wire'[i][Len(wire[i]) + 1].of = w
      /\ \A j \in Instances : j # i => wire'[j] = wire[j]
  BY <1>1, SendEffect
<1>3. /\ writes' \in [Versions -> WriteRecordRow]
      /\ writes'[w].step = "sent" /\ writes'[w].at = i
      /\ \A v \in Versions : v # w => writes'[v] = writes[v]
  BY DEF CacheInv, CacheTypeOK, WriteRecordRow
<1>4. /\ Invalidating(w, i)' /\ \A j \in Instances : j # i => ~Invalidating(w, j)'
      /\ \A j \in Instances, v \in Versions : v # w => (Invalidating(v, j)' <=> Invalidating(v, j))
      /\ \A j \in Instances : j # i => ~Invalidating(w, j)
      /\ Invalidating(w, i) <=> writes[w].step = "found"
  BY <1>3 DEF Invalidating
<1>5. /\ invalidationVersion' \in [Instances -> Nat]
      /\ writes[w].step = "written" => invalidationVersion'[i] = invalidationVersion[i] + 1
      /\ writes[w].step = "found" => invalidationVersion'[i] = invalidationVersion[i]
      /\ \A j \in Instances : j # i => invalidationVersion'[j] = invalidationVersion[j]
      /\ \A j \in Instances : invalidationVersion[j] \in Nat
  BY CacheAssumption DEF CacheInv, CacheTypeOK
<1>6. InvalidationsCounted'
  <2> SUFFICES ASSUME NEW j \in Instances
               PROVE  invalidationVersion'[j] = Cardinality({v \in Versions : Invalidating(v, j)'})
    BY DEF InvalidationsCounted
  <2>1. PICK s : s = {v \in Versions : Invalidating(v, j)}
    OBVIOUS
  <2>2. invalidationVersion[j] = Cardinality(s) /\ IsFiniteSet(s)
    <3>1. IsFiniteSet(Versions) /\ s \in SUBSET Versions
      BY <2>1, VersionsCounted
    <3> QED BY <2>1, <3>1, FS_Subset DEF CacheInv, InvalidationsCounted
  <2>3. CASE j = i /\ writes[w].step = "written"
    <3>1. {v \in Versions : Invalidating(v, j)'} = s \cup {w} /\ w \notin s
      BY <1>4, <2>1, <2>3
    <3>2. Cardinality(s \cup {w}) = Cardinality(s) + 1
      BY <2>2, <3>1, FS_AddElement
    <3> QED BY <1>5, <2>2, <2>3, <3>1, <3>2
  <2>4. CASE ~(j = i /\ writes[w].step = "written")
    <3>1. {v \in Versions : Invalidating(v, j)'} = s
      BY <1>4, <2>1, <2>4
    <3> QED BY <1>5, <2>2, <2>4, <3>1
  <2> QED BY <2>3, <2>4
<1>7. CacheTypeOK'
  <2>1. ASSUME NEW j \in Instances PROVE invalidationVersion'[j] \in 0 .. MaxWrites
    <3>1. PICK s : s = {v \in Versions : Invalidating(v, j)'}
      OBVIOUS
    <3>2. IsFiniteSet(Versions) /\ Cardinality(Versions) = MaxWrites /\ s \in SUBSET Versions
      BY <3>1, VersionsCounted
    <3>3. Cardinality(s) <= MaxWrites
      BY <3>2, FS_Subset
    <3> QED BY <1>5, <1>6, <3>1, <3>3, CacheAssumption DEF InvalidationsCounted
  <2>2. invalidationVersion' \in [Instances -> 0 .. MaxWrites]
    BY <1>5, <2>1
  <2> QED BY <1>2, <1>3, <2>2 DEF CacheInv, CacheTypeOK, WriteRecordRow
<1>8. WireMatches'
  <2> SUFFICES ASSUME NEW j \in Instances, NEW p \in 1 .. Len(wire'[j])
               PROVE  /\ wire'[j][p].op \in CallOps => /\ calls[wire'[j][p].of].at = j
                                                       /\ calls[wire'[j][p].of].step = wire'[j][p].op
                      /\ wire'[j][p].op \in WriteOps => /\ writes'[wire'[j][p].of].at = j
                                                        /\ writes'[wire'[j][p].of].step = "sent"
                      /\ \A q \in 1 .. Len(wire'[j]) :
                            /\ wire'[j][q].of = wire'[j][p].of
                            /\ wire'[j][q].op \in CallOps <=> wire'[j][p].op \in CallOps
                            => q = p
    BY DEF WireMatches
  <2>1. ASSUME NEW k \in Instances, NEW q \in 1 .. Len(wire[k]), wire[k][q].op \in WriteOps
        PROVE  wire[k][q].of \in Versions /\ wire[k][q].of # w
    BY <2>1, CommandTyped DEF CacheInv, WireMatches
  <2>2. CASE j # i
    <3>1. wire'[j] = wire[j]
      BY <1>2, <2>2
    <3> QED BY <1>3, <2>1, <3>1 DEF CacheInv, WireMatches
  <2>3. CASE j = i
    <3>1. \A q \in 1 .. Len(wire'[i]) : q \in 1 .. Len(wire[i]) \/ q = Len(wire[i]) + 1
      BY <1>2
    <3>2. \A q \in 1 .. Len(wire[i]) : wire[i][q].op \in CallOps <=> wire[i][q].op \notin WriteOps
      BY CommandTyped DEF CallOps, WriteOps
    <3>3. op \notin CallOps
      BY DEF CallOps, WriteOps
    <3>4. CASE p = Len(wire[i]) + 1
      <4>1. wire'[j][p].op = op /\ wire'[j][p].of = w
        BY <1>2, <2>3, <3>4
      <4>2. \A q \in 1 .. Len(wire'[i]) : q # p =>
               ~(wire'[i][q].of = w /\ wire'[i][q].op \notin CallOps)
        BY <1>2, <2>1, <3>1, <3>2, <3>4
      <4> QED BY <1>3, <2>3, <3>3, <4>1, <4>2
    <3>5. CASE p \in 1 .. Len(wire[i])
      <4>1. wire'[j][p] = wire[i][p]
        BY <1>2, <2>3, <3>5
      <4>2. /\ wire[i][p].op \in CallOps => /\ calls[wire[i][p].of].at = i
                                            /\ calls[wire[i][p].of].step = wire[i][p].op
            /\ wire[i][p].op \in WriteOps => /\ writes'[wire[i][p].of].at = i
                                             /\ writes'[wire[i][p].of].step = "sent"
        BY <1>3, <2>1, <3>5 DEF CacheInv, WireMatches
      <4>3. ASSUME NEW q \in 1 .. Len(wire'[i]), wire'[i][q].of = wire[i][p].of,
                   wire'[i][q].op \in CallOps <=> wire[i][p].op \in CallOps
            PROVE  q = p
        <5>1. CASE q \in 1 .. Len(wire[i])
          BY <1>2, <3>5, <4>3, <5>1 DEF CacheInv, WireMatches
        <5>2. CASE q = Len(wire[i]) + 1
          BY <1>2, <2>1, <3>2, <3>3, <3>5, <4>3, <5>2
        <5> QED BY <3>1, <5>1, <5>2
      <4> QED BY <2>3, <4>1, <4>2, <4>3
    <3> QED BY <2>3, <3>1, <3>4, <3>5
  <2> QED BY <2>2, <2>3
<1>9. SetsAreFollowed'
  <2> SUFFICES ASSUME NEW j \in Instances, NEW p \in 1 .. Len(wire'[j]), wire'[j][p].op = "set",
                      NEW v \in Versions, Invalidating(v, j)'
               PROVE  \/ calls[wire'[j][p].of].value >= v
                      \/ \E q \in 1 .. Len(wire'[j]) :
                            q > p /\ wire'[j][q].op \in WriteOps /\ wire'[j][q].of = v
    BY DEF SetsAreFollowed
  <2>1. p \in 1 .. Len(wire[j]) /\ wire'[j][p] = wire[j][p]
    <3>1. CASE j = i
      <4>1. p # Len(wire[i]) + 1
        BY <1>2, <3>1 DEF WriteOps
      <4> QED BY <1>2, <3>1, <4>1
    <3> QED BY <1>2, <3>1
  <2>2. CASE v = w
    <3>1. j = i
      BY <1>4, <2>2
    <3>2. Len(wire[i]) + 1 \in 1 .. Len(wire'[i]) /\ Len(wire[i]) + 1 > p
      BY <1>2, <2>1, <3>1
    <3> QED BY <1>2, <2>2, <3>1, <3>2
  <2>3. CASE v # w
    <3>1. \/ calls[wire[j][p].of].value >= v
          \/ \E q \in 1 .. Len(wire[j]) : q > p /\ wire[j][q].op \in WriteOps /\ wire[j][q].of = v
      BY <1>4, <2>1, <2>3 DEF CacheInv, SetsAreFollowed
    <3>2. \A q \in 1 .. Len(wire[j]) : q \in 1 .. Len(wire'[j]) /\ wire'[j][q] = wire[j][q]
      BY <1>2
    <3> QED BY <2>1, <3>1, <3>2
  <2> QED BY <2>2, <2>3
<1>10. LoadsAreFresh'
  <2> SUFFICES ASSUME NEW c \in Calls
               PROVE  /\ calls[c].seen <= invalidationVersion'[calls[c].at]
                      /\ calls[c].step = "store"
                         /\ calls[c].seen = invalidationVersion'[calls[c].at] =>
                            \A v \in Versions : Invalidating(v, calls[c].at)' => calls[c].value >= v
    BY DEF LoadsAreFresh, Invalidating
  <2>1. PICK j \in Instances : j = calls[c].at
    BY DEF CacheInv, CacheTypeOK
  <2>2. calls[c].seen \in Nat
    BY DEF CacheInv, CacheTypeOK
  <2>3. /\ calls[c].seen <= invalidationVersion[j]
        /\ calls[c].step = "store" /\ calls[c].seen = invalidationVersion[j] =>
              \A v \in Versions : Invalidating(v, j) => calls[c].value >= v
    BY <2>1 DEF CacheInv, LoadsAreFresh
  <2>4. CASE j = i /\ writes[w].step = "written"
    BY <1>5, <2>1, <2>2, <2>3, <2>4
  <2>5. CASE ~(j = i /\ writes[w].step = "written")
    <3>1. invalidationVersion'[j] = invalidationVersion[j]
      BY <1>5, <2>5
    <3>2. \A v \in Versions : Invalidating(v, j)' => Invalidating(v, j)
      BY <1>4, <2>5
    <3>3. calls' = calls
      OBVIOUS
    <3> QED BY <2>1, <2>3, <3>1, <3>2, <3>3
  <2> QED BY <2>4, <2>5
<1>11. WrittenSoFar' /\ InvalidationsDone'
  <2>1. WrittenSoFar'
    BY <1>3 DEF CacheInv, WrittenSoFar
  <2>2. ASSUME NEW j \in Instances, invalidated[j] # 0
        PROVE  writes'[invalidated[j]].at = j /\ writes'[invalidated[j]].step = "done"
    <3>1. invalidated[j] \in Versions
      BY <2>2, CacheAssumption DEF CacheInv, CacheTypeOK, Versions
    <3>2. writes[invalidated[j]].at = j /\ writes[invalidated[j]].step = "done"
      BY <2>2 DEF CacheInv, InvalidationsDone
    <3> QED BY <1>3, <3>1, <3>2
  <2> QED BY <2>1, <2>2 DEF InvalidationsDone
<1>12. StaleOnlyByOthers'
  BY DEF CacheInv, StaleOnlyByOthers
<1> QED BY <1>6, <1>7, <1>8, <1>9, <1>10, <1>11, <1>12 DEF CacheInv

LEMMA WriteRecordStep ==
    ASSUME CacheInv, NEW i \in Instances, WriteRecord(i)
    PROVE  CacheInv'
<1>1. PICK w \in Versions : w = record + 1 /\ record' = w
  BY CacheAssumption DEF WriteRecord, CacheInv, CacheTypeOK, Versions
<1>2. writes' = [writes EXCEPT ![w] = [step |-> "written", at |-> i]]
  BY <1>1 DEF WriteRecord
<1>3. /\ writes' \in [Versions -> WriteRecordRow] /\ writes'[w].step = "written"
      /\ \A v \in Versions : v # w => writes'[v] = writes[v]
  BY <1>2 DEF CacheInv, CacheTypeOK, WriteRecordRow
<1>4. writes[w].step = "none"
  BY <1>1 DEF CacheInv, WrittenSoFar, CacheTypeOK
<1>5. \A v \in Versions : \A j : Invalidating(v, j)' <=> Invalidating(v, j)
  BY <1>3, <1>4 DEF Invalidating
<1>6. UNCHANGED <<cached, wire, invalidationVersion, inFlight, calls, cacheFaults, invalidated>>
  BY DEF WriteRecord
<1>7. CacheTypeOK'
  BY <1>1, <1>3, <1>6 DEF CacheInv, CacheTypeOK, WriteRecordRow, Versions
<1>8. WireMatches'
  <2>1. ASSUME NEW j \in Instances, NEW p \in 1 .. Len(wire[j]), wire[j][p].op \in WriteOps
        PROVE  writes'[wire[j][p].of] = writes[wire[j][p].of]
    BY <1>3, <1>4, <2>1, CommandTyped DEF CacheInv, WireMatches
  <2> QED BY <1>6, <2>1 DEF CacheInv, WireMatches
<1>9. SetsAreFollowed'
  BY <1>5, <1>6 DEF CacheInv, SetsAreFollowed
<1>10. LoadsAreFresh'
  BY <1>5, <1>6 DEF CacheInv, LoadsAreFresh
<1>11. WrittenSoFar'
  BY <1>1, <1>3 DEF CacheInv, WrittenSoFar, CacheTypeOK, Versions
<1>12. InvalidationsDone'
  <2> SUFFICES ASSUME NEW j \in Instances, invalidated[j] # 0
               PROVE  writes'[invalidated[j]].at = j /\ writes'[invalidated[j]].step = "done"
    BY <1>6 DEF InvalidationsDone
  <2>1. invalidated[j] \in Versions
    BY CacheAssumption DEF CacheInv, CacheTypeOK, Versions
  <2>2. writes[invalidated[j]].at = j /\ writes[invalidated[j]].step = "done"
    BY DEF CacheInv, InvalidationsDone
  <2> QED BY <1>3, <1>4, <2>1, <2>2
<1>13. InvalidationsCounted'
  <2>1. \A j \in Instances : {v \in Versions : Invalidating(v, j)'} = {v \in Versions : Invalidating(v, j)}
    BY <1>5
  <2> QED BY <1>6, <2>1 DEF CacheInv, InvalidationsCounted
<1>14. StaleOnlyByOthers'
  BY <1>6 DEF CacheInv, StaleOnlyByOthers
<1> QED BY <1>7, <1>8, <1>9, <1>10, <1>11, <1>12, <1>13, <1>14 DEF CacheInv

(* The first command of a connection is taken from it. *)
LEMMA ConsumeEffect ==
    ASSUME CacheInv, NEW i \in Instances, wire[i] # << >>, Consume(i)
    PROVE  /\ wire' \in [Instances -> Seq(Commands)]
           /\ Len(wire[i]) \in Nat /\ Len(wire[i]) > 0 /\ Len(wire'[i]) = Len(wire[i]) - 1
           /\ \A p \in 1 .. Len(wire'[i]) : p + 1 \in 1 .. Len(wire[i]) /\ wire'[i][p] = wire[i][p + 1]
           /\ Head(wire[i]) = wire[i][1] /\ 1 \in 1 .. Len(wire[i])
           /\ \A j \in Instances : j # i => wire'[j] = wire[j]
<1>1. wire \in [Instances -> Seq(Commands)]
  BY DEF CacheInv, CacheTypeOK
<1>2. wire[i] \in Seq(Commands)
  BY <1>1
<1>3. /\ Tail(wire[i]) \in Seq(Commands) /\ Len(wire[i]) \in Nat /\ Len(wire[i]) > 0
      /\ Len(Tail(wire[i])) = Len(wire[i]) - 1
      /\ \A p \in 1 .. Len(wire[i]) - 1 : Tail(wire[i])[p] = wire[i][p + 1]
      /\ Head(wire[i]) = wire[i][1]
  BY <1>2, TailEffect
<1>4. /\ wire'[i] = Tail(wire[i]) /\ wire' \in [Instances -> Seq(Commands)]
      /\ \A j \in Instances : j # i => wire'[j] = wire[j]
  BY <1>1, <1>3 DEF Consume
<1> QED BY <1>3, <1>4

(* Redis answers the first command of a connection, or the command fails:  *)
(* the call or the writer that sent it goes on.                            *)
LEMMA CommandConsumed ==
    ASSUME CacheInv, NEW i \in Instances, wire[i] # << >>, Consume(i),
           NEW op, op = wire[i][1].op, NEW of, of = wire[i][1].of,
           calls' \in [Calls -> CallRow],
           \A d \in Calls :
              /\ calls'[d].at = calls[d].at /\ calls'[d].seen = calls[d].seen
              /\ calls[d].step \in CallOps => calls'[d] = calls[d] \/ (op \in CallOps /\ d = of)
              /\ calls'[d].step # "store" \/ calls'[d] = calls[d],
           writes' \in [Versions -> WriteRecordRow],
           \A v \in Versions :
              /\ writes'[v].at = writes[v].at
              /\ \/ writes'[v] = writes[v]
                 \/ op \in WriteOps /\ v = of /\ writes'[v].step \in {"found", "done"},
           UNCHANGED <<record, invalidationVersion>>,
           cached' \subseteq [value : 0 .. MaxWrites, by : Instances],
           inFlight' \in [Instances -> Calls \cup {NoCall}], cacheFaults' \in 0 .. MaxCacheFaults,
           invalidated' \in [Instances -> 0 .. MaxWrites], InvalidationsDone', StaleOnlyByOthers'
    PROVE  CacheInv'
<1>1. /\ wire' \in [Instances -> Seq(Commands)]
      /\ Len(wire[i]) \in Nat /\ Len(wire[i]) > 0 /\ Len(wire'[i]) = Len(wire[i]) - 1
      /\ \A p \in 1 .. Len(wire'[i]) : p + 1 \in 1 .. Len(wire[i]) /\ wire'[i][p] = wire[i][p + 1]
      /\ 1 \in 1 .. Len(wire[i])
      /\ \A j \in Instances : j # i => wire'[j] = wire[j]
  BY ConsumeEffect
<1>2. CacheTypeOK'
  BY <1>1 DEF CacheInv, CacheTypeOK, CallRow, WriteRecordRow
<1>3. /\ op \in WriteOps => writes[of].at = i /\ writes[of].step = "sent"
      /\ op \in CallOps \cup WriteOps
  BY <1>1, CommandTyped DEF CacheInv, WireMatches
<1>4. \A v \in Versions : \A j : Invalidating(v, j)' <=> Invalidating(v, j)
  BY <1>3 DEF Invalidating
<1>5. ASSUME NEW j \in Instances, NEW p \in 1 .. Len(wire'[j])
      PROVE  \E q \in 1 .. Len(wire[j]) :
                /\ wire'[j][p] = wire[j][q] /\ q = (IF j = i THEN p + 1 ELSE p)
  <2>1. CASE j = i
    <3>1. p + 1 \in 1 .. Len(wire[j]) /\ wire'[j][p] = wire[j][p + 1]
      BY <1>1, <2>1
    <3> QED BY <2>1, <3>1
  <2>2. CASE j # i
    <3>1. p \in 1 .. Len(wire[j]) /\ wire'[j][p] = wire[j][p]
      BY <1>1, <2>2
    <3> QED BY <2>2, <3>1
  <2> QED BY <2>1, <2>2
<1>6. ASSUME NEW j \in Instances, NEW q \in 1 .. Len(wire[j]), j # i \/ q # 1
      PROVE  /\ wire[j][q].op \in CallOps => calls'[wire[j][q].of] = calls[wire[j][q].of]
             /\ wire[j][q].op \in WriteOps => writes'[wire[j][q].of] = writes[wire[j][q].of]
  <2>1. wire[j][q].op \in CallOps => wire[j][q].of \in Calls
    BY CommandTyped
  <2>2. wire[j][q].op \in WriteOps => wire[j][q].of \in Versions
    BY CommandTyped
  <2>3. /\ wire[j][q].op \in CallOps => calls[wire[j][q].of].at = j /\ calls[wire[j][q].of].step \in CallOps
        /\ wire[j][q].op \in WriteOps => writes[wire[j][q].of].at = j
    BY DEF CacheInv, WireMatches
  <2>4. op \in CallOps => calls[of].at = i
    BY <1>1 DEF CacheInv, WireMatches
  <2>5. CASE j # i
    BY <1>3, <2>1, <2>2, <2>3, <2>4, <2>5
  <2>6. CASE j = i /\ q # 1
    <3>1. ~(wire[i][q].of = of /\ (wire[i][q].op \in CallOps <=> op \in CallOps))
      <4>1. \A p \in 1 .. Len(wire[i]), r \in 1 .. Len(wire[i]) :
               /\ wire[i][r].of = wire[i][p].of
               /\ wire[i][r].op \in CallOps <=> wire[i][p].op \in CallOps
               => r = p
        BY DEF CacheInv, WireMatches
      <4>2. q \in 1 .. Len(wire[i]) /\ q # 1
        BY <2>6
      <4> QED BY <1>1, <4>1, <4>2
    <3>2. op \in CallOps <=> op \notin WriteOps
      BY <1>3 DEF CallOps, WriteOps
    <3>3. wire[i][q].op \in WriteOps => wire[i][q].op \notin CallOps
      BY DEF CallOps, WriteOps
    <3>4. wire[i][q].op \in CallOps => calls'[wire[i][q].of] = calls[wire[i][q].of]
      BY <2>1, <2>3, <2>6, <3>1
    <3>5. wire[i][q].op \in WriteOps => writes'[wire[i][q].of] = writes[wire[i][q].of]
      BY <2>2, <2>6, <3>1, <3>2, <3>3
    <3> QED BY <2>6, <3>4, <3>5
  <2> QED BY <1>6, <2>5, <2>6
<1>7. WireMatches'
  <2> SUFFICES ASSUME NEW j \in Instances, NEW p \in 1 .. Len(wire'[j])
               PROVE  /\ wire'[j][p].op \in CallOps => /\ calls'[wire'[j][p].of].at = j
                                                       /\ calls'[wire'[j][p].of].step = wire'[j][p].op
                      /\ wire'[j][p].op \in WriteOps => /\ writes'[wire'[j][p].of].at = j
                                                        /\ writes'[wire'[j][p].of].step = "sent"
                      /\ \A q \in 1 .. Len(wire'[j]) :
                            /\ wire'[j][q].of = wire'[j][p].of
                            /\ wire'[j][q].op \in CallOps <=> wire'[j][p].op \in CallOps
                            => q = p
    BY DEF WireMatches
  <2>1. PICK s \in 1 .. Len(wire[j]) : wire'[j][p] = wire[j][s] /\ s = (IF j = i THEN p + 1 ELSE p)
    BY <1>5
  <2>2. j # i \/ s # 1
    BY <2>1
  <2>3. /\ wire[j][s].op \in CallOps => /\ calls'[wire[j][s].of].at = j
                                        /\ calls'[wire[j][s].of].step = wire[j][s].op
        /\ wire[j][s].op \in WriteOps => /\ writes'[wire[j][s].of].at = j
                                         /\ writes'[wire[j][s].of].step = "sent"
    BY <1>6, <2>2 DEF CacheInv, WireMatches
  <2>4. ASSUME NEW q \in 1 .. Len(wire'[j]), wire'[j][q].of = wire'[j][p].of,
               wire'[j][q].op \in CallOps <=> wire'[j][p].op \in CallOps
        PROVE  q = p
    <3>1. PICK r \in 1 .. Len(wire[j]) : wire'[j][q] = wire[j][r] /\ r = (IF j = i THEN q + 1 ELSE q)
      BY <1>5
    <3>2. /\ wire[j][r].of = wire[j][s].of
          /\ wire[j][r].op \in CallOps <=> wire[j][s].op \in CallOps
      BY <2>1, <2>4, <3>1
    <3>3. r = s
      BY <3>2 DEF CacheInv, WireMatches
    <3> QED BY <2>1, <3>1, <3>3
  <2> QED BY <2>1, <2>3, <2>4
<1>8. SetsAreFollowed'
  <2> SUFFICES ASSUME NEW j \in Instances, NEW p \in 1 .. Len(wire'[j]), wire'[j][p].op = "set",
                      NEW v \in Versions, Invalidating(v, j)'
               PROVE  \/ calls'[wire'[j][p].of].value >= v
                      \/ \E q \in 1 .. Len(wire'[j]) :
                            q > p /\ wire'[j][q].op \in WriteOps /\ wire'[j][q].of = v
    BY DEF SetsAreFollowed
  <2>1. PICK s \in 1 .. Len(wire[j]) : wire'[j][p] = wire[j][s] /\ s = (IF j = i THEN p + 1 ELSE p)
    BY <1>5
  <2>2. calls'[wire[j][s].of] = calls[wire[j][s].of]
    BY <1>6, <2>1 DEF CallOps
  <2>3. \/ calls[wire[j][s].of].value >= v
        \/ \E q \in 1 .. Len(wire[j]) : q > s /\ wire[j][q].op \in WriteOps /\ wire[j][q].of = v
    <3>1. Invalidating(v, j) /\ wire[j][s].op = "set"
      BY <1>4, <2>1
    <3> QED BY <3>1 DEF CacheInv, SetsAreFollowed
  <2>4. ASSUME NEW q \in 1 .. Len(wire[j]), q > s, wire[j][q].op \in WriteOps, wire[j][q].of = v
        PROVE  \E r \in 1 .. Len(wire'[j]) :
                  r > p /\ wire'[j][r].op \in WriteOps /\ wire'[j][r].of = v
    <3>1. CASE j # i
      BY <1>1, <2>1, <2>4, <3>1
    <3>2. CASE j = i
      <4>1. q - 1 \in 1 .. Len(wire'[i]) /\ q - 1 > p /\ (q - 1) + 1 = q
        BY <1>1, <2>1, <2>4, <3>2
      <4>2. wire'[i][q - 1] = wire[i][q]
        BY <1>1, <4>1
      <4> QED BY <2>4, <3>2, <4>1, <4>2
    <3> QED BY <3>1, <3>2
  <2> QED BY <2>1, <2>2, <2>3, <2>4
<1>9. LoadsAreFresh'
  <2> SUFFICES ASSUME NEW c \in Calls
               PROVE  /\ calls'[c].seen <= invalidationVersion[calls'[c].at]
                      /\ calls'[c].step = "store"
                         /\ calls'[c].seen = invalidationVersion[calls'[c].at] =>
                            \A v \in Versions : Invalidating(v, calls'[c].at) => calls'[c].value >= v
    BY <1>4 DEF LoadsAreFresh, Invalidating
  <2>1. calls'[c].at = calls[c].at /\ calls'[c].seen = calls[c].seen
    OBVIOUS
  <2>2. calls[c].seen <= invalidationVersion[calls[c].at]
    BY DEF CacheInv, LoadsAreFresh
  <2>3. CASE calls'[c] = calls[c]
    BY <2>3 DEF CacheInv, LoadsAreFresh
  <2> QED BY <2>1, <2>2, <2>3
<1>10. WrittenSoFar'
  <2> SUFFICES ASSUME NEW v \in Versions, writes'[v].step # "none" PROVE v <= record
    BY DEF WrittenSoFar
  <2>1. writes[v].step # "none"
    BY <1>3
  <2> QED BY <2>1 DEF CacheInv, WrittenSoFar
<1>11. InvalidationsCounted'
  <2>1. \A j \in Instances : {v \in Versions : Invalidating(v, j)'} = {v \in Versions : Invalidating(v, j)}
    BY <1>4
  <2> QED BY <2>1 DEF CacheInv, InvalidationsCounted
<1> QED BY <1>2, <1>7, <1>8, <1>9, <1>10, <1>11 DEF CacheInv

LEMMA CallTyped ==
    ASSUME CacheInv
    PROVE  /\ calls \in [Calls -> CallRow] /\ inFlight \in [Instances -> Calls \cup {NoCall}]
           /\ cacheFaults \in 0 .. MaxCacheFaults /\ record \in 0 .. MaxWrites
           /\ \A c \in Calls : calls[c].step = "wait" => inFlight[calls[c].at] # NoCall
BY DEF CacheInv, CacheTypeOK, CallRow, StaleOnlyByOthers

(* getOrSet, up to the loaded value. *)
LEMMA CallStep ==
    ASSUME CacheInv, NEW c \in Calls,
           (\E i \in Instances : BeginGet(c, i)) \/ JoinOrLoad(c) \/ Load(c) \/ LoaderFails(c)
    PROVE  CacheInv'
<1>1. CASE \E i \in Instances : BeginGet(c, i)
  <2>1. PICK i \in Instances : BeginGet(c, i)
    BY <1>1
  <2>2. PICK r : r = [step |-> "get", at |-> i, seen |-> invalidationVersion[i], value |-> 0]
    OBVIOUS
  <2>3. r \in CallRow /\ r.step = "get" /\ r.at = i /\ r.seen = invalidationVersion[i]
    BY <2>2, CacheAssumption DEF CallRow, CallSteps, CacheInv, CacheTypeOK
  <2>4. calls' = [calls EXCEPT ![c] = r] /\ calls[c].step = "none" /\ Send(i, "get", c)
        /\ UNCHANGED <<record, cached, invalidationVersion, inFlight, writes, cacheFaults, invalidated>>
    BY <2>1, <2>2 DEF BeginGet
  <2>5. calls' \in [Calls -> CallRow] /\ calls'[c] = r /\ \A d \in Calls : d # c => calls'[d] = calls[d]
    BY <2>3, <2>4, CallTyped
  <2>6. invalidationVersion[i] <= invalidationVersion[i]
    BY DEF CacheInv, CacheTypeOK
  <2>7. "get" \in CallOps /\ calls[c].step \notin CallOps \cup {"wait"}
    BY <2>4 DEF CallOps
  <2>8. calls'[c].step = "get" /\ calls'[c].at = i /\ calls'[c].seen <= invalidationVersion[i]
    BY <2>3, <2>5, <2>6
  <2> QED BY <2>4, <2>5, <2>7, <2>8, CallSends
<1>2. CASE JoinOrLoad(c)
  <2>1. PICK i \in Instances : i = calls[c].at
    BY CallTyped DEF CallRow
  <2>2. PICK step \in {"wait", "load"} :
            /\ calls' = [calls EXCEPT ![c].step = step]
            /\ step = "wait" => inFlight[i] # NoCall /\ inFlight' = inFlight
            /\ step = "load" => inFlight' = [inFlight EXCEPT ![i] = c]
    BY <1>2, <2>1 DEF JoinOrLoad
  <2>3. /\ calls[c].step = "missed"
        /\ UNCHANGED <<record, cached, wire, invalidationVersion, writes, cacheFaults, invalidated>>
    BY <1>2 DEF JoinOrLoad
  <2>4. calls' \in [Calls -> CallRow] /\ inFlight' \in [Instances -> Calls \cup {NoCall}]
    BY <2>2, CallTyped DEF CallRow, CallSteps
  <2>5. ASSUME NEW d \in Calls
        PROVE  /\ calls'[d].at = calls[d].at /\ calls'[d].seen = calls[d].seen
               /\ calls[d].step \in CallOps => calls'[d] = calls[d]
               /\ calls'[d].step = "store" => calls'[d] = calls[d] \/ calls'[d].value = record
               /\ calls'[d].step = "wait" => (d = c /\ step = "wait") \/ calls[d].step = "wait"
    BY <2>2, <2>3, CallTyped DEF CallRow, CallOps
  <2>6. ASSUME NEW d \in Calls, calls'[d].step = "wait" PROVE inFlight'[calls'[d].at] # NoCall
    <3>1. inFlight[calls[d].at] # NoCall
      BY <2>1, <2>2, <2>5, <2>6, CallTyped
    <3>2. calls[d].at \in Instances
      BY CallTyped DEF CallRow
    <3> QED BY <2>2, <2>5, <3>1, <3>2, CallTyped, CacheAssumption
  <2> QED BY <2>3, <2>4, <2>5, <2>6, CallsMove, CallTyped
<1>3. CASE Load(c)
  <2>1. /\ calls[c].step = "load"
        /\ calls' = [calls EXCEPT ![c] = [calls[c] EXCEPT !.step = "store", !.value = record]]
        /\ UNCHANGED <<record, cached, wire, invalidationVersion, inFlight, writes, cacheFaults, invalidated>>
    BY <1>3 DEF Load
  <2>2. PICK r : r = [calls[c] EXCEPT !.step = "store", !.value = record]
    OBVIOUS
  <2>3. r \in CallRow /\ r.at = calls[c].at /\ r.seen = calls[c].seen /\ r.step = "store" /\ r.value = record
    BY <2>2, CallTyped DEF CallRow, CallSteps
  <2>4. calls' \in [Calls -> CallRow] /\ \A d \in Calls : calls'[d] = IF d = c THEN r ELSE calls[d]
    BY <2>1, <2>2, <2>3, CallTyped
  <2>5. ASSUME NEW d \in Calls
        PROVE  /\ calls'[d].at = calls[d].at /\ calls'[d].seen = calls[d].seen
               /\ calls[d].step \in CallOps => calls'[d] = calls[d]
               /\ calls'[d].step = "store" => calls'[d] = calls[d] \/ calls'[d].value = record
               /\ calls'[d].step = "wait" => inFlight'[calls'[d].at] # NoCall
    BY <2>1, <2>3, <2>4, CallTyped DEF CallOps
  <2> QED BY <2>1, <2>4, <2>5, CallsMove, CallTyped
<1>4. CASE LoaderFails(c)
  <2>1. /\ calls[c].step = "load" /\ Settle(c)
        /\ UNCHANGED <<record, cached, wire, invalidationVersion, writes, invalidated>>
    BY <1>4 DEF LoaderFails
  <2>2. cacheFaults' \in 0 .. MaxCacheFaults
    BY <1>4, CallTyped, CacheAssumption DEF LoaderFails
  <2> QED BY <2>1, <2>2, SettleEffect, CallsMove DEF CallOps
<1> QED BY <1>1, <1>2, <1>3, <1>4

LEMMA StoreStep ==
    ASSUME CacheInv, NEW c \in Calls, Store(c)
    PROVE  CacheInv'
<1>1. PICK i \in Instances : i = calls[c].at
  BY CallTyped DEF CallRow
<1>2. calls[c].step = "store"
      /\ UNCHANGED <<record, cached, invalidationVersion, writes, cacheFaults, invalidated>>
  BY DEF Store
<1>3. CASE calls[c].seen = invalidationVersion[i]
  <2>1. Send(i, "set", c) /\ calls' = [calls EXCEPT ![c].step = "set"] /\ inFlight' = inFlight
    BY <1>1, <1>3 DEF Store
  <2>2. calls' \in [Calls -> CallRow] /\ \A d \in Calls : d # c => calls'[d] = calls[d]
    BY <2>1, CallTyped DEF CallRow, CallSteps
  <2>3. /\ calls'[c].step = "set" /\ calls'[c].at = i /\ calls'[c].value = calls[c].value
        /\ calls'[c].seen = calls[c].seen
    BY <1>1, <2>1, CallTyped DEF CallRow
  <2>4. /\ calls[c].seen <= invalidationVersion[i]
        /\ \A w \in Versions : Invalidating(w, i) => calls[c].value >= w
    BY <1>1, <1>2, <1>3 DEF CacheInv, LoadsAreFresh
  <2>5. "set" \in CallOps /\ calls[c].step \notin CallOps \cup {"wait"}
    BY <1>2 DEF CallOps
  <2>6. /\ calls'[c].seen <= invalidationVersion[i]
        /\ \A w \in Versions : Invalidating(w, i) => calls'[c].value >= w
    BY <2>3, <2>4
  <2> QED BY <1>2, <2>1, <2>2, <2>3, <2>5, <2>6, CallSends
<1>4. CASE calls[c].seen # invalidationVersion[i]
  <2>1. Settle(c) /\ wire' = wire
    BY <1>1, <1>4 DEF Store
  <2>2. cacheFaults' \in 0 .. MaxCacheFaults
    BY <1>2, CallTyped
  <2> QED BY <1>2, <2>1, <2>2, SettleEffect, CallsMove DEF CallOps
<1> QED BY <1>3, <1>4

LEMMA WriterStep ==
    ASSUME CacheInv, NEW w \in Versions, Invalidate(w) \/ DeleteFound(w)
    PROVE  CacheInv'
<1>1. PICK i \in Instances : i = writes[w].at
  BY DEF CacheInv, CacheTypeOK
<1>2. PICK op \in WriteOps : Send(i, op, w)
  BY <1>1 DEF Invalidate, DeleteFound, WriteOps
<1>3. \/ /\ writes[w].step = "written"
         /\ invalidationVersion' = [invalidationVersion EXCEPT ![i] = @ + 1]
      \/ writes[w].step = "found" /\ invalidationVersion' = invalidationVersion
  BY <1>1 DEF Invalidate, DeleteFound
<1>4. writes' = [writes EXCEPT ![w].step = "sent"]
      /\ UNCHANGED <<record, cached, inFlight, calls, cacheFaults, invalidated>>
  BY DEF Invalidate, DeleteFound
<1> QED BY <1>1, <1>2, <1>3, <1>4, WriterSends

LEMMA RedisExpiresStep ==
    ASSUME CacheInv, RedisExpires
    PROVE  CacheInv'
BY DEF RedisExpires, CacheInv, CacheTypeOK, WireMatches, SetsAreFollowed, LoadsAreFresh, WrittenSoFar,
       InvalidationsDone, InvalidationsCounted, StaleOnlyByOthers, Invalidating

(* The command that is taken. *)
LEMMA FirstCommand ==
    ASSUME CacheInv, NEW i \in Instances, wire[i] # << >>
    PROVE  /\ Head(wire[i]) = wire[i][1] /\ wire[i][1].op \in CallOps \cup WriteOps
           /\ wire[i][1].op \in CallOps => /\ wire[i][1].of \in Calls
                                           /\ calls[wire[i][1].of].at = i
                                           /\ calls[wire[i][1].of].step = wire[i][1].op
           /\ wire[i][1].op \in WriteOps => /\ wire[i][1].of \in Versions
                                            /\ writes[wire[i][1].of].at = i
                                            /\ writes[wire[i][1].of].step = "sent"
           /\ wire[i][1].op = "set" =>
                 \A w \in Versions : Invalidating(w, i) =>
                    \/ calls[wire[i][1].of].value >= w
                    \/ writes[w].step = "sent"
<1>1. wire[i] \in Seq(Commands)
  BY DEF CacheInv, CacheTypeOK
<1>2. Head(wire[i]) = wire[i][1] /\ 1 \in 1 .. Len(wire[i])
  BY <1>1, TailEffect
<1>3. \A q \in 1 .. Len(wire[i]) : wire[i][q].op \in WriteOps => writes[wire[i][q].of].step = "sent"
  BY DEF CacheInv, WireMatches
<1>4. wire[i][1].op = "set" =>
         \A w \in Versions : Invalidating(w, i) =>
            calls[wire[i][1].of].value >= w \/ writes[w].step = "sent"
  BY <1>2, <1>3 DEF CacheInv, SetsAreFollowed
<1>5. /\ wire[i][1].op \in CallOps => /\ calls[wire[i][1].of].at = i
                                      /\ calls[wire[i][1].of].step = wire[i][1].op
      /\ wire[i][1].op \in WriteOps => /\ writes[wire[i][1].of].at = i
                                       /\ writes[wire[i][1].of].step = "sent"
  BY <1>2 DEF CacheInv, WireMatches
<1> QED BY <1>2, <1>4, <1>5, CommandTyped

LEMMA RedisGetStep ==
    ASSUME CacheInv, NEW i \in Instances, RedisGet(i)
    PROVE  CacheInv'
<1>1. /\ wire[i] # << >> /\ Consume(i) /\ Head(wire[i]).op = "get"
      /\ UNCHANGED <<record, cached, invalidationVersion, inFlight, writes, cacheFaults, invalidated>>
  BY DEF RedisGet, HeadIs
<1>2. PICK c \in Calls : /\ c = wire[i][1].of /\ c = Head(wire[i]).of /\ wire[i][1].op = "get"
                         /\ calls[c].step = "get"
  BY <1>1, FirstCommand DEF CallOps
<1>3. PICK r \in CallRow : /\ calls' = [calls EXCEPT ![c] = r] /\ r.step \in {"missed", "done"}
                           /\ r.at = calls[c].at /\ r.seen = calls[c].seen
  <2>1. CASE cached = {}
    <3>1. calls' = [calls EXCEPT ![c] = [calls[c] EXCEPT !.step = "missed"]]
      BY <1>2, <2>1 DEF RedisGet
    <3>2. PICK r : r = [calls[c] EXCEPT !.step = "missed"]
      OBVIOUS
    <3>3. r \in CallRow /\ r.step = "missed" /\ r.at = calls[c].at /\ r.seen = calls[c].seen
      BY <3>2, CallTyped DEF CallRow, CallSteps
    <3> QED BY <3>1, <3>2, <3>3
  <2>2. CASE cached # {}
    <3>1. PICK e \in cached :
              calls' = [calls EXCEPT ![c] = [calls[c] EXCEPT !.step = "done", !.value = e.value]]
      BY <1>2, <2>2 DEF RedisGet
    <3>2. PICK r : r = [calls[c] EXCEPT !.step = "done", !.value = e.value]
      OBVIOUS
    <3>3. e.value \in 0 .. MaxWrites
      BY DEF CacheInv, CacheTypeOK
    <3>4. r \in CallRow /\ r.step = "done" /\ r.at = calls[c].at /\ r.seen = calls[c].seen
      BY <3>2, <3>3, CallTyped DEF CallRow, CallSteps
    <3> QED BY <3>1, <3>2, <3>4
  <2> QED BY <2>1, <2>2
<1>4. calls' \in [Calls -> CallRow] /\ \A d \in Calls : calls'[d] = IF d = c THEN r ELSE calls[d]
  BY <1>3, CallTyped
<1>5. ASSUME NEW d \in Calls
      PROVE  /\ calls'[d].at = calls[d].at /\ calls'[d].seen = calls[d].seen
             /\ calls[d].step \in CallOps => calls'[d] = calls[d] \/ ("get" \in CallOps /\ d = c)
             /\ calls'[d].step # "store" \/ calls'[d] = calls[d]
             /\ calls'[d].step = "wait" => calls[d].step = "wait"
  BY <1>3, <1>4 DEF CallOps
<1>6. /\ writes' \in [Versions -> WriteRecordRow] /\ writes' = writes
      /\ cached' \subseteq [value : 0 .. MaxWrites, by : Instances]
      /\ inFlight' \in [Instances -> Calls \cup {NoCall}] /\ cacheFaults' \in 0 .. MaxCacheFaults
      /\ invalidated' \in [Instances -> 0 .. MaxWrites]
  BY <1>1 DEF CacheInv, CacheTypeOK, WriteRecordRow
<1>7. InvalidationsDone' /\ StaleOnlyByOthers'
  BY <1>1, <1>5 DEF CacheInv, InvalidationsDone, StaleOnlyByOthers
<1> QED BY <1>1, <1>2, <1>4, <1>5, <1>6, <1>7, CommandConsumed

(* The loader of a command is done; the entry that a SET leaves is not     *)
(* older than what its instance has invalidated at Redis.                  *)
LEMMA SetAnswered ==
    ASSUME CacheInv, NEW i \in Instances, wire[i] # << >>, Head(wire[i]).op = "set", Consume(i),
           Settle(Head(wire[i]).of),
           UNCHANGED <<record, invalidationVersion, writes, invalidated>>,
           cacheFaults' \in 0 .. MaxCacheFaults,
           cached' \in {cached, {[value |-> calls[Head(wire[i]).of].value, by |-> i]}}
    PROVE  CacheInv'
<1>1. PICK c \in Calls : /\ c = wire[i][1].of /\ c = Head(wire[i]).of /\ wire[i][1].op = "set"
                         /\ calls[c].at = i /\ calls[c].step = "set"
  BY FirstCommand DEF CallOps
<1>2. \A w \in Versions : Invalidating(w, i) => calls[c].value >= w \/ writes[w].step = "sent"
  BY <1>1, FirstCommand
<1>3. /\ calls' \in [Calls -> CallRow] /\ inFlight' \in [Instances -> Calls \cup {NoCall}]
      /\ \A d \in Calls :
            /\ calls'[d].at = calls[d].at /\ calls'[d].seen = calls[d].seen
            /\ \/ calls'[d] = calls[d] /\ d # c
               \/ calls'[d].step = "done" /\ (d = c \/ calls[d].step = "wait")
            /\ calls'[d].step = "wait" => inFlight'[calls'[d].at] # NoCall
  BY <1>1, SettleEffect
<1>4. ASSUME NEW d \in Calls
      PROVE  /\ calls[d].step \in CallOps => calls'[d] = calls[d] \/ ("set" \in CallOps /\ d = c)
             /\ calls'[d].step # "store" \/ calls'[d] = calls[d]
  BY <1>3 DEF CallOps
<1>5. invalidated[i] \in 0 .. MaxWrites /\ calls[c].value \in 0 .. MaxWrites
  BY CallTyped DEF CacheInv, CacheTypeOK, CallRow
<1>6. calls[c].value >= invalidated[i]
  <2>1. CASE invalidated[i] = 0
    BY <1>5, <2>1, CacheAssumption
  <2>2. CASE invalidated[i] # 0
    <3>1. invalidated[i] \in Versions
      BY <1>5, <2>2, CacheAssumption DEF Versions
    <3>2. writes[invalidated[i]].at = i /\ writes[invalidated[i]].step = "done"
      BY <2>2 DEF CacheInv, InvalidationsDone
    <3> QED BY <1>2, <3>1, <3>2 DEF Invalidating
  <2> QED BY <2>1, <2>2
<1>7. PICK e : e = [value |-> calls[c].value, by |-> i]
  OBVIOUS
<1>8. e \in [value : 0 .. MaxWrites, by : Instances] /\ e.value >= invalidated[i] /\ e.by = i
  BY <1>5, <1>6, <1>7
<1>9. cached' = cached \/ cached' = {e}
  BY <1>1, <1>7
<1>10. StaleOnlyByOthers'
  <2>1. ASSUME NEW j \in Instances, NEW f \in cached', f.value < invalidated[j] PROVE f.by # j
    <3>1. CASE f \in cached
      BY <2>1, <3>1 DEF CacheInv, StaleOnlyByOthers
    <3>2. CASE f = e
      BY <1>5, <1>7, <1>8, <2>1, <3>2, CacheAssumption
    <3> QED BY <1>9, <3>1, <3>2
  <2> QED BY <1>3, <2>1 DEF StaleOnlyByOthers
<1>11. /\ writes' \in [Versions -> WriteRecordRow]
       /\ cached' \subseteq [value : 0 .. MaxWrites, by : Instances]
       /\ invalidated' \in [Instances -> 0 .. MaxWrites]
  BY <1>8, <1>9 DEF CacheInv, CacheTypeOK, WriteRecordRow
<1>12. InvalidationsDone'
  BY DEF CacheInv, InvalidationsDone
<1> QED BY <1>1, <1>3, <1>4, <1>10, <1>11, <1>12, CommandConsumed

(* The writer of a command goes on; if it is answered with nothing left in *)
(* the cache, its invalidation has run.                                    *)
LEMMA WriterAnswered ==
    ASSUME CacheInv, NEW i \in Instances, wire[i] # << >>, NEW w, w = Head(wire[i]).of,
           Head(wire[i]).op \in WriteOps, Consume(i),
           NEW step \in {"found", "done"}, writes' = [writes EXCEPT ![w].step = step],
           UNCHANGED <<record, invalidationVersion, inFlight, calls>>,
           cacheFaults' \in 0 .. MaxCacheFaults,
           \/ invalidated' = invalidated /\ cached' = cached
           \/ /\ invalidated' = [invalidated EXCEPT ![i] = Max({@, w})]
              /\ cached' = {} /\ step = "done"
    PROVE  CacheInv'
<1>1. /\ w = wire[i][1].of /\ w \in Versions /\ wire[i][1].op \in WriteOps
      /\ writes[w].at = i /\ writes[w].step = "sent"
  BY FirstCommand DEF CallOps, WriteOps
<1>2. /\ writes' \in [Versions -> WriteRecordRow]
      /\ writes'[w].at = i /\ writes'[w].step = step
      /\ \A v \in Versions : v # w => writes'[v] = writes[v]
  <2>1. writes \in [Versions -> WriteRecordRow]
    BY DEF CacheInv, CacheTypeOK, WriteRecordRow
  <2>2. PICK r : r = [writes[w] EXCEPT !.step = step]
    OBVIOUS
  <2>3. r \in WriteRecordRow /\ r.at = i /\ r.step = step
    BY <1>1, <2>1, <2>2 DEF WriteRecordRow
  <2>4. writes' = [writes EXCEPT ![w] = r]
    BY <2>2
  <2> QED BY <1>1, <2>1, <2>3, <2>4
<1>0. PICK op : op = wire[i][1].op
  OBVIOUS
<1>3. ASSUME NEW v \in Versions
      PROVE  /\ writes'[v].at = writes[v].at
             /\ \/ writes'[v] = writes[v]
                \/ op \in WriteOps /\ v = w /\ writes'[v].step \in {"found", "done"}
  BY <1>0, <1>1, <1>2
<1>4. PICK m \in {invalidated[i], w} : Max({invalidated[i], w}) = m
  <2>1. invalidated[i] \in Nat /\ w \in Nat
    BY <1>1, CacheAssumption DEF CacheInv, CacheTypeOK, Versions
  <2> QED BY <2>1, MaxOfTwo
<1>5. /\ invalidated' \in [Instances -> 0 .. MaxWrites]
      /\ \A j \in Instances : invalidated'[j] = invalidated[j]
                              \/ (j = i /\ invalidated'[j] = w /\ step = "done")
  <2>1. invalidated \in [Instances -> 0 .. MaxWrites] /\ w \in 0 .. MaxWrites
    BY <1>1, CacheAssumption DEF CacheInv, CacheTypeOK, Versions
  <2>2. CASE invalidated' = invalidated
    BY <2>1, <2>2
  <2>3. CASE step = "done" /\ invalidated' = [invalidated EXCEPT ![i] = Max({@, w})]
    <3>1. invalidated' = [invalidated EXCEPT ![i] = m]
      BY <1>4, <2>3
    <3>2. m \in 0 .. MaxWrites
      BY <1>4, <2>1
    <3> QED BY <1>4, <2>1, <2>3, <3>1, <3>2
  <2> QED BY <2>2, <2>3
<1>6. InvalidationsDone'
  <2> SUFFICES ASSUME NEW j \in Instances, invalidated'[j] # 0
               PROVE  writes'[invalidated'[j]].at = j /\ writes'[invalidated'[j]].step = "done"
    BY DEF InvalidationsDone
  <2>1. CASE j = i /\ invalidated'[j] = w /\ step = "done"
    BY <1>2, <2>1
  <2>2. CASE invalidated'[j] = invalidated[j]
    <3>1. invalidated[j] \in Versions
      BY <2>2, CacheAssumption DEF CacheInv, CacheTypeOK, Versions
    <3>2. writes[invalidated[j]].at = j /\ writes[invalidated[j]].step = "done"
      BY <2>2 DEF CacheInv, InvalidationsDone
    <3>3. invalidated[j] # w
      BY <1>1, <3>2
    <3> QED BY <1>2, <2>2, <3>1, <3>2, <3>3
  <2> QED BY <1>5, <2>1, <2>2
<1>7. StaleOnlyByOthers'
  BY DEF CacheInv, StaleOnlyByOthers
<1>8. /\ cached' \subseteq [value : 0 .. MaxWrites, by : Instances]
      /\ inFlight' \in [Instances -> Calls \cup {NoCall}] /\ calls' \in [Calls -> CallRow]
  BY CallTyped DEF CacheInv, CacheTypeOK
<1>9. ASSUME NEW d \in Calls
      PROVE  /\ calls'[d].at = calls[d].at /\ calls'[d].seen = calls[d].seen
             /\ calls[d].step \in CallOps =>
                   calls'[d] = calls[d] \/ (op \in CallOps /\ d = w)
             /\ calls'[d].step # "store" \/ calls'[d] = calls[d]
  OBVIOUS
<1>10. /\ CacheInv /\ i \in Instances /\ wire[i] # << >> /\ Consume(i)
       /\ record' = record /\ invalidationVersion' = invalidationVersion
       /\ cacheFaults' \in 0 .. MaxCacheFaults
  OBVIOUS
<1> QED BY <1>0, <1>1, <1>2, <1>3, <1>5, <1>6, <1>7, <1>8, <1>9, <1>10, CommandConsumed, SMTT(60)

LEMMA RedisStep ==
    ASSUME CacheInv, NEW i \in Instances, RedisSet(i) \/ RedisDel(i) \/ RedisKeys(i)
    PROVE  CacheInv'
<1>1. cacheFaults' \in 0 .. MaxCacheFaults
  BY CallTyped DEF RedisSet, RedisDel, RedisKeys
<1>2. CASE RedisSet(i)
  BY <1>1, <1>2, SetAnswered DEF RedisSet, HeadIs
<1>3. CASE RedisDel(i) \/ RedisKeys(i)
  <2>1. PICK w : w = Head(wire[i]).of
    OBVIOUS
  <2>2. /\ wire[i] # << >> /\ Head(wire[i]).op \in WriteOps /\ Consume(i)
        /\ UNCHANGED <<record, invalidationVersion, inFlight, calls>>
    BY <1>3 DEF RedisDel, RedisKeys, HeadIs, WriteOps
  <2>3. CASE Invalidated(i, w) /\ cached' = {}
    <3>1. /\ writes' = [writes EXCEPT ![w].step = "done"]
          /\ invalidated' = [invalidated EXCEPT ![i] = Max({@, w})]
      BY <2>3 DEF Invalidated
    <3> QED BY <1>1, <2>1, <2>2, <2>3, <3>1, WriterAnswered
  <2>4. CASE writes' = [writes EXCEPT ![w].step = "found"] /\ UNCHANGED <<invalidated, cached>>
    BY <1>1, <2>1, <2>2, <2>4, WriterAnswered
  <2> QED BY <1>3, <2>1, <2>3, <2>4 DEF RedisDel, RedisKeys
<1> QED BY <1>2, <1>3

LEMMA CommandFailsStep ==
    ASSUME CacheInv, NEW i \in Instances, CommandFails(i)
    PROVE  CacheInv'
<1>1. /\ wire[i] # << >> /\ Consume(i) /\ UNCHANGED <<record, cached, invalidationVersion, invalidated>>
      /\ cacheFaults' \in 0 .. MaxCacheFaults
  BY CallTyped, CacheAssumption DEF CommandFails
<1>2. CASE Head(wire[i]).op = "get"
  <2>1. PICK c \in Calls : /\ c = wire[i][1].of /\ c = Head(wire[i]).of /\ wire[i][1].op = "get"
                           /\ calls[c].step = "get"
    BY <1>1, <1>2, FirstCommand DEF CallOps
  <2>2. /\ calls' = [calls EXCEPT ![c].step = "missed"] /\ inFlight' = inFlight /\ writes' = writes
    BY <1>2, <2>1 DEF CommandFails
  <2>3. calls' \in [Calls -> CallRow]
    BY <2>2, CallTyped DEF CallRow, CallSteps
  <2>4. ASSUME NEW d \in Calls
        PROVE  /\ calls'[d].at = calls[d].at /\ calls'[d].seen = calls[d].seen
               /\ calls[d].step \in CallOps => calls'[d] = calls[d] \/ ("get" \in CallOps /\ d = c)
               /\ calls'[d].step # "store" \/ calls'[d] = calls[d]
               /\ calls'[d].step = "wait" => calls[d].step = "wait"
    BY <2>2, CallTyped DEF CallRow, CallOps
  <2>5. InvalidationsDone' /\ StaleOnlyByOthers'
    BY <1>1, <2>2, <2>4 DEF CacheInv, InvalidationsDone, StaleOnlyByOthers
  <2>6. /\ writes' \in [Versions -> WriteRecordRow] /\ cached' \subseteq [value : 0 .. MaxWrites, by : Instances]
        /\ inFlight' \in [Instances -> Calls \cup {NoCall}] /\ invalidated' \in [Instances -> 0 .. MaxWrites]
    BY <1>1, <2>2 DEF CacheInv, CacheTypeOK, WriteRecordRow
  <2> QED BY <1>1, <2>1, <2>2, <2>3, <2>4, <2>5, <2>6, CommandConsumed
<1>3. CASE Head(wire[i]).op = "set"
  <2>1. Settle(Head(wire[i]).of) /\ writes' = writes
    BY <1>3 DEF CommandFails
  <2> QED BY <1>1, <1>3, <2>1, SetAnswered
<1>4. CASE Head(wire[i]).op \in WriteOps
  <2>1. PICK w : w = Head(wire[i]).of
    OBVIOUS
  <2>2. writes' = [writes EXCEPT ![w].step = "done"] /\ calls' = calls /\ inFlight' = inFlight
    BY <1>4, <2>1 DEF CommandFails, WriteOps
  <2> QED BY <1>1, <1>4, <2>1, <2>2, WriterAnswered
<1> QED BY <1>1, <1>2, <1>3, <1>4, FirstCommand DEF CallOps

(* An instance never leaves an entry older than what it has invalidated,   *)
(* however its loads and invalidations overlap, and no call waits for a    *)
(* loader that is gone.                                                    *)
THEOREM CacheCorrect == CacheSpec => [](CacheTypeOK /\ StaleOnlyByOthers)
<1>1. CacheInit => CacheInv
  <2> SUFFICES ASSUME CacheInit PROVE CacheInv
    OBVIOUS
  <2>1. AnyInstance \in Instances
    BY CacheAssumption DEF AnyInstance
  <2>2. CacheTypeOK
    <3>1. calls \in [Calls -> CallRow]
      BY <2>1, CacheAssumption DEF CacheInit, CallRow, CallSteps
    <3>2. writes \in [Versions -> WriteRecordRow]
      BY <2>1 DEF CacheInit, WriteRecordRow
    <3>3. << >> \in Seq(Commands)
      OBVIOUS
    <3>4. wire \in [Instances -> Seq(Commands)]
      BY <3>3 DEF CacheInit
    <3>5. /\ record \in 0 .. MaxWrites /\ cacheFaults \in 0 .. MaxCacheFaults
          /\ invalidationVersion \in [Instances -> 0 .. MaxWrites]
          /\ invalidated \in [Instances -> 0 .. MaxWrites]
      BY CacheAssumption DEF CacheInit
    <3>6. inFlight \in [Instances -> Calls \cup {NoCall}] /\ cached = {}
      BY DEF CacheInit
    <3> QED BY <3>1, <3>2, <3>4, <3>5, <3>6 DEF CacheTypeOK, CallRow, WriteRecordRow
  <2>3. \A i \in Instances : Len(wire[i]) = 0
    BY DEF CacheInit
  <2>4. WireMatches /\ SetsAreFollowed
    BY <2>3 DEF WireMatches, SetsAreFollowed
  <2>5. \A w \in Versions : \A i : ~Invalidating(w, i)
    BY DEF CacheInit, Invalidating
  <2>6. LoadsAreFresh /\ WrittenSoFar /\ InvalidationsDone
    BY <2>1, <2>5 DEF CacheInit, LoadsAreFresh, WrittenSoFar, InvalidationsDone
  <2>7. InvalidationsCounted
    <3>1. \A i \in Instances : {w \in Versions : Invalidating(w, i)} = {}
      BY <2>5
    <3> QED BY <3>1, FS_EmptySet DEF CacheInit, InvalidationsCounted
  <2>8. StaleOnlyByOthers
    BY DEF CacheInit, StaleOnlyByOthers
  <2> QED BY <2>2, <2>4, <2>6, <2>7, <2>8 DEF CacheInv
<1>2. CacheInv /\ [CacheNext]_cacheVars => CacheInv'
  <2>1. ASSUME CacheInv, CacheNext PROVE CacheInv'
    BY <2>1, CallStep, StoreStep, WriterStep, WriteRecordStep, RedisGetStep, RedisStep,
       CommandFailsStep, RedisExpiresStep DEF CacheNext
  <2>2. ASSUME CacheInv, UNCHANGED cacheVars PROVE CacheInv'
    <3>1. \A w, i : Invalidating(w, i)' <=> Invalidating(w, i)
      BY <2>2 DEF cacheVars, Invalidating
    <3>2. CacheTypeOK' /\ WireMatches'
      BY <2>2 DEF cacheVars, CacheInv, CacheTypeOK, WireMatches
    <3>3. SetsAreFollowed' /\ LoadsAreFresh'
      BY <2>2, <3>1 DEF cacheVars, CacheInv, SetsAreFollowed, LoadsAreFresh
    <3>4. InvalidationsCounted'
      BY <2>2, <3>1 DEF cacheVars, CacheInv, InvalidationsCounted
    <3>5. WrittenSoFar' /\ InvalidationsDone' /\ StaleOnlyByOthers'
      BY <2>2 DEF cacheVars, CacheInv, WrittenSoFar, InvalidationsDone, StaleOnlyByOthers
    <3> QED BY <3>2, <3>3, <3>4, <3>5 DEF CacheInv
  <2> QED BY <2>1, <2>2
<1>3. CacheInv => CacheTypeOK /\ StaleOnlyByOthers
  BY DEF CacheInv
<1> QED BY <1>1, <1>2, <1>3, PTL DEF CacheSpec

-----------------------------------------------------------------------------
(* EventIndexer. *)

PollRow == [page : Seq(Emitted), wrote : BOOLEAN, top : 0 .. MaxLedger, at : 1 .. Len(ContractIds)]
JobRow  == [stage : {"none", "fetch", "delete", "insert"}, contract : Contracts, from : Nat,
            to : Nat, force : BOOLEAN, page : Seq(Emitted), full : BOOLEAN]

IndexerTypes ==
    /\ chain \in [Emitted -> [contract : Contracts, ledger : Ledgers]]
    /\ head \in 0 .. MaxLedger /\ cursor \in 0 .. head
    /\ rows \in [Emitted -> [BOOLEAN -> 0 .. 2]]
    /\ poll \in PollRow /\ Len(poll.page) <= PollLimit
    /\ job \in JobRow /\ Len(job.page) <= BackfillLimit
    /\ job.stage \in {"delete", "insert"} => job.page # << >>
    /\ backfills \in 0 .. MaxBackfills /\ indexerFaults \in 0 .. MaxIndexerFaults
    /\ movers \subseteq Contracts \cup {"backfill"} /\ lost \subseteq Emitted

ChainInOrder == \A d, e \in Emitted : d < e => chain[d].ledger <= chain[e].ledger

(* Only what the chain has shown is stored or on a page. *)
SeenOnly ==
    /\ \A e \in Emitted : Stored(e) => chain[e].ledger <= head
    /\ \A i \in 1 .. Len(job.page) : chain[job.page[i]].ledger <= head
    /\ poll.top <= head

(* The rest of a page is in order, up to the ledger at which it ends. *)
PageInOrder ==
    /\ \A i \in 1 .. Len(poll.page) :
          /\ chain[poll.page[i]].contract = ContractIds[poll.at]
          /\ chain[poll.page[i]].ledger <= poll.top
    /\ \A i, j \in 1 .. Len(poll.page) : i < j => poll.page[i] < poll.page[j]

Found(e) == Stored(e) \/ e \in lost

(* What lies between the cursor and the end of the page is found or still  *)
(* on the page.                                                            *)
PageCovers ==
    \A e \in Emitted :
        /\ poll.page # << >>
        /\ chain[e].contract = ContractIds[poll.at]
        /\ cursor <= chain[e].ledger /\ chain[e].ledger < poll.top
        => Found(e) \/ \E i \in 1 .. Len(poll.page) : poll.page[i] = e

(* While only rows of one contract have moved the cursor, whatever is      *)
(* older than one of its rows that the poller stored is found: after a     *)
(* restart the newest row becomes the cursor.                              *)
RowsCover ==
    \A c \in Contracts : movers \subseteq {c} =>
        \A d, e \in Emitted :
            /\ chain[d].contract = c /\ chain[e].contract = c
            /\ rows[e][FALSE] > 0 /\ chain[d].ledger < chain[e].ledger
            => Found(d)

IndexerInv ==
    /\ IndexerTypes /\ ChainInOrder /\ SeenOnly /\ PageInOrder /\ PageCovers /\ RowsCover
    /\ IndexIsComplete

LEMMA ContractAt ==
    /\ Len(ContractIds) \in Nat \ {0}
    /\ \A i \in 1 .. Len(ContractIds) : ContractIds[i] \in Contracts
    /\ 1 \in 1 .. Len(ContractIds)
BY IndexerAssumption DEF Contracts, Range

LEMMA PollFromTyped ==
    ASSUME NEW n \in 1 .. Len(ContractIds)
    PROVE  PollFrom(n) \in PollRow /\ PollFrom(n).page = << >> /\ PollFrom(n).top = 0
BY IndexerAssumption DEF PollFrom, PollRow

LEMMA NextContractTyped ==
    ASSUME poll \in PollRow
    PROVE  NextContract \in PollRow /\ NextContract.page = << >> /\ NextContract.top = 0
<1>1. PICK n : n = (poll.at % Len(ContractIds)) + 1
  OBVIOUS
<1>2. poll.at \in Nat
  BY DEF PollRow
<1>3. n \in 1 .. Len(ContractIds)
  BY <1>1, <1>2, ContractAt
<1> QED BY <1>1, <1>3, PollFromTyped DEF NextContract

LEMMA NoJobTyped == NoJob \in JobRow /\ NoJob.stage = "none" /\ NoJob.page = << >>
BY ContractAt DEF NoJob, JobRow

(* A page is in order, of the range asked for; what is not on it is later. *)
LEMMA PageOfRange ==
    ASSUME NEW limit \in Nat \ {0}, NEW S \in SUBSET Emitted, NEW page \in FirstPages(S, limit)
    PROVE  /\ page \in Seq(Emitted) /\ Len(page) <= limit
           /\ \A i \in 1 .. Len(page) : page[i] \in S
           /\ \A i, j \in 1 .. Len(page) : i < j => page[i] < page[j]
           /\ \A e \in S : (\E i \in 1 .. Len(page) : page[i] = e)
                           \/ \A i \in 1 .. Len(page) : page[i] < e
<1> DEFINE n == IF Cardinality(S) < limit THEN Cardinality(S) ELSE limit
<1>1. /\ page \in [1 .. n -> S]
      /\ \A i, j \in 1 .. n : i < j => page[i] < page[j]
      /\ \A e \in S \ Range(page), i \in 1 .. n : page[i] < e
  BY DEF FirstPages
<1>2. IsFiniteSet(Emitted)
  <2>1. 1 \in Int /\ NumChainEvents \in Int
    BY IndexerAssumption
  <2> QED BY <2>1, FS_Interval DEF Emitted
<1>3. Cardinality(S) \in Nat
  BY <1>2, FS_Subset, FS_CardinalityType
<1>4. n \in Nat /\ n <= limit
  BY <1>3
<1> HIDE DEF n
<1>5. page \in Seq(Emitted) /\ Len(page) = n
  BY <1>1, <1>4
<1>6. ASSUME NEW e \in S
      PROVE  (\E i \in 1 .. n : page[i] = e) \/ \A i \in 1 .. n : page[i] < e
  BY <1>1 DEF Range
<1> QED BY <1>1, <1>4, <1>5, <1>6

LEMMA InsertedEffect ==
    ASSUME IndexerTypes, NEW e \in Emitted, NEW b \in BOOLEAN, rows' = Inserted(e, b)
    PROVE  /\ rows' \in [Emitted -> [BOOLEAN -> 0 .. 2]]
           /\ Stored(e)'
           /\ \A d \in Emitted : Stored(d)' => Stored(d) \/ d = e
           /\ \A d \in Emitted : Stored(d) => Stored(d)'
           /\ \A d \in Emitted : rows'[d][FALSE] > 0 => rows[d][FALSE] > 0 \/ (d = e /\ ~b)
<1>1. PICK n \in 1 .. 2 : n = IF rows[e][b] = 2 THEN 2 ELSE rows[e][b] + 1
  BY DEF IndexerTypes
<1>2. PICK r : r = [rows[e] EXCEPT ![b] = n]
  OBVIOUS
<1>3. rows[e] \in [BOOLEAN -> 0 .. 2]
  BY DEF IndexerTypes
<1>4. r \in [BOOLEAN -> 0 .. 2] /\ r[b] = n /\ \A c \in BOOLEAN : c # b => r[c] = rows[e][c]
  BY <1>1, <1>2, <1>3
<1>5. rows' = [rows EXCEPT ![e] = r]
  BY <1>1, <1>2 DEF Inserted
<1>6. /\ rows' \in [Emitted -> [BOOLEAN -> 0 .. 2]] /\ rows'[e] = r
      /\ \A d \in Emitted : d # e => rows'[d] = rows[d]
  BY <1>4, <1>5 DEF IndexerTypes
<1>7. Stored(e)'
  BY <1>4, <1>6 DEF Stored
<1>8. ASSUME NEW d \in Emitted PROVE (Stored(d)' => Stored(d) \/ d = e) /\ (Stored(d) => Stored(d)')
  BY <1>6, <1>7 DEF Stored
<1>9. ASSUME NEW d \in Emitted, rows'[d][FALSE] > 0 PROVE rows[d][FALSE] > 0 \/ (d = e /\ ~b)
  BY <1>4, <1>6, <1>9
<1> QED BY <1>6, <1>7, <1>8, <1>9

(* The poller and its cursor rest, and nothing that was found is missed. *)
LEMMA PollerRests ==
    ASSUME IndexerInv, IndexerTypes', SeenOnly', UNCHANGED <<chain, cursor, poll, movers>>,
           \A e \in Emitted : Found(e) => Found(e)',
           \A e \in Emitted : rows'[e][FALSE] > 0 => rows[e][FALSE] > 0
    PROVE  IndexerInv'
<1>1. ChainInOrder' /\ PageInOrder'
  BY DEF IndexerInv, ChainInOrder, PageInOrder
<1>2. PageCovers'
  BY DEF IndexerInv, PageCovers
<1>3. RowsCover'
  BY DEF IndexerInv, RowsCover
<1>4. IndexIsComplete'
  BY DEF IndexerInv, IndexIsComplete, Found
<1> QED BY <1>1, <1>2, <1>3, <1>4 DEF IndexerInv

LEMMA ChainMoves ==
    ASSUME IndexerInv, CloseChainLedger
    PROVE  IndexerInv'
<1>1. IndexerTypes' /\ head <= head'
  BY IndexerAssumption DEF CloseChainLedger, IndexerInv, IndexerTypes
<1>2. \A e \in Emitted : (Stored(e)' <=> Stored(e)) /\ (Found(e)' <=> Found(e))
  BY DEF CloseChainLedger, Stored, Found
<1>3. ASSUME NEW n \in Nat, n <= head PROVE n <= head'
  BY <1>1, <1>3, IndexerAssumption DEF IndexerInv, IndexerTypes
<1>4. /\ \A e \in Emitted : chain[e].ledger \in Nat
      /\ \A i \in 1 .. Len(job.page) : chain[job.page[i]].ledger \in Nat
      /\ poll.top \in Nat
  BY DEF IndexerInv, IndexerTypes, Ledgers, PollRow, JobRow
<1>5. SeenOnly'
  BY <1>2, <1>3, <1>4 DEF CloseChainLedger, IndexerInv, SeenOnly
<1> QED BY <1>1, <1>2, <1>5, PollerRests DEF CloseChainLedger

LEMMA StartBackfillStep ==
    ASSUME IndexerInv, NEW c \in Contracts, NEW from \in Nat, NEW to \in Nat, NEW force \in BOOLEAN,
           StartBackfill(c, from, to, force)
    PROVE  IndexerInv'
<1>1. PICK r : r = [NoJob EXCEPT !.stage = "fetch", !.contract = c, !.from = from,
                                 !.to = to, !.force = force]
  OBVIOUS
<1>2. r \in JobRow /\ r.page = << >> /\ r.stage = "fetch"
  BY <1>1, NoJobTyped DEF JobRow, NoJob
<1>3. /\ job' = r
      /\ UNCHANGED <<chain, head, rows, cursor, poll, indexerFaults, movers, lost>>
  BY <1>1 DEF StartBackfill
<1>4. backfills' \in 0 .. MaxBackfills
  BY IndexerAssumption DEF StartBackfill, IndexerInv, IndexerTypes
<1>5. IndexerTypes'
  <2>1. Len(job'.page) = 0 /\ Len(job'.page) <= BackfillLimit
    BY <1>2, <1>3, IndexerAssumption
  <2> QED BY <1>2, <1>3, <1>4, <2>1 DEF IndexerInv, IndexerTypes
<1>6. \A e \in Emitted : (Stored(e)' <=> Stored(e)) /\ (Found(e)' <=> Found(e))
  BY <1>3 DEF Stored, Found
<1>7. SeenOnly'
  <2>1. Len(job'.page) = 0
    BY <1>2, <1>3
  <2> QED BY <1>3, <1>6, <2>1 DEF IndexerInv, SeenOnly
<1> QED BY <1>3, <1>5, <1>6, <1>7, PollerRests

LEMMA BackfillFetchStep ==
    ASSUME IndexerInv, BackfillFetch
    PROVE  IndexerInv'
<1>1. PICK page \in {<<>>} \cup EventPages(job.contract, job.from, job.to, BackfillLimit) :
          job' = IF page = <<>> THEN NoJob
                 ELSE [job EXCEPT !.page = page, !.full = Len(page) >= BackfillLimit,
                                  !.stage = IF job.force THEN "delete" ELSE "insert"]
  BY DEF BackfillFetch
<1>2. UNCHANGED <<chain, head, rows, cursor, poll, backfills, indexerFaults, movers, lost>>
  BY DEF BackfillFetch
<1>3. \A e \in Emitted : (Stored(e)' <=> Stored(e)) /\ (Found(e)' <=> Found(e))
  BY <1>2 DEF Stored, Found
<1>4. CASE page = << >>
  <2>1. job' \in JobRow /\ job'.stage = "none" /\ Len(job'.page) = 0 /\ Len(job'.page) <= BackfillLimit
    BY <1>1, <1>4, NoJobTyped, IndexerAssumption
  <2>2. IndexerTypes'
    BY <1>2, <2>1 DEF IndexerInv, IndexerTypes
  <2>3. SeenOnly'
    BY <1>2, <1>3, <2>1 DEF IndexerInv, SeenOnly
  <2> QED BY <1>2, <1>3, <2>2, <2>3, PollerRests
<1>5. CASE page # << >>
  <2>1. PICK S : S = Between(job.contract, job.from, job.to)
    OBVIOUS
  <2>2. S \in SUBSET Emitted /\ \A e \in S : chain[e].ledger <= head
    BY <2>1 DEF Between
  <2>3. page \in FirstPages(S, BackfillLimit)
    BY <1>1, <1>5, <2>1 DEF EventPages
  <2>4. /\ page \in Seq(Emitted) /\ Len(page) <= BackfillLimit
        /\ \A i \in 1 .. Len(page) : page[i] \in S
    BY <2>2, <2>3, PageOfRange, IndexerAssumption
  <2>5. PICK r : r = [job EXCEPT !.page = page, !.full = Len(page) >= BackfillLimit,
                                 !.stage = IF job.force THEN "delete" ELSE "insert"]
    OBVIOUS
  <2>6. (Len(page) >= BackfillLimit) \in BOOLEAN
    OBVIOUS
  <2>7. r \in JobRow /\ r.page = page
    BY <2>4, <2>5, <2>6 DEF JobRow, IndexerInv, IndexerTypes
  <2>8. job' = r
    BY <1>1, <1>5, <2>5
  <2>9. IndexerTypes'
    BY <1>5, <1>2, <2>4, <2>7, <2>8 DEF IndexerInv, IndexerTypes
  <2>10. SeenOnly'
    BY <1>2, <1>3, <2>2, <2>4, <2>7, <2>8 DEF IndexerInv, SeenOnly
  <2> QED BY <1>2, <1>3, <2>9, <2>10, PollerRests
<1> QED BY <1>4, <1>5

LEMMA BackfillDeleteStep ==
    ASSUME IndexerInv, BackfillDelete
    PROVE  IndexerInv'
<1>1. PICK gone : gone = {e \in Emitted : chain[e].contract = job.contract
                                          /\ chain[e].ledger >= job.from}
  OBVIOUS
<1>2. /\ rows' = [e \in Emitted |-> IF e \in gone THEN [b \in BOOLEAN |-> 0] ELSE rows[e]]
      /\ lost' = lost \cup {e \in gone : Stored(e)}
      /\ job.stage = "delete" /\ job' = [job EXCEPT !.stage = "insert"]
      /\ UNCHANGED <<chain, head, cursor, poll, backfills, indexerFaults, movers>>
  BY <1>1 DEF BackfillDelete
<1>3. \A e \in Emitted : rows'[e] = rows[e] \/ (e \in gone /\ rows'[e] = [b \in BOOLEAN |-> 0])
  BY <1>2
<1>4. /\ rows' \in [Emitted -> [BOOLEAN -> 0 .. 2]] /\ lost' \subseteq Emitted
  BY <1>1, <1>2, <1>3 DEF IndexerInv, IndexerTypes
<1>5. job' \in JobRow /\ job'.page = job.page
  BY <1>2 DEF IndexerInv, IndexerTypes, JobRow
<1>6. IndexerTypes'
  BY <1>2, <1>4, <1>5, IndexerAssumption DEF IndexerInv, IndexerTypes
<1>7. ASSUME NEW e \in Emitted
      PROVE  /\ Stored(e)' => Stored(e)
             /\ Found(e) => Found(e)'
             /\ rows'[e][FALSE] > 0 => rows[e][FALSE] > 0
  <2>1. CASE rows'[e] = rows[e]
    BY <1>2, <2>1 DEF Stored, Found
  <2>2. CASE e \in gone /\ rows'[e] = [b \in BOOLEAN |-> 0]
    BY <1>2, <2>2 DEF Stored, Found
  <2> QED BY <1>3, <2>1, <2>2
<1>8. SeenOnly'
  BY <1>2, <1>5, <1>7 DEF IndexerInv, SeenOnly
<1> QED BY <1>2, <1>6, <1>7, <1>8, PollerRests

LEMMA BackfillInsertStep ==
    ASSUME IndexerInv, BackfillInsert
    PROVE  IndexerInv'
<1>1. PICK h : h = Head(job.page)
  OBVIOUS
<1>2. /\ job \in JobRow /\ job.page \in Seq(Emitted) /\ job.page # << >>
      /\ Len(job.page) <= BackfillLimit /\ Len(job.page) \in Nat
  BY DEF BackfillInsert, IndexerInv, IndexerTypes, JobRow
<1>3. /\ h \in Emitted /\ Tail(job.page) \in Seq(Emitted)
      /\ Len(Tail(job.page)) = Len(job.page) - 1 /\ Len(job.page) > 0 /\ h = job.page[1]
      /\ \A i \in 1 .. Len(job.page) - 1 : Tail(job.page)[i] = job.page[i + 1]
  BY <1>1, <1>2
<1>4. /\ job' \in JobRow /\ Len(job'.page) <= BackfillLimit
      /\ job'.stage \in {"delete", "insert"} => job'.page # << >>
      /\ \A i \in 1 .. Len(job'.page) : \E j \in 1 .. Len(job.page) : job'.page[i] = job.page[j]
  <2>1. PICK next : next = chain[h].ledger + 1
    OBVIOUS
  <2>2. next \in Nat
    BY <1>3, <2>1 DEF IndexerInv, IndexerTypes, Ledgers
  <2>3. job' = IF Len(job.page) > 1 THEN [job EXCEPT !.page = Tail(job.page)]
               ELSE IF next > job.to \/ ~job.full THEN NoJob
               ELSE [job EXCEPT !.page = <<>>, !.from = next, !.stage = "fetch"]
    BY <1>1, <2>1 DEF BackfillInsert, EndOfBackfillPage
  <2>4. CASE Len(job.page) > 1
    <3>1. job' = [job EXCEPT !.page = Tail(job.page)]
      BY <2>3, <2>4
    <3>2. job' \in JobRow /\ job'.page = Tail(job.page)
      BY <1>2, <1>3, <3>1 DEF JobRow
    <3>3. Len(job'.page) = Len(job.page) - 1 /\ job'.page # << >>
      BY <1>3, <2>4, <3>2
    <3>4. \A i \in 1 .. Len(job'.page) : i + 1 \in 1 .. Len(job.page) /\ job'.page[i] = job.page[i + 1]
      BY <1>2, <1>3, <3>2, <3>3
    <3>5. Len(job'.page) <= BackfillLimit
      BY <1>2, <3>3, IndexerAssumption
    <3> QED BY <3>2, <3>3, <3>4, <3>5
  <2>5. CASE ~(Len(job.page) > 1) /\ job' = NoJob
    BY <2>5, NoJobTyped, IndexerAssumption
  <2>6. CASE ~(Len(job.page) > 1) /\ job' = [job EXCEPT !.page = <<>>, !.from = next, !.stage = "fetch"]
    <3>1. << >> \in Seq(Emitted) /\ Len(<< >>) = 0
      OBVIOUS
    <3>2. PICK r : r = [job EXCEPT !.page = <<>>, !.from = next, !.stage = "fetch"]
      OBVIOUS
    <3>3. r \in JobRow /\ r.page = << >> /\ r.stage = "fetch"
      BY <1>2, <2>2, <3>1, <3>2 DEF JobRow
    <3> QED BY <2>6, <3>1, <3>2, <3>3, IndexerAssumption
  <2> QED BY <2>3, <2>4, <2>5, <2>6
<1>5. /\ UNCHANGED <<chain, head, cursor, poll, backfills, movers>>
      /\ \/ /\ rows' = Inserted(h, TRUE) /\ lost' = lost \ {h} /\ indexerFaults' = indexerFaults
         \/ IndexerFault /\ UNCHANGED <<rows, lost>>
  BY <1>1 DEF BackfillInsert
<1>6. /\ rows' \in [Emitted -> [BOOLEAN -> 0 .. 2]] /\ lost' \subseteq Emitted
      /\ indexerFaults' \in 0 .. MaxIndexerFaults
      /\ \A e \in Emitted : /\ Stored(e)' => Stored(e) \/ e = h
                            /\ Found(e) => Found(e)'
                            /\ rows'[e][FALSE] > 0 => rows[e][FALSE] > 0
  <2>1. CASE rows' = Inserted(h, TRUE) /\ lost' = lost \ {h} /\ indexerFaults' = indexerFaults
    <3>1. IndexerTypes
      BY DEF IndexerInv
    <3>2. /\ rows' \in [Emitted -> [BOOLEAN -> 0 .. 2]]
          /\ Stored(h)'
          /\ \A d \in Emitted : Stored(d)' => Stored(d) \/ d = h
          /\ \A d \in Emitted : Stored(d) => Stored(d)'
          /\ \A d \in Emitted : rows'[d][FALSE] > 0 => rows[d][FALSE] > 0 \/ (d = h /\ ~TRUE)
      BY <1>3, <2>1, <3>1, InsertedEffect
    <3>3. \A d \in Emitted : Found(d) => Found(d)'
      BY <2>1, <3>2 DEF Found
    <3> QED BY <2>1, <3>1, <3>2, <3>3 DEF IndexerTypes
  <2>2. CASE IndexerFault /\ UNCHANGED <<rows, lost>>
    <3>1. \A e \in Emitted : (Stored(e)' <=> Stored(e)) /\ (Found(e)' <=> Found(e))
      BY <2>2 DEF Stored, Found
    <3>2. indexerFaults' \in 0 .. MaxIndexerFaults
      BY <2>2, IndexerAssumption DEF IndexerFault, IndexerInv, IndexerTypes
    <3> QED BY <2>2, <3>1, <3>2 DEF IndexerInv, IndexerTypes
  <2> QED BY <1>5, <2>1, <2>2
<1>7. IndexerTypes'
  BY <1>4, <1>5, <1>6 DEF IndexerInv, IndexerTypes
<1>8. SeenOnly'
  <2>1. chain[h].ledger <= head
    BY <1>2, <1>3 DEF IndexerInv, SeenOnly
  <2> QED BY <1>4, <1>5, <1>6, <2>1 DEF IndexerInv, SeenOnly
<1> QED BY <1>5, <1>6, <1>7, <1>8, PollerRests

(* An event that the RPC gave is stored, or not; when the page ends, the   *)
(* cursor moves.                                                           *)
LEMMA EndOfPageStep ==
    ASSUME IndexerInv, poll.page # << >>, NEW wrote \in BOOLEAN, EndOfPage(wrote),
           NEW h, h = Head(poll.page),
           UNCHANGED <<chain, head, job, backfills>>,
           rows' \in [Emitted -> [BOOLEAN -> 0 .. 2]], lost' \subseteq Emitted,
           indexerFaults' \in 0 .. MaxIndexerFaults,
           \A e \in Emitted : /\ Stored(e)' => Stored(e) \/ e = h
                              /\ Found(e) => Found(e)'
                              /\ rows'[e][FALSE] > 0 => rows[e][FALSE] > 0 \/ e = h,
           Found(h)'
    PROVE  IndexerInv'
<1>1. /\ poll \in PollRow /\ poll.page \in Seq(Emitted) /\ poll.top \in 0 .. head
      /\ Len(poll.page) <= PollLimit /\ Len(poll.page) \in Nat /\ poll.at \in 1 .. Len(ContractIds)
      /\ cursor \in 0 .. head /\ head \in 0 .. MaxLedger /\ MaxLedger \in Nat /\ PollLimit \in Nat
  <2>1. poll \in PollRow /\ poll.top <= head /\ head \in 0 .. MaxLedger /\ cursor \in 0 .. head
    BY DEF IndexerInv, IndexerTypes, SeenOnly
  <2>2. poll.top \in Nat /\ poll.page \in Seq(Emitted) /\ poll.at \in 1 .. Len(ContractIds)
    BY <2>1, IndexerAssumption DEF PollRow
  <2> QED BY <2>1, <2>2, IndexerAssumption DEF IndexerInv, IndexerTypes
<1>2. /\ h \in Emitted /\ Tail(poll.page) \in Seq(Emitted) /\ Len(poll.page) > 0
      /\ Len(Tail(poll.page)) = Len(poll.page) - 1 /\ h = poll.page[1]
      /\ \A i \in 1 .. Len(poll.page) - 1 : Tail(poll.page)[i] = poll.page[i + 1]
  BY <1>1
<1>3. \A e \in Emitted : chain'[e] = chain[e] /\ chain[e].ledger \in Nat
  BY DEF IndexerInv, IndexerTypes, Ledgers
<1>4. PICK k \in Contracts : k = ContractIds[poll.at]
  BY <1>1, ContractAt
<1>5. chain[h].contract = k /\ chain[h].ledger <= poll.top
  BY <1>1, <1>2, <1>4 DEF IndexerInv, PageInOrder
<1>6. ASSUME NEW e \in Emitted, chain[e].contract = k, cursor <= chain[e].ledger,
             chain[e].ledger < poll.top
      PROVE  Found(e)' \/ \E i \in 1 .. Len(poll.page) : i > 1 /\ poll.page[i] = e
  <2>1. Found(e) \/ \E i \in 1 .. Len(poll.page) : poll.page[i] = e
    BY <1>4, <1>6 DEF IndexerInv, PageCovers
  <2>2. ASSUME NEW i \in 1 .. Len(poll.page), poll.page[i] = e
        PROVE  Found(e)' \/ \E j \in 1 .. Len(poll.page) : j > 1 /\ poll.page[j] = e
    <3>1. CASE i = 1
      <4>1. e = h
        BY <1>2, <2>2, <3>1
      <4> QED BY <4>1
    <3>2. CASE i > 1
      BY <2>2, <3>2
    <3>3. i = 1 \/ i > 1
      BY <1>1
    <3> QED BY <3>1, <3>2, <3>3
  <2>3. Found(e) => Found(e)'
    OBVIOUS
  <2> QED BY <2>1, <2>2, <2>3
<1>7. movers \subseteq movers'
  BY DEF EndOfPage
<1>8. RowsCover'
  <2> SUFFICES ASSUME NEW c \in Contracts, movers \subseteq {c}, NEW d \in Emitted, NEW e \in Emitted,
                      chain[d].contract = c, chain[e].contract = c, rows'[e][FALSE] > 0,
                      chain[d].ledger < chain[e].ledger
               PROVE  Found(d)'
    BY <1>3, <1>7 DEF RowsCover
  <2>1. CASE rows[e][FALSE] > 0
    BY <2>1 DEF IndexerInv, RowsCover
  <2>2. CASE e = h
    <3>1. c = k
      BY <1>5, <2>2
    <3>2. CASE chain[d].ledger < cursor
      <4>1. Found(d)
        BY <3>2 DEF IndexerInv, IndexIsComplete, Found
      <4> QED BY <4>1
    <3>3. CASE cursor <= chain[d].ledger
      <4>1. chain[d].ledger < poll.top
        BY <1>1, <1>3, <1>5, <2>2
      <4>2. ASSUME NEW i \in 1 .. Len(poll.page), i > 1, poll.page[i] = d PROVE FALSE
        <5>1. h < d
          BY <1>1, <1>2, <4>2 DEF IndexerInv, PageInOrder
        <5>2. chain[h].ledger <= chain[d].ledger
          BY <1>2, <5>1 DEF IndexerInv, ChainInOrder
        <5> QED BY <1>1, <1>2, <1>3, <2>2, <5>2
      <4> QED BY <1>6, <3>1, <3>3, <4>1, <4>2
    <3>4. cursor \in Nat /\ chain[d].ledger \in Nat
      BY <1>1, <1>3
    <3> QED BY <3>2, <3>3, <3>4
  <2> QED BY <2>1, <2>2
<1>9. ChainInOrder'
  BY DEF IndexerInv, ChainInOrder
<1>10. \A e \in Emitted : Stored(e)' => chain'[e].ledger <= head'
  <2>1. chain[h].ledger <= head
    BY <1>1, <1>2, <1>3, <1>5
  <2> QED BY <1>3, <2>1 DEF IndexerInv, SeenOnly
<1>11. \A i \in 1 .. Len(job'.page) : chain'[job'.page[i]].ledger <= head'
  BY DEF IndexerInv, SeenOnly
<1>12. CASE Len(poll.page) > 1
  <2>1. /\ poll' = [poll EXCEPT !.page = Tail(poll.page), !.wrote = wrote]
        /\ UNCHANGED <<cursor, movers>>
    BY <1>12 DEF EndOfPage
  <2>2. PICK r : r = [poll EXCEPT !.page = Tail(poll.page), !.wrote = wrote]
    OBVIOUS
  <2>3. r \in PollRow /\ r.page = Tail(poll.page) /\ r.top = poll.top /\ r.at = poll.at
    BY <1>1, <1>2, <2>2 DEF PollRow
  <2>4. poll' = r
    BY <2>1, <2>2
  <2>5. Len(poll'.page) = Len(poll.page) - 1 /\ Len(poll'.page) <= PollLimit
    <3>1. poll'.page = Tail(poll.page)
      BY <2>3, <2>4
    <3>2. PICK m \in Nat : m = Len(poll.page)
      BY <1>1
    <3>3. Len(poll'.page) = m - 1 /\ m - 1 <= PollLimit
      BY <1>1, <1>2, <3>1, <3>2
    <3> QED BY <3>2, <3>3
  <2>6. \A i \in 1 .. Len(poll'.page) : i + 1 \in 1 .. Len(poll.page) /\ poll'.page[i] = poll.page[i + 1]
    <3>1. poll'.page = Tail(poll.page)
      BY <2>3, <2>4
    <3>2. PICK m \in Nat : m = Len(poll.page)
      BY <1>1
    <3>3. Len(poll'.page) = m - 1
      BY <2>5, <3>2
    <3>4. ASSUME NEW i \in 1 .. Len(poll'.page) PROVE i \in 1 .. m - 1 /\ i + 1 \in 1 .. m
      BY <3>2, <3>3
    <3>5. \A i \in 1 .. m - 1 : Tail(poll.page)[i] = poll.page[i + 1]
      BY <1>2, <3>2
    <3> QED BY <3>1, <3>2, <3>4, <3>5
  <2>7. IndexerTypes'
    BY <2>1, <2>3, <2>4, <2>5 DEF IndexerInv, IndexerTypes
  <2>8. SeenOnly'
    BY <1>1, <1>10, <1>11, <2>3, <2>4 DEF SeenOnly
  <2>9. PageInOrder'
    <3>1. ASSUME NEW i \in 1 .. Len(poll'.page)
          PROVE  chain[poll'.page[i]].contract = ContractIds[poll'.at]
                 /\ chain[poll'.page[i]].ledger <= poll'.top
      BY <2>3, <2>4, <2>6 DEF IndexerInv, PageInOrder
    <3>2. ASSUME NEW i \in 1 .. Len(poll'.page), NEW j \in 1 .. Len(poll'.page), i < j
          PROVE  poll'.page[i] < poll'.page[j]
      <4>1. i + 1 < j + 1 /\ poll.page[i + 1] < poll.page[j + 1]
        BY <2>6, <3>2 DEF IndexerInv, PageInOrder
      <4> QED BY <2>6, <4>1
    <3> QED BY <3>1, <3>2 DEF PageInOrder
  <2>10. PageCovers'
    <3> SUFFICES ASSUME NEW e \in Emitted, chain[e].contract = k, cursor <= chain[e].ledger,
                        chain[e].ledger < poll.top
                 PROVE  Found(e)' \/ \E i \in 1 .. Len(poll'.page) : poll'.page[i] = e
      BY <1>3, <1>4, <2>1, <2>3, <2>4 DEF PageCovers
    <3>1. ASSUME NEW i \in 1 .. Len(poll.page), i > 1, poll.page[i] = e
          PROVE  \E j \in 1 .. Len(poll'.page) : poll'.page[j] = e
      <4>1. i - 1 \in 1 .. Len(poll'.page) /\ (i - 1) + 1 = i
        BY <1>1, <2>5, <3>1
      <4>2. poll'.page[i - 1] = poll.page[i]
        BY <2>6, <4>1
      <4> QED BY <3>1, <4>1, <4>2
    <3> QED BY <1>6, <3>1
  <2>11. IndexIsComplete'
    BY <2>1 DEF IndexerInv, IndexIsComplete, Found
  <2> QED BY <1>8, <1>9, <2>7, <2>8, <2>9, <2>10, <2>11 DEF IndexerInv
<1>13. CASE ~(Len(poll.page) > 1)
  <2>1. /\ poll' = NextContract
        /\ cursor' = IF wrote THEN poll.top ELSE cursor
        /\ movers' = IF wrote /\ poll.top > cursor
                     THEN movers \cup {ContractIds[poll.at]} ELSE movers
    BY <1>13 DEF EndOfPage
  <2>2. poll' \in PollRow /\ Len(poll'.page) = 0 /\ poll'.page = << >> /\ poll'.top = 0
    BY <1>1, <2>1, NextContractTyped
  <2>3. cursor' \in 0 .. head
    BY <1>1, <2>1
  <2>4. movers' \subseteq Contracts \cup {"backfill"}
    BY <1>4, <2>1 DEF IndexerInv, IndexerTypes
  <2>5. IndexerTypes'
    BY <1>1, <2>2, <2>3, <2>4 DEF IndexerInv, IndexerTypes
  <2>6. SeenOnly'
    BY <1>1, <1>10, <1>11, <2>2 DEF SeenOnly
  <2>7. PageInOrder' /\ PageCovers'
    BY <2>2 DEF PageInOrder, PageCovers
  <2>8. IndexIsComplete'
    <3> SUFFICES ASSUME NEW c \in Contracts, movers' \subseteq {c}, NEW e \in Emitted,
                        chain[e].contract = c, chain[e].ledger < cursor'
                 PROVE  Found(e)'
      BY <1>3 DEF IndexIsComplete, Found
    <3>1. CASE chain[e].ledger < cursor
      <4>1. Found(e)
        BY <1>7, <3>1 DEF IndexerInv, IndexIsComplete, Found
      <4> QED BY <4>1
    <3>2. CASE cursor <= chain[e].ledger
      <4>1. wrote /\ cursor' = poll.top /\ poll.top > cursor
        BY <1>1, <1>3, <2>1, <3>2
      <4>2. c = k
        BY <1>4, <2>1, <4>1
      <4>3. \A i \in 1 .. Len(poll.page) : ~(i > 1)
        BY <1>1, <1>13
      <4> QED BY <1>6, <3>2, <4>1, <4>2, <4>3
    <3>3. cursor \in Nat /\ chain[e].ledger \in Nat
      BY <1>1, <1>3
    <3> QED BY <3>1, <3>2, <3>3
  <2> QED BY <1>8, <1>9, <2>5, <2>6, <2>7, <2>8 DEF IndexerInv
<1> QED BY <1>12, <1>13

LEMMA PollInsertStep ==
    ASSUME IndexerInv, PollInsert \/ PollInsertFails
    PROVE  IndexerInv'
<1>1. PICK h : h = Head(poll.page)
  OBVIOUS
<1>2. /\ poll.page # << >> /\ h \in Emitted /\ IndexerTypes
      /\ UNCHANGED <<chain, head, job, backfills>>
  <2>1. poll.page # << >> /\ UNCHANGED <<chain, head, job, backfills>>
    BY DEF PollInsert, PollInsertFails
  <2>2. poll.page \in Seq(Emitted) /\ IndexerTypes
    BY DEF IndexerInv, IndexerTypes, PollRow
  <2>3. h \in Emitted
    BY <1>1, <2>1, <2>2
  <2> QED BY <2>1, <2>2, <2>3
<1>3. CASE PollInsert
  <2>1. EndOfPage(TRUE) /\ rows' = Inserted(h, FALSE) /\ lost' = lost \ {h}
        /\ indexerFaults' = indexerFaults
    BY <1>1, <1>3 DEF PollInsert
  <2>2. /\ rows' \in [Emitted -> [BOOLEAN -> 0 .. 2]]
        /\ Stored(h)'
        /\ \A d \in Emitted : Stored(d)' => Stored(d) \/ d = h
        /\ \A d \in Emitted : Stored(d) => Stored(d)'
        /\ \A d \in Emitted : rows'[d][FALSE] > 0 => rows[d][FALSE] > 0 \/ (d = h /\ ~FALSE)
    BY <1>2, <2>1, InsertedEffect
  <2>3. (\A d \in Emitted : Found(d) => Found(d)') /\ Found(h)'
    BY <2>1, <2>2 DEF Found
  <2>4. lost' \subseteq Emitted /\ indexerFaults' \in 0 .. MaxIndexerFaults
    BY <1>2, <2>1 DEF IndexerTypes
  <2> QED BY <1>1, <1>2, <2>1, <2>2, <2>3, <2>4, EndOfPageStep
<1>4. CASE PollInsertFails
  <2>1. /\ EndOfPage(poll.wrote) /\ rows' = rows /\ indexerFaults' = indexerFaults + 1
        /\ indexerFaults < MaxIndexerFaults
        /\ lost' = IF Stored(h) THEN lost ELSE lost \cup {h}
    BY <1>1, <1>4 DEF PollInsertFails, IndexerFault
  <2>2. PICK wrote \in BOOLEAN : wrote = poll.wrote
    BY <1>2 DEF IndexerTypes, PollRow
  <2>3. /\ lost' \subseteq Emitted /\ rows' \in [Emitted -> [BOOLEAN -> 0 .. 2]]
    BY <1>2, <2>1 DEF IndexerTypes
  <2>4. indexerFaults' \in 0 .. MaxIndexerFaults
    BY <1>2, <2>1, IndexerAssumption DEF IndexerTypes
  <2>5. \A e \in Emitted : Stored(e)' <=> Stored(e)
    BY <2>1 DEF Stored
  <2>6. (\A d \in Emitted : Found(d) => Found(d)') /\ Found(h)'
    BY <1>2, <2>1, <2>5 DEF Found
  <2> QED BY <1>1, <1>2, <2>1, <2>2, <2>3, <2>4, <2>5, <2>6, EndOfPageStep
<1> QED BY <1>3, <1>4

(* A page that the poller fetched begins at the cursor. *)
LEMMA PollFetchStep ==
    ASSUME IndexerInv, PollFetch
    PROVE  IndexerInv'
<1>1. PICK page \in {<<>>} \cup EventPages(ContractIds[poll.at], cursor, MaxLedger, PollLimit) :
          poll' = IF page = <<>> THEN NextContract
                  ELSE [poll EXCEPT !.page = page, !.top = chain[Last(page)].ledger]
  BY DEF PollFetch
<1>2. UNCHANGED <<chain, head, rows, cursor, job, backfills, indexerFaults, movers, lost>>
  BY DEF PollFetch
<1>3. /\ poll \in PollRow /\ cursor \in 0 .. head /\ head \in 0 .. MaxLedger
      /\ MaxLedger \in Nat /\ PollLimit \in Nat \ {0}
      /\ chain \in [Emitted -> [contract : Contracts, ledger : Ledgers]]
  BY IndexerAssumption DEF IndexerInv, IndexerTypes
<1>4. PICK k : k = ContractIds[poll.at]
  OBVIOUS
<1>5. \A e \in Emitted : (Stored(e)' <=> Stored(e)) /\ (Found(e)' <=> Found(e))
  BY <1>2 DEF Stored, Found
<1>6. ChainInOrder' /\ RowsCover' /\ IndexIsComplete'
  <2>1. ChainInOrder'
    BY <1>2 DEF IndexerInv, ChainInOrder
  <2>2. RowsCover'
    BY <1>2, <1>5 DEF IndexerInv, RowsCover
  <2>3. IndexIsComplete'
    BY <1>2, <1>5 DEF IndexerInv, IndexIsComplete
  <2> QED BY <2>1, <2>2, <2>3
<1>7. ASSUME poll' \in PollRow, Len(poll'.page) <= PollLimit PROVE IndexerTypes'
  BY <1>2, <1>7 DEF IndexerInv, IndexerTypes
<1>8. ASSUME poll'.top <= head PROVE SeenOnly'
  BY <1>2, <1>5, <1>8 DEF IndexerInv, SeenOnly
<1>9. CASE page = << >>
  <2>1. poll' \in PollRow /\ poll'.page = << >> /\ poll'.top = 0 /\ Len(poll'.page) = 0
    BY <1>1, <1>3, <1>9, NextContractTyped
  <2>2. IndexerTypes' /\ SeenOnly'
    BY <1>3, <1>7, <1>8, <2>1
  <2>3. PageInOrder' /\ PageCovers'
    BY <2>1 DEF PageInOrder, PageCovers
  <2> QED BY <1>6, <2>2, <2>3 DEF IndexerInv
<1>10. CASE page # << >>
  <2>1. PICK S : S = Between(k, cursor, MaxLedger)
    OBVIOUS
  <2>2. S \in SUBSET Emitted /\ page \in FirstPages(S, PollLimit)
    BY <1>1, <1>4, <1>10, <2>1 DEF EventPages, Between
  <2>3. /\ page \in Seq(Emitted) /\ Len(page) <= PollLimit
        /\ \A i \in 1 .. Len(page) : page[i] \in S
        /\ \A i, j \in 1 .. Len(page) : i < j => page[i] < page[j]
        /\ \A e \in S : (\E i \in 1 .. Len(page) : page[i] = e)
                        \/ \A i \in 1 .. Len(page) : page[i] < e
    BY <1>3, <2>2, PageOfRange
  <2>4. \A e \in S : /\ e \in Emitted /\ chain[e].contract = k
                     /\ chain[e].ledger \in cursor .. MaxLedger /\ chain[e].ledger <= head
    BY <2>1 DEF Between
  <2>5. ASSUME NEW e \in Emitted, chain[e].contract = k, cursor <= chain[e].ledger, chain[e].ledger <= head
        PROVE  e \in S
    <3>1. chain[e].ledger \in 1 .. MaxLedger
      BY <1>3 DEF Ledgers
    <3>2. chain[e].ledger \in cursor .. MaxLedger
      BY <1>3, <2>5, <3>1
    <3> QED BY <2>1, <2>5, <3>2 DEF Between
  <2>6. PICK m : m = Len(page)
    OBVIOUS
  <2>7. m \in Nat /\ m > 0 /\ m \in 1 .. m
    BY <1>10, <2>3, <2>6
  <2>8. PICK z : z = page[m]
    OBVIOUS
  <2>9. z \in S /\ Last(page) = z
    BY <2>3, <2>6, <2>7, <2>8 DEF Last
  <2>10. PICK top : top = chain[z].ledger
    OBVIOUS
  <2>11. top \in 0 .. MaxLedger /\ top <= head /\ top \in Nat
    BY <1>3, <2>4, <2>9, <2>10 DEF Ledgers
  <2>12. poll' = [poll EXCEPT !.page = page, !.top = top]
    BY <1>1, <1>10, <2>9, <2>10
  <2>13. poll' \in PollRow /\ poll'.page = page /\ poll'.top = top /\ poll'.at = poll.at
    BY <1>3, <2>3, <2>11, <2>12 DEF PollRow
  <2>14. IndexerTypes' /\ SeenOnly'
    BY <1>7, <1>8, <2>3, <2>11, <2>13
  <2>15. ASSUME NEW i \in 1 .. Len(page) PROVE chain[page[i]].contract = k /\ chain[page[i]].ledger <= top
    <3>1. page[i] \in Emitted /\ z \in Emitted /\ chain[page[i]].contract = k
      BY <2>3, <2>4, <2>9, <2>15
    <3>2. i = m \/ i < m
      BY <2>6, <2>7, <2>15
    <3>3. CASE i < m
      <4>1. page[i] < z
        BY <2>3, <2>6, <2>7, <2>8, <2>15, <3>3
      <4> QED BY <2>10, <3>1, <4>1 DEF IndexerInv, ChainInOrder
    <3>4. CASE i = m
      BY <2>8, <2>10, <2>11, <3>1, <3>4
    <3> QED BY <3>1, <3>2, <3>3, <3>4
  <2>16. PageInOrder'
    <3>1. \A i \in 1 .. Len(poll'.page) : /\ chain'[poll'.page[i]].contract = ContractIds[poll'.at]
                                          /\ chain'[poll'.page[i]].ledger <= poll'.top
      BY <1>2, <1>4, <2>13, <2>15
    <3>2. \A i, j \in 1 .. Len(poll'.page) : i < j => poll'.page[i] < poll'.page[j]
      BY <2>3, <2>13
    <3> QED BY <3>1, <3>2 DEF PageInOrder
  <2>17. PageCovers'
    <3>1. ASSUME NEW e \in Emitted, chain[e].contract = k, cursor <= chain[e].ledger,
                 chain[e].ledger < top
          PROVE  \E i \in 1 .. Len(page) : page[i] = e
      <4>1. chain[e].ledger \in Nat /\ head \in Nat
        BY <1>3 DEF Ledgers
      <4>2. e \in S
        BY <2>5, <2>11, <3>1, <4>1
      <4>3. ASSUME z < e PROVE FALSE
        <5>1. chain[z].ledger <= chain[e].ledger
          BY <2>4, <2>9, <4>3 DEF IndexerInv, ChainInOrder
        <5> QED BY <2>10, <2>11, <3>1, <4>1, <5>1
      <4> QED BY <2>3, <2>6, <2>7, <2>8, <4>2, <4>3
    <3> QED BY <1>2, <1>4, <2>13, <3>1 DEF PageCovers
  <2> QED BY <1>6, <2>14, <2>16, <2>17 DEF IndexerInv
<1> QED BY <1>9, <1>10

(* A restart takes the cursor from a newest row, or begins anew. *)
LEMMA RestartStep ==
    ASSUME IndexerInv, RestartIndexer
    PROVE  IndexerInv'
<1>1. /\ poll' = PollFrom(1) /\ job' = NoJob
      /\ UNCHANGED <<chain, head, rows, backfills, lost>>
      /\ indexerFaults < MaxIndexerFaults /\ indexerFaults' = indexerFaults + 1
  BY DEF RestartIndexer, IndexerFault
<1>2. /\ poll' \in PollRow /\ poll'.page = << >> /\ poll'.top = 0 /\ Len(poll'.page) = 0
      /\ job' \in JobRow /\ job'.page = << >> /\ job'.stage = "none" /\ Len(job'.page) = 0
  BY <1>1, ContractAt, PollFromTyped, NoJobTyped
<1>3. /\ head \in 0 .. MaxLedger /\ MaxLedger \in Nat /\ PollLimit \in Nat /\ BackfillLimit \in Nat
      /\ chain \in [Emitted -> [contract : Contracts, ledger : Ledgers]]
      /\ movers \subseteq Contracts \cup {"backfill"}
  BY IndexerAssumption DEF IndexerInv, IndexerTypes
<1>4. \A e \in Emitted : (Stored(e)' <=> Stored(e)) /\ (Found(e)' <=> Found(e))
  BY <1>1 DEF Stored, Found
<1>5. indexerFaults' \in 0 .. MaxIndexerFaults
  BY <1>1, IndexerAssumption DEF IndexerInv, IndexerTypes
<1>6. ChainInOrder' /\ PageInOrder' /\ PageCovers'
  BY <1>1, <1>2 DEF IndexerInv, ChainInOrder, PageInOrder, PageCovers
<1>7. SeenOnly'
  BY <1>1, <1>2, <1>3, <1>4 DEF IndexerInv, SeenOnly
<1>8. ASSUME cursor' \in 0 .. head, movers' \subseteq Contracts \cup {"backfill"} PROVE IndexerTypes'
  BY <1>1, <1>2, <1>3, <1>5, <1>8 DEF IndexerInv, IndexerTypes
<1>9. ASSUME movers \subseteq movers' PROVE RowsCover'
  BY <1>1, <1>4, <1>9 DEF IndexerInv, RowsCover
<1>10. CASE cursor' = 0 /\ UNCHANGED movers
  <2>1. IndexerTypes' /\ RowsCover'
    BY <1>3, <1>8, <1>9, <1>10
  <2>2. \A e \in Emitted : ~(chain'[e].ledger < cursor')
    BY <1>1, <1>3, <1>10 DEF Ledgers
  <2>3. IndexIsComplete'
    BY <2>2 DEF IndexIsComplete
  <2> QED BY <1>6, <1>7, <2>1, <2>3 DEF IndexerInv
<1>11. ASSUME NEW e \in NewestRows, cursor' = chain[e].ledger,
              movers' = movers \cup {chain[d].contract : d \in NewestRows}
                          \cup (IF \E d \in NewestRows : rows[d][TRUE] > 0 THEN {"backfill"} ELSE {})
       PROVE  IndexerInv'
  <2>1. e \in Emitted /\ Stored(e) /\ NewestRows \subseteq Emitted
    BY DEF NewestRows
  <2>2. chain[e].ledger <= head /\ chain[e].ledger \in Nat /\ chain[e].contract \in Contracts
    BY <1>3, <2>1 DEF IndexerInv, SeenOnly, Ledgers
  <2>3. cursor' \in 0 .. head
    BY <1>3, <1>11, <2>2
  <2>4. movers \subseteq movers' /\ chain[e].contract \in movers'
    BY <1>11
  <2>5. {chain[d].contract : d \in NewestRows} \subseteq Contracts
    BY <1>3, <2>1
  <2>6. movers' \subseteq Contracts \cup {"backfill"}
    BY <1>3, <1>11, <2>5
  <2>7. IndexerTypes' /\ RowsCover'
    BY <1>8, <1>9, <2>3, <2>4, <2>6
  <2>8. IndexIsComplete'
    <3> SUFFICES ASSUME NEW c \in Contracts, movers' \subseteq {c}, NEW d \in Emitted,
                        chain[d].contract = c, chain[d].ledger < cursor'
                 PROVE  Found(d)'
      BY <1>1 DEF IndexIsComplete, Found
    <3>1. chain[e].contract = c /\ movers \subseteq {c}
      BY <2>4
    <3>2. "backfill" \notin movers'
      BY IndexerAssumption
    <3>3. ~(rows[e][TRUE] > 0)
      BY <1>11, <3>2
    <3>4. rows[e][FALSE] > 0
      BY <2>1, <3>3 DEF Stored
    <3>5. Found(d)
      BY <1>11, <2>1, <3>1, <3>4 DEF IndexerInv, RowsCover
    <3> QED BY <1>4, <3>5
  <2> QED BY <1>6, <1>7, <2>7, <2>8 DEF IndexerInv
<1>12. CASE ~(cursor' = 0 /\ UNCHANGED movers)
  <2>1. /\ \E e \in NewestRows : cursor' = chain[e].ledger
        /\ movers' = movers \cup {chain[d].contract : d \in NewestRows}
                       \cup (IF \E d \in NewestRows : rows[d][TRUE] > 0 THEN {"backfill"} ELSE {})
    BY <1>12 DEF RestartIndexer
  <2> QED BY <1>11, <2>1
<1> QED BY <1>10, <1>12

LEMMA IndexerInitCorrect == IndexerInit => IndexerInv
<1> SUFFICES ASSUME IndexerInit PROVE IndexerInv
  OBVIOUS
<1>1. /\ poll \in PollRow /\ poll.page = << >> /\ poll.top = 0 /\ Len(poll.page) = 0
      /\ job \in JobRow /\ job.page = << >> /\ job.stage = "none" /\ Len(job.page) = 0
  BY ContractAt, PollFromTyped, NoJobTyped DEF IndexerInit
<1>2. /\ chain \in [Emitted -> [contract : Contracts, ledger : Ledgers]]
      /\ head = 0 /\ cursor = 0 /\ backfills = 0 /\ indexerFaults = 0 /\ movers = {} /\ lost = {}
  BY DEF IndexerInit
<1>3. \A e \in Emitted : rows[e] = [b \in BOOLEAN |-> 0]
  BY DEF IndexerInit
<1>4. rows \in [Emitted -> [BOOLEAN -> 0 .. 2]]
  BY <1>3 DEF IndexerInit
<1>5. ASSUME NEW e \in Emitted PROVE ~Stored(e) /\ ~(rows[e][FALSE] > 0)
  <2>1. ASSUME NEW b \in BOOLEAN PROVE rows[e][b] = 0
    BY <1>3, <1>5
  <2>2. ASSUME NEW b \in BOOLEAN PROVE ~(rows[e][b] > 0)
    BY <2>1, <2>2
  <2> QED BY <2>2 DEF Stored
<1>6. IndexerTypes
  BY <1>1, <1>2, <1>4, IndexerAssumption DEF IndexerTypes
<1>7. ChainInOrder
  BY DEF IndexerInit, ChainInOrder
<1>8. SeenOnly /\ PageInOrder /\ PageCovers /\ RowsCover
  <2>1. \A i \in 1 .. 0 : FALSE
    OBVIOUS
  <2>4. SeenOnly
    <3>1. \A e \in Emitted : Stored(e) => chain[e].ledger <= head
      BY <1>5
    <3>2. \A i \in 1 .. Len(job.page) : chain[job.page[i]].ledger <= head
      BY <1>1, <2>1
    <3>3. poll.top <= head
      BY <1>1, <1>2
    <3> QED BY <3>1, <3>2, <3>3 DEF SeenOnly
  <2>5. PageInOrder
    BY <1>1, <2>1 DEF PageInOrder
  <2>2. PageCovers
    BY <1>1 DEF PageCovers
  <2>3. RowsCover
    BY <1>5 DEF RowsCover
  <2> QED BY <2>2, <2>3, <2>4, <2>5
<1>9. \A e \in Emitted : ~(chain[e].ledger < cursor)
  BY <1>2 DEF Ledgers
<1>10. IndexIsComplete
  BY <1>9 DEF IndexIsComplete
<1> QED BY <1>6, <1>7, <1>8, <1>10 DEF IndexerInv

LEMMA IndexerStepCorrect == IndexerInv /\ [IndexerNext]_indexerVars => IndexerInv'
<1> SUFFICES ASSUME IndexerInv, [IndexerNext]_indexerVars PROVE IndexerInv'
  OBVIOUS
<1>1. CASE CloseChainLedger
  BY <1>1, ChainMoves
<1>2. CASE PollFetch
  BY <1>2, PollFetchStep
<1>3. CASE PollInsert \/ PollInsertFails
  BY <1>3, PollInsertStep
<1>4. CASE RestartIndexer
  BY <1>4, RestartStep
<1>5. ASSUME NEW c \in Contracts, NEW from \in Ledgers, NEW to \in {MaxLedger - 1, Latest},
             NEW force \in BOOLEAN, StartBackfill(c, from, to, force)
      PROVE  IndexerInv'
  <2>1. from \in Nat /\ to \in Nat
    BY <1>5, IndexerAssumption DEF Ledgers, Latest
  <2> QED BY <1>5, <2>1, StartBackfillStep
<1>6. CASE BackfillFetch
  BY <1>6, BackfillFetchStep
<1>7. CASE BackfillDelete
  BY <1>7, BackfillDeleteStep
<1>8. CASE BackfillInsert
  BY <1>8, BackfillInsertStep
<1>9. CASE UNCHANGED indexerVars
  <2>1. UNCHANGED <<chain, head, cursor, poll, movers, rows, lost, job, backfills, indexerFaults>>
    BY <1>9 DEF indexerVars
  <2>2. \A e \in Emitted : (Stored(e)' <=> Stored(e)) /\ (Found(e)' <=> Found(e))
    BY <2>1 DEF Stored, Found
  <2>3. IndexerTypes' /\ SeenOnly'
    BY <2>1, <2>2 DEF IndexerInv, IndexerTypes, SeenOnly
  <2>4. \A e \in Emitted : rows'[e][FALSE] > 0 => rows[e][FALSE] > 0
    BY <2>1
  <2> QED BY <2>1, <2>2, <2>3, <2>4, PollerRests
<1> QED BY <1>1, <1>2, <1>3, <1>4, <1>5, <1>6, <1>7, <1>8, <1>9 DEF IndexerNext

(* fetchEventsFromRpc, the poller, restoreCursor and the backfills keep    *)
(* the types and, behind a cursor that only one contract's rows moved, an  *)
(* index of that contract without gaps, whatever fails.                    *)
THEOREM IndexCorrect == IndexerSpec => [](IndexerTypeOK /\ IndexIsComplete)
<1>1. IndexerInv => IndexerTypeOK
  <2> SUFFICES ASSUME IndexerInv PROVE IndexerTypeOK
    OBVIOUS
  <2>1. Range(poll.page) \subseteq Emitted /\ Range(job.page) \subseteq Emitted
    BY DEF IndexerInv, IndexerTypes, PollRow, JobRow, Range
  <2> QED BY <2>1 DEF IndexerInv, IndexerTypes, PollRow, JobRow, IndexerTypeOK
<1> QED BY <1>1, IndexerInitCorrect, IndexerStepCorrect, PTL DEF IndexerSpec, IndexerInv

-----------------------------------------------------------------------------
(* Streaks. *)

(* A bounded set of natural numbers has a greatest element. *)
LEMMA GreatestNumber ==
    ASSUME NEW N \in Nat, NEW T \in SUBSET (0 .. N), T # {}
    PROVE  Max(T) \in T /\ \A n \in T : n <= Max(T)
<1> DEFINE U == {N - n : n \in T}
<1>1. U \in SUBSET Nat /\ U # {}
  <2>1. \A n \in T : n \in 0 .. N
    OBVIOUS
  <2>2. ASSUME NEW n \in 0 .. N PROVE N - n \in Nat
    OBVIOUS
  <2> QED BY <2>1, <2>2
<1>2. PICK u \in U : \A n \in U : u <= n
  BY <1>1, LeastNumber
<1>3. PICK m \in T : u = N - m
  OBVIOUS
<1>4. ASSUME NEW n \in T PROVE m >= n
  <2>1. N - n \in U
    OBVIOUS
  <2>2. u <= N - n /\ n \in 0 .. N /\ m \in 0 .. N
    BY <1>2, <2>1
  <2> QED BY <1>3, <2>2
<1>5. \E x \in T : \A y \in T : x >= y
  BY <1>4
<1>6. Max(T) \in T /\ \A y \in T : Max(T) >= y
  BY <1>5 DEF Max
<1> QED BY <1>6

(* The greater of two numbers. *)
LEMMA GreaterOfTwo ==
    ASSUME NEW a \in Nat, NEW b \in Nat
    PROVE  /\ Max({a, b}) \in {a, b} /\ Max({a, b}) \in Nat
           /\ a <= Max({a, b}) /\ b <= Max({a, b})
<1>1. PICK N \in Nat : a <= N /\ b <= N
  <2>1. CASE a <= b
    BY <2>1
  <2>2. CASE b <= a
    BY <2>2
  <2> QED BY <2>1, <2>2
<1>2. {a, b} \in SUBSET (0 .. N)
  BY <1>1
<1>3. Max({a, b}) \in {a, b} /\ \A n \in {a, b} : n <= Max({a, b})
  BY <1>2, GreatestNumber
<1> QED BY <1>3

(* A property of 1 .. n that holds at 1 and goes on from each number to    *)
(* the next holds up to n.                                                 *)
LEMMA UpTo ==
    ASSUME NEW n \in Nat, NEW Good \in SUBSET Nat,
           n > 0 => 1 \in Good,
           \A i \in 1 .. n : i > 1 /\ i - 1 \in Good => i \in Good
    PROVE  1 .. n \subseteq Good
<1> DEFINE Bad == {i \in 1 .. n : i \notin Good}
<1> SUFFICES ASSUME Bad # {} PROVE FALSE
  OBVIOUS
<1>1. Bad \in SUBSET Nat
  OBVIOUS
<1>2. PICK i \in Bad : \A j \in Bad : i <= j
  BY <1>1, LeastNumber
<1>3. i \in 1 .. n /\ i \notin Good
  OBVIOUS
<1>4. i # 1
  BY <1>3
<1>5. i - 1 \in 1 .. n /\ ~(i <= i - 1)
  BY <1>3, <1>4
<1>6. i - 1 \in Good
  BY <1>2, <1>5
<1> QED BY <1>3, <1>4, <1>6

(* Days in descending order: nothing lies between two neighbours. *)
LEMMA DescendingFacts ==
    ASSUME NEW D \in SUBSET Days, NEW days \in Descending(D), NEW n, n = Cardinality(D)
    PROVE  /\ n \in Nat /\ DOMAIN days = 1 .. n /\ days \in [1 .. n -> D]
           /\ \A d \in D : \E i \in 1 .. n : days[i] = d
           /\ \A i, j \in 1 .. n : i < j => days[i] > days[j]
           /\ \A i \in 1 .. n, d \in D : i > 1 /\ d > days[i] => d >= days[i - 1]
           /\ \A d \in D : n > 0 /\ d <= days[1]
           /\ (n = 0) <=> (D = {})
           /\ \A i \in 1 .. n : days[i] \in D /\ days[i] \in Nat /\ days[i] >= 1
<1>1. n \in Nat /\ IsFiniteSet(D) /\ ((n = 0) <=> (D = {}))
  <2>1. 1 \in Int /\ MaxDay \in Int
    BY StreakAssumption
  <2>2. IsFiniteSet(D)
    BY <2>1, FS_Interval, FS_Subset DEF Days
  <2> QED BY <2>2, FS_CardinalityType, FS_EmptySet
<1>2. days \in [1 .. n -> D] /\ Range(days) = D
  BY DEF Descending
<1>3. DOMAIN days = 1 .. n
  BY <1>2
<1>4. \A i, j \in 1 .. n : i < j => days[i] > days[j]
  BY <1>3 DEF Descending
<1>5. \A d \in D : \E i \in 1 .. n : days[i] = d
  BY <1>2, <1>3 DEF Range
<1>6. D \subseteq Nat
  BY DEF Days
<1>7. ASSUME NEW i \in 1 .. n, NEW d \in D, i > 1, d > days[i] PROVE d >= days[i - 1]
  <2>1. PICK j \in 1 .. n : days[j] = d
    BY <1>5
  <2>2. days[i] \in Nat /\ i - 1 \in 1 .. n /\ d \in Nat
    <3>1. days[i] \in D
      BY <1>2
    <3>2. i - 1 \in 1 .. n
      BY <1>1, <1>7
    <3> QED BY <1>6, <3>1, <3>2
  <2>3. ~(i < j) /\ i # j
    <3>1. i < j => days[i] > days[j]
      BY <1>4
    <3> QED BY <1>7, <2>1, <2>2, <3>1
  <2>4. j = i - 1 \/ j < i - 1
    BY <1>1, <2>3
  <2>5. CASE j = i - 1
    BY <2>1, <2>2, <2>5
  <2>6. CASE j < i - 1
    <3>1. days[j] > days[i - 1]
      BY <1>4, <2>2, <2>6
    <3>2. days[i - 1] \in D
      BY <1>2, <2>2
    <3>3. days[i - 1] \in Nat /\ d > days[i - 1]
      BY <1>6, <2>1, <3>1, <3>2
    <3> QED BY <2>2, <3>3
  <2> QED BY <2>4, <2>5, <2>6
<1>8. ASSUME NEW d \in D PROVE n > 0 /\ d <= days[1]
  <2>1. PICK j \in 1 .. n : days[j] = d
    BY <1>5
  <2>2. 1 \in 1 .. n /\ d \in Nat /\ (j = 1 \/ 1 < j)
    BY <1>1, <1>6
  <2>3. days[1] \in Nat
    BY <1>2, <1>6, <2>2
  <2> QED BY <1>1, <1>4, <2>1, <2>2, <2>3
<1>9. ASSUME NEW i \in 1 .. n PROVE days[i] \in D /\ days[i] \in Nat /\ days[i] >= 1
  <2>1. days[i] \in D
    BY <1>2
  <2>2. \A d \in D : d \in Nat /\ d >= 1
    BY DEF Days
  <2> QED BY <2>1, <2>2
<1> QED BY <1>1, <1>2, <1>3, <1>4, <1>5, <1>7, <1>8, <1>9

(* The recursion of RunsUpTo is well defined: counting back to the last    *)
(* gap gives a function that satisfies it.                                 *)
LEMMA RunsUpToDefined ==
    ASSUME NEW n \in Nat, NEW days, DOMAIN days = 1 .. n
    PROVE  RunsUpTo(days) = [i \in 1 .. n |->
               IF i > 1 /\ days[i - 1] = days[i] + 1 THEN RunsUpTo(days)[i - 1] + 1 ELSE 1]
<1> DEFINE Eq(run) == run = [i \in DOMAIN days |->
               IF i > 1 /\ days[i - 1] = days[i] + 1 THEN run[i - 1] + 1 ELSE 1]
           Starts(i) == {j \in 1 .. i : ~(j > 1 /\ days[j - 1] = days[j] + 1)}
           f == [i \in 1 .. n |-> i - Max(Starts(i)) + 1]
<1>1. ASSUME NEW i \in 1 .. n
      PROVE  Max(Starts(i)) \in Starts(i) /\ \A j \in Starts(i) : j <= Max(Starts(i))
  <2>1. 1 \in Starts(i) /\ Starts(i) \in SUBSET (0 .. n)
    OBVIOUS
  <2> HIDE DEF Starts
  <2> QED BY <2>1, GreatestNumber
<1>2. ASSUME NEW i \in 1 .. n, i > 1, days[i - 1] = days[i] + 1
      PROVE  f[i] = f[i - 1] + 1
  <2>1. Starts(i) = Starts(i - 1)
    <3>1. ASSUME NEW j \in 1 .. i, ~(j > 1 /\ days[j - 1] = days[j] + 1) PROVE j \in 1 .. i - 1
      <4>1. j # i
        BY <1>2, <3>1
      <4> QED BY <4>1
    <3>2. 1 .. i - 1 \subseteq 1 .. i
      OBVIOUS
    <3> QED BY <3>1, <3>2
  <2>2. i - 1 \in 1 .. n
    BY <1>2
  <2>3. Max(Starts(i)) \in Nat
    BY <1>1
  <2> HIDE DEF Starts
  <2>4. f[i] = i - Max(Starts(i)) + 1 /\ f[i - 1] = (i - 1) - Max(Starts(i - 1)) + 1
    BY <2>2
  <2> QED BY <2>1, <2>3, <2>4
<1>3. ASSUME NEW i \in 1 .. n, ~(i > 1 /\ days[i - 1] = days[i] + 1)
      PROVE  f[i] = 1
  <2>1. i \in Starts(i) /\ \A j \in Starts(i) : j <= i
    BY <1>3
  <2>2. Max(Starts(i)) \in Nat
    BY <1>1
  <2>3. Max(Starts(i)) = i
    BY <1>1, <2>1, <2>2
  <2> HIDE DEF Starts
  <2> QED BY <2>3
<1>4. Eq(f)
  <2> DEFINE g == [i \in 1 .. n |-> IF i > 1 /\ days[i - 1] = days[i] + 1 THEN f[i - 1] + 1 ELSE 1]
  <2>1. ASSUME NEW i \in 1 .. n PROVE f[i] = g[i]
    <3> HIDE DEF f
    <3> QED BY <1>2, <1>3
  <2>2. DOMAIN f = 1 .. n /\ f = [i \in 1 .. n |-> f[i]]
    OBVIOUS
  <2> HIDE DEF f
  <2> QED BY <2>1, <2>2
<1>5. RunsUpTo(days) = CHOOSE run : Eq(run)
  BY DEF RunsUpTo
<1> HIDE DEF f
<1>6. Eq(RunsUpTo(days))
  <2> HIDE DEF Eq
  <2> QED BY <1>4, <1>5
<1> QED BY <1>6

(* What RunsUpTo counts at a place is the whole run of days from the day   *)
(* at that place upward.                                                   *)
LEMMA RunsAreRuns ==
    ASSUME NEW D \in SUBSET Days, NEW days \in Descending(D), NEW n, n = Cardinality(D),
           NEW i \in 1 .. n
    PROVE  /\ RunsUpTo(days)[i] \in 1 .. i
           /\ \A k \in 0 .. RunsUpTo(days)[i] - 1 : days[i] + k \in D
           /\ days[i] + RunsUpTo(days)[i] \notin D
           /\ RunsUpTo(days)[i] = i => days[i] + i - 1 = days[1]
<1>1. /\ n \in Nat /\ DOMAIN days = 1 .. n /\ days \in [1 .. n -> D]
      /\ \A p \in 1 .. n, d \in D : p > 1 /\ d > days[p] => d >= days[p - 1]
      /\ \A d \in D : n > 0 /\ d <= days[1]
  BY DescendingFacts
<1>2. PICK f : f = RunsUpTo(days)
  OBVIOUS
<1>3. f = [p \in 1 .. n |-> IF p > 1 /\ days[p - 1] = days[p] + 1 THEN f[p - 1] + 1 ELSE 1]
  BY <1>1, <1>2, RunsUpToDefined
<1>4. \A p \in 1 .. n : days[p] \in D /\ days[p] \in Nat
  BY DescendingFacts
<1> DEFINE Good == {p \in 1 .. n : /\ f[p] \in 1 .. p
                                   /\ \A k \in 0 .. f[p] - 1 : days[p] + k \in D
                                   /\ days[p] + f[p] \notin D
                                   /\ f[p] = p => days[p] + p - 1 = days[1]}
<1>5. ASSUME NEW p \in 1 .. n, ~(p > 1 /\ days[p - 1] = days[p] + 1) PROVE p \in Good
  <2>1. f[p] = 1
    BY <1>3, <1>5
  <2>2. ASSUME days[p] + 1 \in D PROVE FALSE
    <3>1. CASE p = 1
      <4>1. days[1] + 1 <= days[1] /\ days[1] \in Nat
        BY <1>1, <1>4, <2>2, <3>1
      <4> QED BY <4>1
    <3>2. CASE p > 1
      <4>1. p - 1 \in 1 .. n /\ p \in Nat
        BY <1>1, <3>2
      <4>2. days[p - 1] \in Nat /\ days[p] \in Nat /\ days[p - 1] \in D
        BY <1>4, <4>1
      <4>3. days[p] + 1 >= days[p - 1]
        BY <1>1, <2>2, <3>2, <4>2
      <4>4. days[p - 1] > days[p]
        BY <4>1, DescendingFacts
      <4> QED BY <1>5, <3>2, <4>2, <4>3, <4>4
    <3> QED BY <1>1, <3>1, <3>2
  <2>3. \A k \in 0 .. f[p] - 1 : days[p] + k \in D
    BY <1>4, <2>1
  <2>4. f[p] = p => days[p] + p - 1 = days[1]
    BY <1>4, <2>1
  <2> QED BY <1>1, <2>1, <2>2, <2>3, <2>4
<1>6. ASSUME NEW p \in 1 .. n, p > 1, days[p - 1] = days[p] + 1, p - 1 \in Good PROVE p \in Good
  <2>1. PICK m : m = f[p - 1]
    OBVIOUS
  <2>2. /\ p - 1 \in 1 .. n /\ m \in 1 .. (p - 1) /\ days[p] \in Nat /\ p \in Nat
        /\ \A k \in 0 .. m - 1 : days[p] + 1 + k \in D
        /\ days[p] + 1 + m \notin D
        /\ m = p - 1 => days[p] + 1 + (p - 1) - 1 = days[1]
    BY <1>1, <1>4, <1>6, <2>1
  <2>3. f[p] = m + 1 /\ m \in Nat
    BY <1>3, <1>6, <2>1, <2>2
  <2>4. ASSUME NEW k \in 0 .. m PROVE days[p] + k \in D
    <3>1. CASE k = 0
      BY <1>4, <2>2, <3>1
    <3>2. CASE k > 0
      <4>1. k - 1 \in 0 .. m - 1
        BY <2>3, <3>2
      <4>2. days[p] + 1 + (k - 1) \in D
        BY <2>2, <4>1
      <4>3. days[p] + 1 + (k - 1) = days[p] + k
        BY <2>2, <2>3
      <4> QED BY <4>2, <4>3
    <3> QED BY <2>3, <3>1, <3>2
  <2>5. f[p] \in 1 .. p /\ (0 .. f[p] - 1) = 0 .. m
    BY <2>2, <2>3
  <2>6. days[p] + f[p] = days[p] + 1 + m
    BY <2>2, <2>3
  <2>7. f[p] = p => days[p] + p - 1 = days[1]
    BY <2>2, <2>3
  <2> QED BY <2>2, <2>4, <2>5, <2>6, <2>7
<1>7. Good \in SUBSET Nat
  OBVIOUS
<1>8. n > 0 => 1 \in Good
  <2> SUFFICES ASSUME n > 0 PROVE 1 \in Good
    OBVIOUS
  <2>1. 1 \in 1 .. n /\ ~(1 > 1)
    BY <1>1
  <2> HIDE DEF Good
  <2> QED BY <1>5, <2>1
<1>9. \A p \in 1 .. n : p > 1 /\ p - 1 \in Good => p \in Good
  <2> HIDE DEF Good
  <2> QED BY <1>5, <1>6
<1>10. i \in Good
  <2> HIDE DEF Good
  <2>1. 1 .. n \subseteq Good
    BY <1>1, <1>7, <1>8, <1>9, UpTo
  <2> QED BY <2>1
<1> QED BY <1>2, <1>10

LEMMA RunsInBounded ==
    ASSUME NEW D \in SUBSET Days
    PROVE  /\ RunsIn(D) \in SUBSET (0 .. MaxDay) /\ 0 \in RunsIn(D)
           /\ Max(RunsIn(D)) \in RunsIn(D) /\ \A r \in RunsIn(D) : r <= Max(RunsIn(D))
<1>1. RunsIn(D) \in SUBSET (0 .. MaxDay) /\ 0 \in RunsIn(D)
  BY StreakAssumption DEF RunsIn, RunsTo
<1> QED BY <1>1, GreatestNumber, StreakAssumption

(* calculateLongestStreak finds the longest run of the set of days. *)
LEMMA LongestStreakIsLongest ==
    ASSUME NEW D \in SUBSET Days, NEW days \in Descending(D)
    PROVE  LongestStreak(days) = Max(RunsIn(D))
<1>1. PICK n : n = Cardinality(D)
  OBVIOUS
<1>2. /\ n \in Nat /\ DOMAIN days = 1 .. n /\ days \in [1 .. n -> D]
      /\ \A d \in D : \E i \in 1 .. n : days[i] = d
  BY <1>1, DescendingFacts
<1>3. PICK f : f = RunsUpTo(days)
  OBVIOUS
<1>4. DOMAIN f = 1 .. n
  BY <1>2, <1>3, RunsUpToDefined
<1>5. ASSUME NEW i \in 1 .. n
      PROVE  /\ f[i] \in 1 .. i /\ \A k \in 0 .. f[i] - 1 : days[i] + k \in D
             /\ days[i] + f[i] \notin D
  BY <1>1, <1>3, RunsAreRuns
<1> DEFINE A == {0} \cup Range(f)
<1>6. ASSUME NEW a \in A PROVE a \in RunsIn(D)
  <2>1. CASE a = 0
    BY <2>1 DEF RunsIn
  <2>2. CASE a # 0
    <3>1. PICK i \in 1 .. n : a = f[i]
      BY <1>4, <2>2 DEF Range
    <3>2. a \in Nat /\ a >= 1 /\ days[i] \in D /\ days[i] \in Nat /\ days[i] >= 1
      <4>1. days[i] \in D /\ days[i] \in Nat /\ days[i] >= 1
        BY <1>1, DescendingFacts
      <4>2. a \in 1 .. i
        BY <1>5, <3>1
      <4> QED BY <4>1, <4>2
    <3>3. PICK e : e = days[i] + (a - 1)
      OBVIOUS
    <3>4. a - 1 \in 0 .. f[i] - 1
      BY <3>1, <3>2
    <3>5. e \in D /\ e \in 1 .. MaxDay
      BY <1>5, <3>3, <3>4 DEF Days
    <3>6. a <= e /\ a \in 1 .. MaxDay /\ e - a + 1 = days[i]
      BY <3>2, <3>3, <3>5, StreakAssumption
    <3>7. ASSUME NEW d \in days[i] .. e PROVE d \in D
      <4>1. d - days[i] \in 0 .. f[i] - 1 /\ days[i] + (d - days[i]) = d
        BY <3>1, <3>2, <3>3
      <4> QED BY <1>5, <4>1
    <3>8. a \in RunsTo(D, e)
      BY <3>6, <3>7 DEF RunsTo
    <3> QED BY <3>5, <3>8 DEF RunsIn
  <2> QED BY <2>1, <2>2
<1>7. ASSUME NEW r \in RunsIn(D) PROVE \E a \in A : r <= a
  <2>1. CASE r = 0
    BY <2>1
  <2>2. CASE r # 0
    <3>1. PICK e \in D : r \in RunsTo(D, e)
      BY <2>2 DEF RunsIn
    <3>2. r \in Nat /\ e \in Nat /\ r >= 1 /\ r <= e /\ (e - r + 1) .. e \subseteq D
      BY <3>1 DEF RunsTo, Days
    <3>3. e - r + 1 \in (e - r + 1) .. e
      BY <3>2
    <3>4. PICK i \in 1 .. n : days[i] = e - r + 1
      BY <1>2, <3>2, <3>3
    <3>5. f[i] \in Nat /\ days[i] + f[i] \notin D /\ f[i] \in A
      BY <1>4, <1>5 DEF Range
    <3>6. ~(f[i] < r)
      <4> SUFFICES ASSUME f[i] < r PROVE FALSE
        OBVIOUS
      <4>1. days[i] + f[i] \in (e - r + 1) .. e
        BY <3>2, <3>4, <3>5
      <4> QED BY <3>2, <3>5, <4>1
    <3>7. r <= f[i]
      BY <3>2, <3>5, <3>6
    <3> QED BY <3>5, <3>7
  <2> QED BY <2>1, <2>2
<1>8. A # {} /\ LongestStreak(days) = Max(A)
  BY <1>3 DEF LongestStreak
<1> HIDE DEF A
<1>9. A \in SUBSET (0 .. MaxDay)
  BY <1>6, RunsInBounded
<1>10. Max(A) \in A /\ \A a \in A : a <= Max(A)
  BY <1>8, <1>9, GreatestNumber, StreakAssumption
<1>11. PICK b : b = Max(RunsIn(D)) /\ b \in RunsIn(D) /\ b \in Nat /\ \A r \in RunsIn(D) : r <= b
  BY RunsInBounded
<1>12. PICK a : a = Max(A) /\ a \in A /\ a \in Nat /\ \A x \in A : x <= a
  <2>1. Max(A) \in 0 .. MaxDay
    BY <1>9, <1>10
  <2> QED BY <1>10, <2>1
<1>13. a <= b
  BY <1>6, <1>11, <1>12
<1>14. b <= a
  <2>1. PICK x \in A : b <= x
    BY <1>7, <1>11
  <2>2. x <= a /\ x \in Nat
    BY <1>9, <1>12
  <2> QED BY <1>11, <1>12, <2>1, <2>2
<1> QED BY <1>8, <1>11, <1>12, <1>13, <1>14

(* calculateCurrentStreak counts the run that ends at the last day. *)
LEMMA FirstRunIsFirst ==
    ASSUME NEW D \in SUBSET Days, D # {}, NEW days \in Descending(D)
    PROVE  /\ FirstRun(days) \in Nat /\ FirstRun(days) >= 1 /\ days[1] \in D
           /\ FirstRun(days) <= days[1] /\ \A d \in D : d <= days[1]
           /\ days[FirstRun(days)] = days[1] - FirstRun(days) + 1
           /\ (days[1] - FirstRun(days) + 1) .. days[1] \subseteq D
           /\ days[1] - FirstRun(days) \notin D
<1>1. PICK n : n = Cardinality(D)
  OBVIOUS
<1>2. /\ n \in Nat /\ DOMAIN days = 1 .. n /\ days \in [1 .. n -> D] /\ n > 0
      /\ \A d \in D : \E i \in 1 .. n : days[i] = d
      /\ \A i, j \in 1 .. n : i < j => days[i] > days[j]
      /\ \A i \in 1 .. n, d \in D : i > 1 /\ d > days[i] => d >= days[i - 1]
      /\ \A d \in D : d <= days[1]
  BY <1>1, DescendingFacts
<1>3. PICK f : f = RunsUpTo(days)
  OBVIOUS
<1>4. f = [i \in 1 .. n |-> IF i > 1 /\ days[i - 1] = days[i] + 1 THEN f[i - 1] + 1 ELSE 1]
  BY <1>2, <1>3, RunsUpToDefined
<1>5. \A i \in 1 .. n : /\ f[i] \in 1 .. i /\ (\A k \in 0 .. f[i] - 1 : days[i] + k \in D)
                        /\ (f[i] = i => days[i] + i - 1 = days[1])
  BY <1>1, <1>3, RunsAreRuns
<1> DEFINE S == {i \in 1 .. n : f[i] = i}
<1>6. S \in SUBSET (0 .. n) /\ 1 \in S
  BY <1>2, <1>4
<1>7. FirstRun(days) = Max(S)
  BY <1>2, <1>3 DEF FirstRun
<1>8. PICK k : k = FirstRun(days) /\ k \in S /\ \A i \in S : i <= k
  <2> HIDE DEF S
  <2> QED BY <1>2, <1>6, <1>7, GreatestNumber
<1>9. \A i \in 1 .. n : days[i] \in D /\ days[i] \in Nat /\ days[i] >= 1
  BY <1>1, DescendingFacts
<1>10. k \in 1 .. n /\ k \in Nat /\ k >= 1 /\ f[k] = k
  BY <1>2, <1>8
<1>11. days[k] + k - 1 = days[1] /\ days[k] = days[1] - k + 1 /\ k <= days[1] /\ days[1] \in D
  <2>1. 1 \in 1 .. n
    BY <1>2
  <2>2. days[k] + k - 1 = days[1]
    BY <1>5, <1>10
  <2>3. days[1] \in D /\ days[1] \in Nat /\ days[k] \in Nat /\ days[k] >= 1
    BY <1>9, <1>10, <2>1
  <2> QED BY <1>10, <2>2, <2>3
<1>12. ASSUME NEW d \in (days[1] - k + 1) .. days[1] PROVE d \in D
  <2>1. days[k] \in Nat
    BY <1>9, <1>10
  <2>2. d - days[k] \in 0 .. k - 1 /\ days[k] + (d - days[k]) = d
    BY <1>10, <1>11, <2>1
  <2> QED BY <1>5, <1>10, <2>2
<1>13. ASSUME days[1] - k \in D PROVE FALSE
  <2>1. PICK j \in 1 .. n : days[j] = days[1] - k
    BY <1>2, <1>13
  <2>2. days[j] = days[k] - 1 /\ days[k] \in Nat /\ days[j] \in Nat
    BY <1>9, <1>10, <1>11, <2>1
  <2>3. ~(j < k) /\ j # k
    BY <1>2, <1>10, <2>2
  <2>4. j > 1 /\ j - 1 \in 1 .. n /\ k <= j - 1
    BY <1>2, <1>10, <2>3
  <2>5. days[k] >= days[j - 1] /\ days[j - 1] > days[j] /\ days[j - 1] \in Nat
    BY <1>2, <1>9, <1>10, <2>2, <2>4
  <2>6. days[j - 1] = days[k] /\ days[j - 1] = days[j] + 1
    BY <2>2, <2>5
  <2>7. j - 1 = k
    <3>1. k < j - 1 => days[k] > days[j - 1]
      BY <1>2, <1>10, <2>4
    <3> QED BY <1>10, <2>2, <2>4, <2>6, <3>1
  <2>8. f[j] = f[j - 1] + 1
    BY <1>4, <2>4, <2>6
  <2>9. f[j] = j
    BY <1>10, <2>7, <2>8
  <2>10. j \in S
    BY <2>9
  <2> QED BY <1>8, <1>10, <2>4, <2>10
<1> QED BY <1>2, <1>8, <1>10, <1>11, <1>12, <1>13

(* The greatest number is the only one. *)
LEMMA GreatestIs ==
    ASSUME NEW T \in SUBSET Nat, NEW m \in T, \A x \in T : x <= m
    PROVE  Max(T) = m
<1>1. \E x \in T : \A y \in T : x >= y
  BY DEF Max
<1>2. Max(T) \in T /\ \A y \in T : Max(T) >= y
  BY <1>1 DEF Max
<1>3. PICK x : x = Max(T)
  OBVIOUS
<1>4. x \in Nat /\ m \in Nat /\ x >= m /\ x <= m
  BY <1>2, <1>3
<1> QED BY <1>3, <1>4

LEMMA RunsToFacts ==
    ASSUME NEW D \in SUBSET Days, NEW e \in Nat, NEW n \in RunsTo(D, e)
    PROVE  /\ n \in Nat /\ n >= 1 /\ n <= e /\ e \in D
           /\ \A j \in 0 .. n - 1 : e - j \in D
<1>1. n \in Nat /\ n >= 1 /\ n <= e /\ (e - n + 1) .. e \subseteq D
  BY DEF RunsTo
<1>2. ASSUME NEW j \in 0 .. n - 1 PROVE e - j \in D
  <2>1. e - j \in (e - n + 1) .. e
    BY <1>1
  <2> QED BY <1>1, <2>1
<1>3. 0 \in 0 .. n - 1 /\ e - 0 = e
  BY <1>1
<1> QED BY <1>1, <1>2, <1>3

(* What a recalculation at a day finds: the run that is alive on that day, *)
(* its first day, and the longest run there is.                            *)
Live(D, now) == RunsTo(D, now) \cup RunsTo(D, now - 1)

FirstDay(D, now, current) ==
    IF Live(D, now) = {} THEN NoDay ELSE IF now \in D THEN now + 1 - current ELSE now - current

LEMMA CurrentIsLive ==
    ASSUME NEW now \in Days, NEW D \in SUBSET (1 .. now), NEW days \in Descending(D),
           NEW calc, calc = Calculate(days, now)
    PROVE  /\ calc.current = Max({0} \cup Live(D, now)) /\ calc.current \in RunsIn(D)
           /\ calc.start = FirstDay(D, now, calc.current) /\ calc.start \in 0 .. MaxDay
           /\ calc.longest = Max({LongestStreak(days), calc.current})
<1>1. /\ now \in Nat /\ now >= 1 /\ now <= MaxDay /\ MaxDay \in Nat /\ D \in SUBSET Days
      /\ now - 1 \in Nat /\ ResetAfterDays \in Nat /\ ResetAfterDays >= 1 /\ NoDay = 0
  <2>1. now \in Nat /\ now >= 1 /\ now <= MaxDay /\ MaxDay \in Nat /\ ResetAfterDays \in Nat /\ ResetAfterDays >= 1
    BY StreakAssumption DEF Days
  <2>2. 1 .. now \subseteq Days
    BY <2>1 DEF Days
  <2> QED BY <2>1, <2>2 DEF NoDay
<1>8. PICK n : n = Cardinality(D)
  OBVIOUS
<1> DEFINE broken == DOMAIN days = {} \/ now - days[1] > ResetAfterDays
           current == IF broken THEN 0 ELSE CurrentStreak(days, now)
<1>2. /\ calc.current = current
      /\ calc.start = (IF current > 0 THEN days[current] ELSE NoDay)
      /\ calc.longest = Max({LongestStreak(days), calc.current})
  BY DEF Calculate
<1>3. n \in Nat /\ DOMAIN days = 1 .. n /\ ((n = 0) <=> (D = {}))
  BY <1>1, <1>8, DescendingFacts
<1>4. Live(D, now) \in SUBSET Nat
  <2> SUFFICES ASSUME NEW r \in Live(D, now) PROVE r \in Nat
    OBVIOUS
  <2>1. PICK e \in {now, now - 1} : r \in RunsTo(D, e)
    BY DEF Live
  <2> QED BY <1>1, <2>1, RunsToFacts
<1>5. ASSUME current = 0, Live(D, now) = {}
      PROVE  /\ current = Max({0} \cup Live(D, now)) /\ current \in RunsIn(D)
             /\ calc.start = FirstDay(D, now, current) /\ calc.start \in 0 .. MaxDay
  <2>1. Max({0} \cup Live(D, now)) = 0
    BY <1>5, GreatestIs
  <2>2. calc.start = 0 /\ FirstDay(D, now, current) = 0
    BY <1>1, <1>2, <1>5 DEF FirstDay
  <2>3. 0 \in RunsIn(D)
    BY <1>1, RunsInBounded
  <2> QED BY <1>1, <1>5, <2>1, <2>2, <2>3
<1>6. CASE D = {}
  <2>1. current = 0
    BY <1>3, <1>6
  <2>2. Live(D, now) = {}
    BY <1>1, <1>6, RunsToFacts DEF Live
  <2> HIDE DEF current
  <2> QED BY <1>2, <1>5, <2>1, <2>2
<1>7. CASE D # {}
  <2>1. PICK k : k = FirstRun(days)
    OBVIOUS
  <2>2. PICK d1 : d1 = days[1]
    OBVIOUS
  <2>3. /\ k \in Nat /\ k >= 1 /\ d1 \in D /\ k <= d1 /\ (\A d \in D : d <= d1)
        /\ days[k] = d1 - k + 1 /\ (d1 - k + 1) .. d1 \subseteq D /\ d1 - k \notin D
    BY <1>1, <1>7, <2>1, <2>2, FirstRunIsFirst
  <2>4. d1 \in Nat /\ d1 >= 1 /\ d1 <= now
    BY <1>1, <2>3
  <2>5. broken <=> now - d1 > ResetAfterDays
    <3>1. 1 \in 1 .. n
      <4>1. n # 0 /\ n \in Nat
        BY <1>3, <1>7
      <4> QED BY <4>1
    <3>2. DOMAIN days # {}
      BY <1>3, <3>1
    <3> QED BY <2>2, <3>2
  <2>6. current = IF ~(now - d1 > ResetAfterDays) /\ d1 \in {now, now - 1} THEN k ELSE 0
    BY <2>1, <2>2, <2>5 DEF CurrentStreak
  <2> HIDE DEF current
  <2>7. CASE d1 # now /\ d1 # now - 1
    <3>1. current = 0
      BY <2>6, <2>7
    <3>2. now \notin D /\ now - 1 \notin D
      BY <1>1, <2>3, <2>4, <2>7
    <3>3. Live(D, now) = {}
      BY <1>1, <3>2, RunsToFacts DEF Live
    <3> QED BY <1>2, <1>5, <3>1, <3>3
  <2>8. CASE d1 = now \/ d1 = now - 1
    <3>1. current = k
      BY <1>1, <2>4, <2>6, <2>8
    <3>2. k \in RunsTo(D, d1)
      <4>1. k \in 1 .. MaxDay
        BY <1>1, <2>3, <2>4
      <4> QED BY <2>3, <4>1 DEF RunsTo
    <3>3. k \in Live(D, now) /\ k \in RunsIn(D)
      BY <2>3, <2>8, <3>2 DEF Live, RunsIn
    <3>4. ASSUME NEW r \in Live(D, now) PROVE r <= k
      <4>1. PICK e \in {now, now - 1} : r \in RunsTo(D, e)
        BY DEF Live
      <4>2. /\ e \in Nat /\ r \in Nat /\ r >= 1 /\ e \in D
            /\ \A j \in 0 .. r - 1 : e - j \in D
        BY <1>1, <4>1, RunsToFacts
      <4>3. e <= d1 /\ d1 - e \in 0 .. 1
        BY <1>1, <2>3, <2>4, <2>8, <4>1, <4>2
      <4> SUFFICES ASSUME r > k PROVE FALSE
        BY <2>3, <4>2
      <4>4. k - (d1 - e) \in 0 .. r - 1 /\ e - (k - (d1 - e)) = d1 - k
        BY <2>3, <2>4, <4>2, <4>3
      <4> QED BY <2>3, <4>2, <4>4
    <3>5. Max({0} \cup Live(D, now)) = k
      <4>1. {0} \cup Live(D, now) \in SUBSET Nat /\ \A x \in {0} \cup Live(D, now) : x <= k
        BY <1>4, <2>3, <3>4
      <4> QED BY <3>3, <4>1, GreatestIs
    <3>6. calc.start = d1 - k + 1 /\ calc.start \in 0 .. MaxDay
      <4>1. calc.start = days[k]
        BY <1>2, <2>3, <3>1
      <4> QED BY <1>1, <2>3, <2>4, <4>1
    <3>7. FirstDay(D, now, k) = d1 - k + 1
      <4>1. CASE d1 = now
        <5>1. FirstDay(D, now, k) = now + 1 - k
          BY <2>3, <3>3, <4>1 DEF FirstDay
        <5> QED BY <1>1, <2>3, <4>1, <5>1
      <4>2. CASE d1 # now
        <5>1. now \notin D
          BY <1>1, <2>3, <2>4, <4>2
        <5>2. FirstDay(D, now, k) = now - k
          BY <3>3, <5>1 DEF FirstDay
        <5> QED BY <1>1, <2>3, <2>8, <4>2, <5>2
      <4> QED BY <4>1, <4>2
    <3> QED BY <1>2, <3>1, <3>3, <3>5, <3>6, <3>7
  <2> QED BY <2>7, <2>8
<1> QED BY <1>2, <1>6, <1>7

LEMMA CalculationCorrect ==
    ASSUME NEW now \in Days, NEW D \in SUBSET (1 .. now), NEW days \in Descending(D),
           NEW calc, calc = Calculate(days, now), NEW l \in RunsIn(D)
    PROVE  /\ Max({l, calc.longest}) = Max(RunsIn(D))
           /\ calc.current <= Max(RunsIn(D))
<1>1. D \in SUBSET Days /\ MaxDay \in Nat
  <2>1. 1 .. now \subseteq Days
    BY StreakAssumption DEF Days
  <2> QED BY <2>1, StreakAssumption
<1>2. PICK m : /\ m = Max(RunsIn(D)) /\ m \in RunsIn(D) /\ m \in Nat /\ RunsIn(D) \in SUBSET Nat
               /\ \A r \in RunsIn(D) : r <= m
  <2>1. /\ RunsIn(D) \in SUBSET (0 .. MaxDay) /\ Max(RunsIn(D)) \in RunsIn(D)
        /\ \A r \in RunsIn(D) : r <= Max(RunsIn(D))
    BY <1>1, RunsInBounded
  <2>2. 0 .. MaxDay \subseteq Nat
    BY <1>1
  <2> QED BY <2>1, <2>2
<1>3. LongestStreak(days) = m
  BY <1>1, <1>2, LongestStreakIsLongest
<1>4. PICK c : c = calc.current /\ c \in RunsIn(D) /\ calc.longest = Max({m, c})
  <2>1. calc.current \in RunsIn(D) /\ calc.longest = Max({LongestStreak(days), calc.current})
    BY CurrentIsLive
  <2> QED BY <1>3, <2>1
<1>5. Max({m, c}) = m
  <2>1. {m, c} \in SUBSET Nat /\ \A x \in {m, c} : x <= m
    BY <1>2, <1>4
  <2> QED BY <2>1, GreatestIs
<1>6. Max({l, m}) = m
  <2>1. {l, m} \in SUBSET Nat /\ \A x \in {l, m} : x <= m
    BY <1>2
  <2> QED BY <2>1, GreatestIs
<1> QED BY <1>2, <1>4, <1>5, <1>6

(* The record that a recalculation saves. *)
Recalculated(D, days, now, l) ==
    LET calc == Calculate(days, now) IN
    [current |-> calc.current, longest |-> Max({l, calc.longest}),
     last |-> IF DOMAIN days = {} THEN NoDay ELSE days[1],
     start |-> calc.start, total |-> Cardinality(D),
     active |-> calc.current > 0, exists |-> TRUE]

(* The types of the variables, with what a type cannot say of the days. *)
WorkRow == [step : {"idle", "insert", "read", "activities", "save", "reset", "write"},
            row : StreakRow, days : SUBSET Days, since : 0 .. MaxDay,
            columns : SUBSET DOMAIN NoStreak]

StreaksTypes ==
    /\ today \in Days /\ activities \in SUBSET (1 .. today)
    /\ streak \in StreakRow
    /\ worker \in [StreakRequests -> WorkRow]
    /\ tornStreak \in BOOLEAN
    /\ computedFrom \in [day : 0 .. MaxDay, days : SUBSET Days]

(* A record that claims no more than a set of days shows. *)
RowIsBacked(row, set) ==
    /\ row.current \in RunsIn(set) /\ row.longest \in RunsIn(set)
    /\ row.total <= Cardinality(set)

(* A record that is the streak of the days it was computed from. *)
RowIsExact(row, from) ==
    /\ row.current <= row.longest
    /\ from # Unknown =>
          /\ row.current = Max({0} \cup Live(from.days, from.day))
          /\ row.start = FirstDay(from.days, from.day, row.current)
          /\ row.longest = Max(RunsIn(from.days))

RecordIsBacked ==
    /\ RowIsBacked(streak, activities)
    /\ ~tornStreak => RowIsExact(streak, computedFrom)
    /\ ~streak.exists => computedFrom = Unknown

(* What the save of a request makes of the record as it stands now. *)
AfterSave(w) == [c \in DOMAIN streak |-> IF c \in w.columns THEN w.row[c] ELSE streak[c]]

(* What a request has read, and what its save will make of the record.     *)
(* Until it writes, nobody else has written, or the record is torn.        *)
RequestIsBacked(w) ==
    /\ RowIsBacked(w.row, activities)
    /\ w.step # "idle" => streak.exists
    /\ w.step = "insert" => w.days \subseteq 1 .. today
    /\ w.step \in {"save", "write"} => w.days \subseteq activities
    /\ w.step = "save" =>
          /\ w.since \in 1 .. today /\ w.days \subseteq 1 .. w.since
          /\ w.row.longest \in RunsIn(w.days)
    /\ w.step \in {"reset", "write"} => w.row.exists
    /\ w.step = "write" /\ ~tornStreak => RowIsExact(AfterSave(w), [day |-> w.since, days |-> w.days])

WorkIsBacked == \A r \in StreakRequests : RequestIsBacked(worker[r])

StreaksInv ==
    StreaksTypes /\ RecordIsBacked /\ WorkIsBacked

LEMMA RunsMonotone ==
    ASSUME NEW E \in SUBSET Days, NEW D \in SUBSET E
    PROVE  RunsIn(D) \subseteq RunsIn(E)
<1>1. \A e \in D : RunsTo(D, e) \subseteq RunsTo(E, e)
  BY DEF RunsTo
<1> QED BY <1>1 DEF RunsIn

LEMMA DaysAreFinite ==
    ASSUME NEW E \in SUBSET Days, NEW D \in SUBSET E
    PROVE  /\ IsFiniteSet(E) /\ Cardinality(E) \in Nat /\ Cardinality(D) \in Nat
           /\ Cardinality(D) <= Cardinality(E) /\ Cardinality(E) <= MaxDay
<1>1. 1 \in Int /\ MaxDay \in Int /\ MaxDay \in Nat /\ MaxDay >= 1
  BY StreakAssumption
<1>2. IsFiniteSet(Days) /\ Cardinality(Days) = MaxDay
  <2>1. IsFiniteSet(1 .. MaxDay) /\ Cardinality(1 .. MaxDay) = IF 1 > MaxDay THEN 0 ELSE MaxDay - 1 + 1
    BY <1>1, FS_Interval
  <2> QED BY <1>1, <2>1 DEF Days
<1>3. IsFiniteSet(E) /\ Cardinality(E) <= MaxDay
  BY <1>2, FS_Subset
<1>4. IsFiniteSet(D) /\ Cardinality(D) <= Cardinality(E)
  BY <1>3, FS_Subset
<1> QED BY <1>3, <1>4, FS_CardinalityType

LEMMA BackedByMore ==
    ASSUME NEW E \in SUBSET Days, NEW D \in SUBSET E, NEW row \in StreakRow, RowIsBacked(row, D)
    PROVE  RowIsBacked(row, E)
<1>1. row.total \in Nat
  BY DEF StreakRow
<1>2. row.total <= Cardinality(E)
  BY <1>1, DaysAreFinite DEF RowIsBacked
<1> QED BY <1>2, RunsMonotone DEF RowIsBacked

LEMMA NothingIsBacked ==
    ASSUME NEW D \in SUBSET Days, NEW row, row.current = 0, row.longest = 0, row.total = 0
    PROVE  RowIsBacked(row, D)
<1>1. 0 \in RunsIn(D)
  BY RunsInBounded
<1>2. 0 <= Cardinality(D)
  BY DaysAreFinite
<1> QED BY <1>1, <1>2 DEF RowIsBacked

LEMMA NoStreakTyped ==
    /\ NoStreak \in StreakRow /\ NoWork \in WorkRow
    /\ NoStreak.current = 0 /\ NoStreak.longest = 0 /\ NoStreak.total = 0
    /\ NoWork.row = NoStreak /\ NoWork.days = {} /\ NoWork.step = "idle" /\ NoWork.columns = {}
<1>1. MaxDay \in Nat /\ 0 \in 0 .. MaxDay
  BY StreakAssumption
<1>2. NoStreak \in StreakRow /\ NoStreak.current = 0 /\ NoStreak.longest = 0 /\ NoStreak.total = 0
  BY <1>1 DEF NoStreak, StreakRow, NoDay
<1>3. /\ NoWork \in WorkRow
      /\ NoWork.row = NoStreak /\ NoWork.days = {} /\ NoWork.step = "idle" /\ NoWork.columns = {}
  BY <1>1, <1>2 DEF NoWork, WorkRow, NoDay
<1> QED BY <1>2, <1>3

LEMMA ActivitiesAreDays ==
    ASSUME StreaksTypes
    PROVE  /\ activities \in SUBSET Days /\ today \in Nat /\ today >= 1 /\ today <= MaxDay
           /\ MaxDay \in Nat /\ 1 .. today \subseteq Days
BY StreakAssumption DEF StreaksTypes, Days

(* A request that does not move stays backed when days pass or are added,  *)
(* and when the record changes under a save that is torn by it.            *)
LEMMA RequestStays ==
    ASSUME NEW w \in WorkRow, RequestIsBacked(w), StreaksTypes, StreaksTypes',
           today <= today', activities \subseteq activities',
           w.step # "idle" => streak'.exists,
           w.step = "write" /\ ~tornStreak' => ~tornStreak /\ streak' = streak
    PROVE  RequestIsBacked(w)'
<1>1. w.row \in StreakRow
  BY DEF WorkRow
<1>2. activities' \in SUBSET Days
  <2>1. today' \in Nat /\ today' <= MaxDay /\ MaxDay \in Nat /\ activities' \subseteq 1 .. today'
    BY StreakAssumption DEF StreaksTypes, Days
  <2> QED BY <2>1 DEF Days
<1>3. RowIsBacked(w.row, activities')
  BY <1>1, <1>2, BackedByMore DEF RequestIsBacked
<1>4. today \in Nat /\ today' \in Nat /\ 1 .. today \subseteq 1 .. today'
  BY StreakAssumption DEF StreaksTypes, Days
<1>5. w.step = "insert" => w.days \subseteq 1 .. today'
  BY <1>4 DEF RequestIsBacked
<1>6. w.step \in {"save", "write"} => w.days \subseteq activities'
  BY DEF RequestIsBacked
<1>7. w.step = "save" => /\ w.since \in 1 .. today' /\ w.days \subseteq 1 .. w.since
                         /\ w.row.longest \in RunsIn(w.days)
  BY <1>4 DEF RequestIsBacked
<1>8. w.step = "write" /\ ~tornStreak' => RowIsExact(AfterSave(w)', [day |-> w.since, days |-> w.days])
  <2> SUFFICES ASSUME w.step = "write", ~tornStreak'
               PROVE  RowIsExact(AfterSave(w)', [day |-> w.since, days |-> w.days])
    OBVIOUS
  <2>1. AfterSave(w)' = AfterSave(w)
    BY DEF AfterSave
  <2>2. RowIsExact(AfterSave(w), [day |-> w.since, days |-> w.days])
    BY DEF RequestIsBacked
  <2> QED BY <2>1, <2>2
<1> QED BY <1>3, <1>5, <1>6, <1>7, <1>8 DEF RequestIsBacked

(* One request moves, and the others stay. *)
LEMMA OneRequestMoves ==
    ASSUME StreaksInv, StreaksTypes', RecordIsBacked', NEW r \in StreakRequests,
           NEW w \in WorkRow, worker' = [worker EXCEPT ![r] = w], RequestIsBacked(w)',
           today <= today', activities \subseteq activities',
           streak.exists => streak'.exists,
           \A q \in StreakRequests : q # r /\ worker[q].step = "write" /\ ~tornStreak'
                                     => ~tornStreak /\ streak' = streak
    PROVE  StreaksInv'
<1>1. ASSUME NEW q \in StreakRequests, q # r PROVE RequestIsBacked(worker[q])'
  <2>1. PICK v : v = worker[q]
    OBVIOUS
  <2>2. v \in WorkRow /\ RequestIsBacked(v)
    BY <2>1 DEF StreaksInv, StreaksTypes, WorkIsBacked
  <2>3. StreaksTypes
    BY DEF StreaksInv
  <2>4. /\ v.step # "idle" => streak'.exists
        /\ v.step = "write" /\ ~tornStreak' => ~tornStreak /\ streak' = streak
    BY <1>1, <2>1, <2>2 DEF RequestIsBacked
  <2>5. RequestIsBacked(v)'
    BY <2>2, <2>3, <2>4, RequestStays
  <2>6. worker'[q] = v
    BY <1>1, <2>1 DEF StreaksInv, StreaksTypes
  <2> QED BY <2>5, <2>6
<1>2. worker'[r] = w
  BY DEF StreaksInv, StreaksTypes
<1>3. RequestIsBacked(worker[r])'
  BY <1>2
<1> QED BY <1>1, <1>3 DEF StreaksInv, WorkIsBacked

(* One request moves without touching the record. *)
LEMMA RequestGoesOn ==
    ASSUME StreaksInv, NEW r \in StreakRequests, NEW w \in WorkRow,
           worker' = [worker EXCEPT ![r] = w], RequestIsBacked(w)',
           UNCHANGED <<today, streak, computedFrom, tornStreak>>,
           activities \subseteq activities', activities' \subseteq 1 .. today
    PROVE  StreaksInv'
<1>1. StreaksTypes'
  BY DEF StreaksInv, StreaksTypes
<1>2. activities' \in SUBSET Days /\ today \in Nat
  <2>1. 1 .. today \subseteq Days /\ today \in Nat
    BY ActivitiesAreDays DEF StreaksInv
  <2> QED BY <2>1
<1>3. RowIsBacked(streak, activities')
  BY <1>2, BackedByMore DEF StreaksInv, StreaksTypes, RecordIsBacked
<1>4. RecordIsBacked'
  BY <1>3 DEF StreaksInv, RecordIsBacked
<1>5. today <= today'
  BY <1>2
<1> QED BY <1>1, <1>4, <1>5, OneRequestMoves

(* The save of a request has compared its row with the record. *)
LEMMA CompareStep ==
    ASSUME StreaksInv, NEW r \in StreakRequests, NEW row \in StreakRow, NEW days \in SUBSET activities,
           NEW since \in 0 .. MaxDay, CompareStreak(r, row, days, since),
           RowIsBacked(row, activities), row.exists, streak.exists,
           ~tornStreak => RowIsExact(row, [day |-> since, days |-> days]),
           UNCHANGED <<today, activities, streak, computedFrom, tornStreak>>
    PROVE  StreaksInv'
<1>1. PICK columns : columns = {c \in DOMAIN row : row[c] # streak[c]}
  OBVIOUS
<1>2. PICK w : w = [step |-> "write", row |-> row, days |-> days, since |-> since, columns |-> columns]
  OBVIOUS
<1>3. worker' = [worker EXCEPT ![r] = w]
  BY <1>1, <1>2 DEF CompareStreak
<1>4. streak \in StreakRow /\ DOMAIN streak = DOMAIN row /\ DOMAIN row = DOMAIN NoStreak
  BY DEF StreaksInv, StreaksTypes, StreakRow, NoStreak
<1>5. days \in SUBSET Days /\ activities \subseteq 1 .. today
  BY ActivitiesAreDays DEF StreaksInv, StreaksTypes
<1>6. w \in WorkRow
  BY <1>1, <1>2, <1>4, <1>5 DEF WorkRow
<1>7. AfterSave(w) = row
  <2>1. \A c \in DOMAIN streak : (IF c \in w.columns THEN w.row[c] ELSE streak[c]) = row[c]
    BY <1>1, <1>2, <1>4
  <2>2. AfterSave(w) = [c \in DOMAIN row |-> row[c]]
    BY <1>4, <2>1 DEF AfterSave
  <2>3. row = [c \in DOMAIN row |-> row[c]]
    BY DEF StreakRow
  <2> QED BY <2>2, <2>3
<1>8. AfterSave(w)' = row /\ w.step = "write" /\ w.row = row /\ w.days = days /\ w.since = since
  BY <1>2, <1>7 DEF AfterSave
<1>9. RequestIsBacked(w)'
  BY <1>8 DEF RequestIsBacked
<1>10. activities \subseteq activities' /\ activities' \subseteq 1 .. today
  BY <1>5
<1> QED BY <1>3, <1>6, <1>9, <1>10, RequestGoesOn

(* recordActivity and getStreakStats make the record if there is none. *)
LEMMA RecordMade ==
    ASSUME StreaksInv, NEW r \in StreakRequests, NEW row \in StreakRow, row.exists,
           row.current = 0, row.longest = 0, row.total = 0,
           streak' = IF streak.exists THEN streak ELSE row,
           NEW w \in WorkRow, worker' = [worker EXCEPT ![r] = w], w.row = NoStreak,
           w.step = "read" \/ (w.step = "insert" /\ w.days \subseteq 1 .. today),
           UNCHANGED <<today, activities, computedFrom, tornStreak>>
    PROVE  StreaksInv'
<1>1. StreaksTypes'
  BY DEF StreaksInv, StreaksTypes
<1>2. streak'.exists /\ (streak.exists => streak' = streak)
  OBVIOUS
<1>3. activities \in SUBSET Days /\ today <= today' /\ activities \subseteq activities'
  BY ActivitiesAreDays DEF StreaksInv
<1>4. RecordIsBacked'
  <2>1. CASE streak.exists
    <3>1. streak' = streak
      BY <2>1
    <3> QED BY <3>1 DEF StreaksInv, RecordIsBacked
  <2>2. CASE ~streak.exists
    <3>1. streak' = row /\ computedFrom' = Unknown
      BY <2>2 DEF StreaksInv, RecordIsBacked
    <3>2. RowIsBacked(row, activities)
      BY <1>3, NothingIsBacked
    <3>3. RowIsExact(row, Unknown)
      BY DEF RowIsExact
    <3> QED BY <3>1, <3>2, <3>3 DEF RecordIsBacked
  <2> QED BY <2>1, <2>2
<1>5. RowIsBacked(w.row, activities)
  BY <1>3, NothingIsBacked, NoStreakTyped
<1>6. RequestIsBacked(w)'
  BY <1>2, <1>5 DEF RequestIsBacked
<1>7. ASSUME NEW q \in StreakRequests, worker[q].step = "write" PROVE streak' = streak
  <2>1. streak.exists
    BY <1>7 DEF StreaksInv, WorkIsBacked, RequestIsBacked
  <2> QED BY <1>2, <2>1
<1> QED BY <1>1, <1>2, <1>3, <1>4, <1>6, <1>7, OneRequestMoves

LEMMA RecordActivityStep ==
    ASSUME StreaksInv, NEW r \in StreakRequests, NEW day \in Days, RecordActivity(r, day)
    PROVE  StreaksInv'
<1>1. PICK row : row = [NoStreak EXCEPT !.active = TRUE, !.exists = TRUE]
  OBVIOUS
<1>2. row \in StreakRow /\ row.exists /\ row.current = 0 /\ row.longest = 0 /\ row.total = 0
  BY <1>1, NoStreakTyped DEF StreakRow
<1>3. PICK w : w = [NoWork EXCEPT !.step = "insert", !.days = {day}]
  OBVIOUS
<1>4. w \in WorkRow /\ w.row = NoStreak /\ w.step = "insert" /\ w.days = {day}
  BY <1>3, NoStreakTyped DEF WorkRow
<1>5. /\ streak' = IF streak.exists THEN streak ELSE row
      /\ worker' = [worker EXCEPT ![r] = w] /\ day <= today
      /\ UNCHANGED <<today, activities, computedFrom, tornStreak>>
  BY <1>1, <1>3 DEF RecordActivity
<1>6. w.days \subseteq 1 .. today
  <2>1. day \in Nat /\ day >= 1 /\ today \in Nat
    BY ActivitiesAreDays DEF StreaksInv, Days
  <2> QED BY <1>4, <1>5, <2>1
<1> QED BY <1>2, <1>4, <1>5, <1>6, RecordMade

LEMMA GetStreakStatsStep ==
    ASSUME StreaksInv, NEW r \in StreakRequests, GetStreakStats(r)
    PROVE  StreaksInv'
<1>1. PICK row : row = [NoStreak EXCEPT !.exists = TRUE]
  OBVIOUS
<1>2. row \in StreakRow /\ row.exists /\ row.current = 0 /\ row.longest = 0 /\ row.total = 0
  BY <1>1, NoStreakTyped DEF StreakRow
<1>3. PICK w : w = [NoWork EXCEPT !.step = "read"]
  OBVIOUS
<1>4. w \in WorkRow /\ w.row = NoStreak /\ w.step = "read"
  BY <1>3, NoStreakTyped DEF WorkRow
<1>5. /\ streak' = IF streak.exists THEN streak ELSE row
      /\ worker' = [worker EXCEPT ![r] = w]
      /\ UNCHANGED <<today, activities, computedFrom, tornStreak>>
  BY <1>1, <1>3 DEF GetStreakStats
<1> QED BY <1>2, <1>4, <1>5, RecordMade

LEMMA InsertActivityStep ==
    ASSUME StreaksInv, NEW r \in StreakRequests, InsertActivity(r)
    PROVE  StreaksInv'
<1>1. PICK w : w = [NoWork EXCEPT !.step = "read"]
  OBVIOUS
<1>2. w \in WorkRow /\ w.row = NoStreak /\ w.step = "read"
  BY <1>1, NoStreakTyped DEF WorkRow
<1>3. /\ worker[r].step = "insert" /\ activities' = activities \cup worker[r].days
      /\ worker' = [worker EXCEPT ![r] = w]
      /\ UNCHANGED <<today, streak, computedFrom, tornStreak>>
  BY <1>1 DEF InsertActivity
<1>4. RequestIsBacked(worker[r]) /\ activities \subseteq 1 .. today
  BY DEF StreaksInv, StreaksTypes, WorkIsBacked
<1>5. streak.exists /\ activities \subseteq activities' /\ activities' \subseteq 1 .. today
  BY <1>3, <1>4 DEF RequestIsBacked
<1>6. activities' \in SUBSET Days
  <2>1. 1 .. today \subseteq Days
    BY ActivitiesAreDays DEF StreaksInv
  <2> QED BY <1>5, <2>1
<1>7. RowIsBacked(w.row, activities')
  BY <1>2, <1>6, NothingIsBacked, NoStreakTyped
<1>8. RequestIsBacked(w)'
  BY <1>2, <1>3, <1>5, <1>7 DEF RequestIsBacked
<1> QED BY <1>2, <1>3, <1>5, <1>8, RequestGoesOn

LEMMA RecalculationDiesStep ==
    ASSUME StreaksInv, NEW r \in StreakRequests, RecalculationDies(r)
    PROVE  StreaksInv'
<1>1. PICK w : w = NoWork
  OBVIOUS
<1>2. w \in WorkRow /\ w.row = NoStreak /\ w.step = "idle"
  BY <1>1, NoStreakTyped
<1>3. /\ worker' = [worker EXCEPT ![r] = w]
      /\ UNCHANGED <<today, activities, streak, computedFrom, tornStreak>>
  BY <1>1 DEF RecalculationDies
<1>4. activities \in SUBSET Days /\ activities \subseteq 1 .. today
  BY ActivitiesAreDays DEF StreaksInv, StreaksTypes
<1>5. RowIsBacked(w.row, activities)
  BY <1>2, <1>4, NothingIsBacked, NoStreakTyped
<1>6. RequestIsBacked(w)'
  BY <1>2, <1>3, <1>5 DEF RequestIsBacked
<1> QED BY <1>2, <1>3, <1>4, <1>6, RequestGoesOn

LEMMA ReadStreakStep ==
    ASSUME StreaksInv, NEW r \in StreakRequests, ReadStreak(r)
    PROVE  StreaksInv'
<1>1. PICK row : row = [NoStreak EXCEPT !.longest = streak.longest]
  OBVIOUS
<1>2. row \in StreakRow /\ row.current = 0 /\ row.total = 0 /\ row.longest = streak.longest
  BY <1>1, NoStreakTyped DEF StreakRow, StreaksInv, StreaksTypes
<1>3. PICK w : w = [NoWork EXCEPT !.step = "activities", !.row = row]
  OBVIOUS
<1>4. w \in WorkRow /\ w.row = row /\ w.step = "activities"
  BY <1>2, <1>3, NoStreakTyped DEF WorkRow
<1>5. /\ worker[r].step = "read" /\ worker' = [worker EXCEPT ![r] = w]
      /\ UNCHANGED <<today, activities, streak, computedFrom, tornStreak>>
  BY <1>1, <1>3 DEF ReadStreak
<1>6. activities \in SUBSET Days /\ activities \subseteq 1 .. today
  BY ActivitiesAreDays DEF StreaksInv, StreaksTypes
<1>7. RowIsBacked(row, activities)
  <2>1. 0 \in RunsIn(activities) /\ 0 <= Cardinality(activities)
    BY <1>6, RunsInBounded, DaysAreFinite
  <2> QED BY <1>2, <2>1 DEF RowIsBacked, StreaksInv, RecordIsBacked
<1>8. streak.exists
  BY <1>5 DEF StreaksInv, WorkIsBacked, RequestIsBacked
<1>9. RequestIsBacked(w)'
  BY <1>4, <1>5, <1>7, <1>8 DEF RequestIsBacked
<1> QED BY <1>4, <1>5, <1>6, <1>9, RequestGoesOn

LEMMA ReadActivitiesStep ==
    ASSUME StreaksInv, NEW r \in StreakRequests, ReadActivities(r)
    PROVE  StreaksInv'
<1>1. PICK v : v = worker[r]
  OBVIOUS
<1>2. v \in WorkRow /\ RequestIsBacked(v)
  BY <1>1 DEF StreaksInv, StreaksTypes, WorkIsBacked
<1>3. PICK w : w = [v EXCEPT !.step = "save", !.days = activities, !.since = today]
  OBVIOUS
<1>4. /\ activities \in SUBSET Days /\ activities \subseteq 1 .. today /\ today \in Nat
      /\ today >= 1 /\ today <= MaxDay /\ MaxDay \in Nat
  BY ActivitiesAreDays DEF StreaksInv, StreaksTypes
<1>5. w \in WorkRow /\ w.row = v.row /\ w.step = "save" /\ w.days = activities /\ w.since = today
  <2>1. activities \in SUBSET Days /\ today \in 0 .. MaxDay
    BY <1>4
  <2> QED BY <1>2, <1>3, <2>1 DEF WorkRow
<1>6. /\ v.step = "activities" /\ worker' = [worker EXCEPT ![r] = w]
      /\ UNCHANGED <<today, activities, streak, computedFrom, tornStreak>>
  BY <1>1, <1>3 DEF ReadActivities
<1>7. RowIsBacked(v.row, activities) /\ streak.exists
  BY <1>2, <1>6 DEF RequestIsBacked
<1>8. RequestIsBacked(w)'
  <2>1. v.row.longest \in RunsIn(activities) /\ today \in 1 .. today
    BY <1>4, <1>7 DEF RowIsBacked
  <2> QED BY <1>4, <1>5, <1>6, <1>7, <2>1 DEF RequestIsBacked
<1> QED BY <1>4, <1>5, <1>6, <1>8, RequestGoesOn

(* A recalculation saves the streak of the days it read. *)
LEMMA SaveRecalculatedStep ==
    ASSUME StreaksInv, NEW r \in StreakRequests, SaveRecalculated(r)
    PROVE  StreaksInv'
<1>1. PICK v : v = worker[r]
  OBVIOUS
<1>2. v \in WorkRow /\ RequestIsBacked(v)
  BY <1>1 DEF StreaksInv, StreaksTypes, WorkIsBacked
<1>3. PICK D : D = v.days
  OBVIOUS
<1>4. PICK l : l = v.row.longest
  OBVIOUS
<1>5. PICK now \in v.since .. today, days \in Descending(D) :
         CompareStreak(r, Recalculated(D, days, now, l), D, now)
  BY <1>1, <1>3, <1>4 DEF SaveRecalculated, Recalculated
<1>6. v.step = "save" /\ UNCHANGED <<today, activities, streak, computedFrom, tornStreak>>
  BY <1>1 DEF SaveRecalculated
<1>7. /\ streak.exists /\ D \subseteq activities /\ v.since \in 1 .. today
      /\ D \subseteq 1 .. v.since /\ l \in RunsIn(D)
  BY <1>2, <1>3, <1>4, <1>6 DEF RequestIsBacked
<1>8. /\ today \in Nat /\ today <= MaxDay /\ MaxDay \in Nat
      /\ activities \in SUBSET Days /\ activities \subseteq 1 .. today
  BY ActivitiesAreDays DEF StreaksInv, StreaksTypes
<1>9. now \in Days /\ D \in SUBSET (1 .. now) /\ now \in 0 .. MaxDay /\ now # 0
  <2>1. now \in Nat /\ now >= 1 /\ now <= MaxDay /\ v.since \in Nat /\ v.since <= now
    BY <1>5, <1>7, <1>8
  <2>2. 1 .. v.since \subseteq 1 .. now
    BY <2>1
  <2> QED BY <1>7, <1>8, <2>1, <2>2 DEF Days
<1>10. PICK calc : calc = Calculate(days, now)
  OBVIOUS
<1>11. PICK cur : /\ cur = calc.current /\ cur = Max({0} \cup Live(D, now)) /\ cur \in RunsIn(D)
                  /\ calc.start = FirstDay(D, now, cur) /\ calc.start \in 0 .. MaxDay
  BY <1>9, <1>10, CurrentIsLive
<1>12. PICK top : top = Max(RunsIn(D)) /\ top = Max({l, calc.longest}) /\ cur <= top
  <2>1. Max({l, calc.longest}) = Max(RunsIn(D)) /\ calc.current <= Max(RunsIn(D))
    BY <1>7, <1>9, <1>10, CalculationCorrect
  <2> QED BY <1>11, <2>1
<1>13. D \in SUBSET Days /\ top \in RunsIn(D) /\ RunsIn(D) \in SUBSET (0 .. MaxDay)
  <2>1. D \in SUBSET Days
    BY <1>7, <1>8
  <2> QED BY <1>12, <2>1, RunsInBounded
<1>14. PICK last : last = (IF DOMAIN days = {} THEN NoDay ELSE days[1]) /\ last \in 0 .. MaxDay
  <2>1. CASE DOMAIN days = {}
    BY <1>8, <2>1 DEF NoDay
  <2>2. CASE DOMAIN days # {}
    <3>1. PICK n : n = Cardinality(D)
      OBVIOUS
    <3>2. /\ n \in Nat /\ DOMAIN days = 1 .. n /\ days \in [1 .. n -> D]
      BY <1>13, <3>1, DescendingFacts
    <3>3. 1 \in 1 .. n
      BY <2>2, <3>2
    <3>4. days[1] \in Days
      BY <1>13, <3>2, <3>3
    <3> QED BY <1>8, <2>2, <3>4 DEF Days
  <2> QED BY <2>1, <2>2
<1>15. PICK total : total = Cardinality(D) /\ total \in 0 .. MaxDay /\ total <= Cardinality(activities)
  <2>1. /\ Cardinality(D) \in Nat /\ Cardinality(activities) \in Nat
        /\ Cardinality(D) <= Cardinality(activities) /\ Cardinality(activities) <= MaxDay
    BY <1>7, <1>8, DaysAreFinite
  <2> QED BY <1>8, <2>1
<1>16. PICK row : row = [current |-> cur, longest |-> top, last |-> last, start |-> calc.start,
                         total |-> total, active |-> cur > 0, exists |-> TRUE]
  OBVIOUS
<1>17. row = Recalculated(D, days, now, l)
  BY <1>10, <1>11, <1>12, <1>14, <1>15, <1>16 DEF Recalculated
<1>18. row \in StreakRow
  BY <1>11, <1>13, <1>14, <1>15, <1>16 DEF StreakRow
<1>19. /\ row.current = cur /\ row.longest = top /\ row.total = total /\ row.exists
       /\ row.start = FirstDay(D, now, cur)
  BY <1>11, <1>16
<1>20. RowIsBacked(row, activities)
  <2>1. RunsIn(D) \subseteq RunsIn(activities)
    BY <1>7, <1>8, RunsMonotone
  <2> QED BY <1>11, <1>13, <1>15, <1>19, <2>1 DEF RowIsBacked
<1>21. RowIsExact(row, [day |-> now, days |-> D])
  BY <1>11, <1>12, <1>19 DEF RowIsExact
<1>22. CompareStreak(r, row, D, now)
  BY <1>5, <1>17
<1>23. D \in SUBSET activities
  BY <1>7
<1> QED BY <1>6, <1>7, <1>9, <1>18, <1>19, <1>20, <1>21, <1>22, <1>23, CompareStep

(* Ending the streak of a row. *)
LEMMA RowEnded ==
    ASSUME NEW old \in StreakRow
    PROVE  /\ [old EXCEPT !.current = 0, !.active = FALSE] \in StreakRow
           /\ [old EXCEPT !.current = 0, !.active = FALSE, !.start = NoDay] \in StreakRow
<1>1. PICK zero \in 0 .. MaxDay : zero = 0
  BY StreakAssumption
<1>2. PICK a : a = [old EXCEPT !.current = zero]
  OBVIOUS
<1>3. a \in StreakRow
  BY <1>2 DEF StreakRow
<1>4. PICK b : b = [a EXCEPT !.active = FALSE]
  OBVIOUS
<1>5. b \in StreakRow
  BY <1>3, <1>4 DEF StreakRow
<1>6. PICK c : c = [b EXCEPT !.start = zero]
  OBVIOUS
<1>7. c \in StreakRow
  BY <1>5, <1>6 DEF StreakRow
<1>8. b = [old EXCEPT !.current = 0, !.active = FALSE]
  BY <1>1, <1>2, <1>4
<1>9. c = [old EXCEPT !.current = 0, !.active = FALSE, !.start = NoDay]
  BY <1>1, <1>2, <1>4, <1>6 DEF NoDay
<1> QED BY <1>5, <1>7, <1>8, <1>9

(* A reset ends the streak of the record as it read it. *)
LEMMA BeginResetStep ==
    ASSUME StreaksInv, NEW r \in StreakRequests, BeginReset(r)
    PROVE  StreaksInv'
<1>1. PICK w : w = [NoWork EXCEPT !.step = "reset", !.row = streak]
  OBVIOUS
<1>2. streak \in StreakRow
  BY DEF StreaksInv, StreaksTypes
<1>3. w \in WorkRow /\ w.row = streak /\ w.step = "reset"
  BY <1>1, <1>2, NoStreakTyped DEF WorkRow
<1>4. /\ streak.exists /\ worker' = [worker EXCEPT ![r] = w]
      /\ UNCHANGED <<today, activities, streak, computedFrom, tornStreak>>
  BY <1>1 DEF BeginReset
<1>5. activities \subseteq 1 .. today
  BY DEF StreaksInv, StreaksTypes
<1>6. RowIsBacked(streak, activities)
  BY DEF StreaksInv, RecordIsBacked
<1>7. RequestIsBacked(w)'
  BY <1>3, <1>4, <1>6 DEF RequestIsBacked
<1> QED BY <1>3, <1>4, <1>5, <1>7, RequestGoesOn

LEMMA SaveResetStep ==
    ASSUME StreaksInv, NEW r \in StreakRequests, SaveReset(r)
    PROVE  StreaksInv'
<1>1. PICK old : old = worker[r].row
  OBVIOUS
<1>2. PICK row : row = [old EXCEPT !.current = 0, !.active = FALSE, !.start = NoDay]
  OBVIOUS
<1>3. /\ worker[r].step = "reset" /\ CompareStreak(r, row, Unknown.days, Unknown.day)
      /\ UNCHANGED <<today, activities, streak, computedFrom, tornStreak>>
  BY <1>1, <1>2 DEF SaveReset
<1>4. old \in StreakRow /\ old.exists /\ streak.exists /\ RowIsBacked(old, activities)
  <2>1. worker[r] \in WorkRow /\ RequestIsBacked(worker[r])
    BY DEF StreaksInv, StreaksTypes, WorkIsBacked
  <2> QED BY <1>1, <1>3, <2>1 DEF WorkRow, RequestIsBacked
<1>5. MaxDay \in Nat /\ activities \in SUBSET Days
  BY ActivitiesAreDays DEF StreaksInv
<1>6. row \in StreakRow
  BY <1>2, <1>4, RowEnded
<1>7. row.current = 0 /\ row.longest = old.longest /\ row.total = old.total /\ row.exists
  BY <1>2, <1>4 DEF StreakRow
<1>8. RowIsBacked(row, activities)
  <2>1. 0 \in RunsIn(activities)
    BY <1>5, RunsInBounded
  <2> QED BY <1>4, <1>7, <2>1 DEF RowIsBacked
<1>9. Unknown.days = {} /\ Unknown.day = 0 /\ Unknown = [day |-> Unknown.day, days |-> Unknown.days]
  BY DEF Unknown, NoDay
<1>10. row.longest \in Nat
  BY <1>6 DEF StreakRow
<1>11. RowIsExact(row, Unknown)
  BY <1>7, <1>10 DEF RowIsExact
<1>12. PICK days, since : days = Unknown.days /\ since = Unknown.day
  OBVIOUS
<1>13. /\ days \in SUBSET activities /\ since \in 0 .. MaxDay /\ CompareStreak(r, row, days, since)
       /\ RowIsExact(row, [day |-> since, days |-> days])
  BY <1>3, <1>5, <1>9, <1>11, <1>12
<1> QED BY <1>3, <1>4, <1>6, <1>7, <1>8, <1>13, CompareStep

(* A save writes the columns it found different.  It tears the record if   *)
(* another save stands between its comparison and its write.               *)
LEMMA WriteStreakStep ==
    ASSUME StreaksInv, NEW r \in StreakRequests, WriteStreak(r)
    PROVE  StreaksInv'
<1>1. PICK v : v = worker[r]
  OBVIOUS
<1>2. v \in WorkRow /\ RequestIsBacked(v) /\ v.row \in StreakRow
  <2>1. v \in WorkRow /\ RequestIsBacked(v)
    BY <1>1 DEF StreaksInv, StreaksTypes, WorkIsBacked
  <2> QED BY <2>1 DEF WorkRow
<1>3. /\ v.step = "write" /\ streak' = AfterSave(v)
      /\ computedFrom' = [day |-> v.since, days |-> v.days]
      /\ tornStreak' = (tornStreak \/ Saving # {r})
      /\ worker' = [worker EXCEPT ![r] = NoWork]
      /\ UNCHANGED <<today, activities>>
  BY <1>1 DEF WriteStreak, Written, AfterSave
<1>4. streak.exists /\ v.row.exists /\ RowIsBacked(v.row, activities) /\ v.days \subseteq activities
  BY <1>2, <1>3 DEF RequestIsBacked
<1>5. RowIsBacked(streak, activities) /\ streak \in StreakRow
  BY DEF StreaksInv, StreaksTypes, RecordIsBacked
<1>6. PICK row : row = streak'
  OBVIOUS
<1>7. DOMAIN streak = {"current", "longest", "last", "start", "total", "active", "exists"}
  BY <1>5 DEF StreakRow
<1>8. /\ row = [c \in DOMAIN streak |-> row[c]]
      /\ \A c \in DOMAIN streak : row[c] = v.row[c] \/ row[c] = streak[c]
  BY <1>3, <1>6 DEF AfterSave
<1>9. /\ row.current \in {v.row.current, streak.current} /\ row.longest \in {v.row.longest, streak.longest}
      /\ row.last \in {v.row.last, streak.last} /\ row.start \in {v.row.start, streak.start}
      /\ row.total \in {v.row.total, streak.total} /\ row.active \in {v.row.active, streak.active}
      /\ row.exists \in {v.row.exists, streak.exists}
  BY <1>7, <1>8
<1>10. row \in StreakRow
  <2>1. /\ row.current \in 0 .. MaxDay /\ row.longest \in 0 .. MaxDay /\ row.last \in 0 .. MaxDay
        /\ row.start \in 0 .. MaxDay /\ row.total \in 0 .. MaxDay
        /\ row.active \in BOOLEAN /\ row.exists \in BOOLEAN
    BY <1>2, <1>5, <1>9 DEF StreakRow
  <2>2. row = [c \in {"current", "longest", "last", "start", "total", "active", "exists"} |-> row[c]]
    BY <1>7, <1>8
  <2>3. row = [current |-> row.current, longest |-> row.longest, last |-> row.last, start |-> row.start,
               total |-> row.total, active |-> row.active, exists |-> row.exists]
    BY <2>2
  <2> QED BY <2>1, <2>3 DEF StreakRow
<1>11. row.exists
  BY <1>4, <1>9
<1>12. RowIsBacked(row, activities)
  BY <1>4, <1>5, <1>9 DEF RowIsBacked
<1>13. NoWork \in WorkRow /\ activities \in SUBSET Days /\ today \in Nat
  BY NoStreakTyped, ActivitiesAreDays DEF StreaksInv
<1>14. StreaksTypes'
  <2>1. computedFrom' \in [day : 0 .. MaxDay, days : SUBSET Days]
    BY <1>2, <1>3 DEF WorkRow
  <2>2. worker' \in [StreakRequests -> WorkRow]
    BY <1>3, <1>13 DEF StreaksInv, StreaksTypes
  <2>3. tornStreak' \in BOOLEAN
    BY <1>3
  <2> QED BY <1>3, <1>6, <1>10, <2>1, <2>2, <2>3 DEF StreaksInv, StreaksTypes
<1>15. RecordIsBacked'
  <2>1. ~tornStreak' => RowIsExact(streak', computedFrom')
    BY <1>2, <1>3 DEF RequestIsBacked
  <2> QED BY <1>3, <1>6, <1>11, <1>12, <2>1 DEF RecordIsBacked
<1>16. RequestIsBacked(NoWork)'
  <2>1. RowIsBacked(NoWork.row, activities)
    BY <1>13, NothingIsBacked, NoStreakTyped
  <2>2. RowIsBacked(NoWork.row, activities)'
    BY <1>3, <2>1
  <2> QED BY <2>2, NoStreakTyped DEF RequestIsBacked
<1>17. ASSUME NEW q \in StreakRequests, q # r, worker[q].step = "write" PROVE tornStreak'
  <2>1. q \in Saving
    BY <1>17 DEF Saving
  <2> QED BY <1>3, <1>17, <2>1
<1>18. today <= today' /\ activities \subseteq activities' /\ (streak.exists => streak'.exists)
  BY <1>3, <1>6, <1>11, <1>13
<1>19. worker' = [worker EXCEPT ![r] = NoWork]
  BY <1>3
<1> QED BY <1>13, <1>14, <1>15, <1>16, <1>17, <1>18, <1>19, OneRequestMoves

(* No request moves. *)
LEMMA RequestsStay ==
    ASSUME StreaksInv, StreaksTypes', RecordIsBacked', UNCHANGED worker,
           today <= today', activities \subseteq activities', streak.exists => streak'.exists,
           \A q \in StreakRequests : worker[q].step = "write" /\ ~tornStreak'
                                     => ~tornStreak /\ streak' = streak
    PROVE  StreaksInv'
<1>1. ASSUME NEW q \in StreakRequests PROVE RequestIsBacked(worker[q])'
  <2>1. PICK v : v = worker[q]
    OBVIOUS
  <2>2. v \in WorkRow /\ RequestIsBacked(v)
    BY <2>1 DEF StreaksInv, StreaksTypes, WorkIsBacked
  <2>3. StreaksTypes
    BY DEF StreaksInv
  <2>4. /\ v.step # "idle" => streak'.exists
        /\ v.step = "write" /\ ~tornStreak' => ~tornStreak /\ streak' = streak
    BY <2>1, <2>2 DEF RequestIsBacked
  <2>5. RequestIsBacked(v)'
    BY <2>2, <2>3, <2>4, RequestStays
  <2> QED BY <2>1, <2>5
<1> QED BY <1>1 DEF StreaksInv, WorkIsBacked

LEMMA CleanupStep ==
    ASSUME StreaksInv, CleanupInactiveStreaks
    PROVE  StreaksInv'
<1>1. PICK row : row = [streak EXCEPT !.current = 0, !.active = FALSE]
  OBVIOUS
<1>2. /\ streak' = row /\ computedFrom' = Unknown /\ streak.exists
      /\ tornStreak' = (tornStreak \/ Saving # {})
      /\ UNCHANGED <<today, activities, worker>>
  BY <1>1 DEF CleanupInactiveStreaks
<1>3. /\ streak \in StreakRow /\ RowIsBacked(streak, activities)
      /\ activities \in SUBSET Days /\ today \in Nat /\ MaxDay \in Nat
  BY ActivitiesAreDays DEF StreaksInv, StreaksTypes, RecordIsBacked
<1>4. /\ row \in StreakRow /\ row.current = 0 /\ row.longest = streak.longest
      /\ row.total = streak.total /\ row.exists /\ row.longest \in Nat
  <2>1. row \in StreakRow /\ row.current = 0
    <3>1. row \in StreakRow
      BY <1>1, <1>3, RowEnded
    <3> QED BY <1>1, <1>3, <3>1 DEF StreakRow
  <2>2. row.longest = streak.longest /\ row.total = streak.total /\ row.exists = streak.exists
    BY <1>1, <1>3 DEF StreakRow
  <2>3. row.longest \in Nat
    BY <2>1 DEF StreakRow
  <2> QED BY <1>2, <2>1, <2>2, <2>3
<1>5. RowIsBacked(row, activities)
  <2>1. 0 \in RunsIn(activities)
    BY <1>3, RunsInBounded
  <2> QED BY <1>3, <1>4, <2>1 DEF RowIsBacked
<1>6. RowIsExact(row, Unknown)
  BY <1>4 DEF RowIsExact
<1>7. RecordIsBacked'
  BY <1>2, <1>4, <1>5, <1>6 DEF RecordIsBacked
<1>8. StreaksTypes'
  <2>1. Unknown \in [day : 0 .. MaxDay, days : SUBSET Days]
    BY <1>3 DEF Unknown, NoDay
  <2> QED BY <1>2, <1>4, <2>1 DEF StreaksInv, StreaksTypes
<1>9. ASSUME NEW q \in StreakRequests, worker[q].step = "write" PROVE tornStreak'
  <2>1. q \in Saving
    BY <1>9 DEF Saving
  <2> QED BY <1>2, <2>1
<1>10. today <= today' /\ activities \subseteq activities' /\ (streak.exists => streak'.exists)
  BY <1>2, <1>3, <1>4
<1> QED BY <1>2, <1>7, <1>8, <1>9, <1>10, RequestsStay

LEMMA DayPassesStep ==
    ASSUME StreaksInv, DayPasses
    PROVE  StreaksInv'
<1>1. /\ today < MaxDay /\ today' = today + 1
      /\ UNCHANGED <<activities, streak, worker, computedFrom, tornStreak>>
  BY DEF DayPasses
<1>2. today \in Nat /\ today >= 1 /\ MaxDay \in Nat /\ activities \subseteq 1 .. today
  BY ActivitiesAreDays DEF StreaksInv, StreaksTypes
<1>3. today' \in Days /\ today <= today' /\ activities \subseteq 1 .. today'
  BY <1>1, <1>2 DEF Days
<1>4. StreaksTypes'
  BY <1>1, <1>3 DEF StreaksInv, StreaksTypes
<1>5. RecordIsBacked'
  BY <1>1 DEF StreaksInv, RecordIsBacked
<1>6. activities \subseteq activities' /\ (streak.exists => streak'.exists)
  BY <1>1
<1>7. \A q \in StreakRequests : worker[q].step = "write" /\ ~tornStreak' => ~tornStreak /\ streak' = streak
  BY <1>1
<1> QED BY <1>1, <1>3, <1>4, <1>5, <1>6, <1>7, RequestsStay

LEMMA StreaksInitCorrect == StreaksInit => StreaksInv
<1> SUFFICES ASSUME StreaksInit PROVE StreaksInv
  OBVIOUS
<1>1. /\ today = 1 /\ activities = {} /\ streak = NoStreak /\ computedFrom = Unknown /\ tornStreak = FALSE
      /\ \A r \in StreakRequests : worker[r] = NoWork
      /\ worker \in [StreakRequests -> WorkRow]
  BY NoStreakTyped DEF StreaksInit
<1>2. 1 \in Days /\ MaxDay \in Nat
  BY StreakAssumption DEF Days
<1>3. StreaksTypes
  <2>1. Unknown \in [day : 0 .. MaxDay, days : SUBSET Days]
    BY <1>2 DEF Unknown, NoDay
  <2> QED BY <1>1, <1>2, <2>1, NoStreakTyped DEF StreaksTypes
<1>4. RowIsBacked(NoStreak, {})
  <2>1. {} \in SUBSET Days
    OBVIOUS
  <2> QED BY <2>1, NothingIsBacked, NoStreakTyped
<1>5. RowIsExact(NoStreak, Unknown)
  BY NoStreakTyped DEF RowIsExact
<1>6. RecordIsBacked
  BY <1>1, <1>4, <1>5 DEF RecordIsBacked
<1>7. WorkIsBacked
  BY <1>1, <1>4, NoStreakTyped DEF WorkIsBacked, RequestIsBacked
<1> QED BY <1>3, <1>6, <1>7 DEF StreaksInv

LEMMA StreaksStepCorrect == StreaksInv /\ [StreaksNext]_streakVars => StreaksInv'
<1> SUFFICES ASSUME StreaksInv, [StreaksNext]_streakVars PROVE StreaksInv'
  OBVIOUS
<1>1. ASSUME NEW r \in StreakRequests, NEW day \in Days, RecordActivity(r, day) PROVE StreaksInv'
  BY <1>1, RecordActivityStep
<1>2. ASSUME NEW r \in StreakRequests, InsertActivity(r) PROVE StreaksInv'
  BY <1>2, InsertActivityStep
<1>3. ASSUME NEW r \in StreakRequests, RecalculationDies(r) PROVE StreaksInv'
  BY <1>3, RecalculationDiesStep
<1>4. ASSUME NEW r \in StreakRequests, GetStreakStats(r) PROVE StreaksInv'
  BY <1>4, GetStreakStatsStep
<1>5. ASSUME NEW r \in StreakRequests, ReadStreak(r) PROVE StreaksInv'
  BY <1>5, ReadStreakStep
<1>6. ASSUME NEW r \in StreakRequests, ReadActivities(r) PROVE StreaksInv'
  BY <1>6, ReadActivitiesStep
<1>7. ASSUME NEW r \in StreakRequests, SaveRecalculated(r) PROVE StreaksInv'
  BY <1>7, SaveRecalculatedStep
<1>8. ASSUME NEW r \in StreakRequests, BeginReset(r) PROVE StreaksInv'
  BY <1>8, BeginResetStep
<1>9. ASSUME NEW r \in StreakRequests, SaveReset(r) PROVE StreaksInv'
  BY <1>9, SaveResetStep
<1>10. ASSUME NEW r \in StreakRequests, WriteStreak(r) PROVE StreaksInv'
  BY <1>10, WriteStreakStep
<1>11. CASE CleanupInactiveStreaks
  BY <1>11, CleanupStep
<1>12. CASE DayPasses
  BY <1>12, DayPassesStep
<1>13. CASE UNCHANGED streakVars
  <2>1. UNCHANGED <<today, activities, streak, worker, computedFrom, tornStreak>>
    BY <1>13 DEF streakVars
  <2>2. StreaksTypes' /\ RecordIsBacked'
    BY <2>1 DEF StreaksInv, StreaksTypes, RecordIsBacked
  <2>3. today <= today' /\ activities \subseteq activities' /\ (streak.exists => streak'.exists)
    BY <2>1, ActivitiesAreDays DEF StreaksInv
  <2>4. \A q \in StreakRequests : worker[q].step = "write" /\ ~tornStreak' => ~tornStreak /\ streak' = streak
    BY <2>1
  <2> QED BY <2>1, <2>2, <2>3, <2>4, RequestsStay
<1> QED BY <1>1, <1>2, <1>3, <1>4, <1>5, <1>6, <1>7, <1>8, <1>9, <1>10, <1>11, <1>12, <1>13
        DEF StreaksNext

(* The record of a user never shows a run or a number of days that the     *)
(* activities do not, however recalculations, resets and the cleanup       *)
(* overlap; and it is exactly the streak of the days it was computed from, *)
(* if no two saves interleaved.                                            *)
THEOREM StreakCorrect == StreaksSpec => [](StreaksTypeOK /\ StreakIsBacked)
<1>1. StreaksInv => StreaksTypeOK
  <2> SUFFICES ASSUME StreaksInv PROVE StreaksTypeOK
    OBVIOUS
  <2>1. activities \subseteq Days
    BY ActivitiesAreDays DEF StreaksInv
  <2>2. ASSUME NEW r \in StreakRequests
        PROVE  /\ worker[r].step \in {"idle", "insert", "read", "activities", "save", "reset", "write"}
               /\ worker[r].row \in StreakRow
               /\ worker[r].days \subseteq Days /\ worker[r].since \in 0 .. MaxDay
               /\ worker[r].columns \subseteq DOMAIN NoStreak
    <3>1. worker[r] \in WorkRow
      BY DEF StreaksInv, StreaksTypes
    <3> QED BY <3>1 DEF WorkRow
  <2> QED BY <2>1, <2>2 DEF StreaksInv, StreaksTypes, StreaksTypeOK
<1>2. StreaksInv => StreakIsBacked
  <2> SUFFICES ASSUME StreaksInv PROVE StreakIsBacked
    OBVIOUS
  <2>1. RowIsBacked(streak, activities) /\ (~tornStreak => RowIsExact(streak, computedFrom))
    BY DEF StreaksInv, RecordIsBacked
  <2> QED BY <2>1 DEF RowIsBacked, RowIsExact, FirstDay, Live, StreakIsBacked
<1> QED BY <1>1, <1>2, StreaksInitCorrect, StreaksStepCorrect, PTL DEF StreaksSpec

-----------------------------------------------------------------------------
(* MCServices. *)

(* In the composition every service behaves as its own specification says: *)
(* what is proved of each of them is true of the run over all of them.     *)
LEMMA ServicesKeepApart ==
    /\ ServicesSpec => IndexerSpec /\ ReviewSpec /\ ClaimsSpec /\ PoolSpec /\ MarketSpec
    /\ ServicesSpec => CacheSpec /\ StreaksSpec /\ LoginSpec /\ WalletSpec
<1>1. ServicesInit => /\ IndexerInit /\ ReviewInit /\ ClaimsInit /\ PoolInit /\ MarketInit
                      /\ CacheInit /\ StreaksInit /\ LoginInit /\ WalletInit
  BY DEF ServicesInit
<1>2. [ServicesNext]_servicesVars =>
         /\ [IndexerNext]_indexerVars /\ [ReviewNext]_reviewVars /\ [ClaimsNext]_claimVars
         /\ [PoolNext]_poolVars /\ [MarketNext]_marketVars /\ [CacheNext]_cacheVars
         /\ [StreaksNext]_streakVars /\ [LoginNext]_loginVars /\ [WalletNext]_walletVars
  BY DEF ServicesNext, servicesVars, IndexerStep, ReviewStep, ClaimsStep, PoolStep, MarketStep,
         CacheStep, StreaksStep, LoginStep, WalletStep
<1> QED BY <1>1, <1>2, PTL DEF ServicesSpec, IndexerSpec, ReviewSpec, ClaimsSpec, PoolSpec,
            MarketSpec, CacheSpec, StreaksSpec, LoginSpec, WalletSpec

(* What the run over all services checks: the types of the one that moves, *)
(* and of each service the property that its races could break.            *)
THEOREM ServicesCorrect ==
    ServicesSpec =>
        [](/\ ServicesTypeOK /\ IndexIsComplete /\ PublishedTextWasApproved /\ ClaimsStayNearLimit
           /\ PoolIsBacked /\ TradesFollowAcceptance /\ StaleOnlyByOthers /\ StreakIsBacked
           /\ ChallengeIsUsedOnce /\ OnlyLateRefreshesClobber)
<1>1. ServicesInit => service \in Services
  BY DEF ServicesInit
<1>2. service \in Services /\ [ServicesNext]_servicesVars => (service \in Services)'
  BY DEF ServicesNext, servicesVars, IndexerStep, ReviewStep, ClaimsStep, PoolStep, MarketStep,
         CacheStep, StreaksStep, LoginStep, WalletStep
<1>3. /\ service \in Services /\ IndexerTypeOK /\ ReviewTypeOK /\ ClaimsTypeOK /\ PoolTypeOK
      /\ MarketTypeOK /\ CacheTypeOK /\ StreaksTypeOK /\ LoginTypeOK /\ WalletTypeOK
      => ServicesTypeOK
  BY DEF ServicesTypeOK
<1>4. LoginInv => LoginTypeOK
  BY DEF LoginInv
<1> QED BY <1>1, <1>2, <1>3, <1>4, ServicesKeepApart, IndexCorrect, PublishedCorrect, ClaimsCorrect,
            PoolCorrect, TradesCorrect, CacheCorrect, StreakCorrect, LoginInvariance,
            ChallengeUsedOnce, SessionCorrect, PTL
        DEF ServicesSpec

=============================================================================
