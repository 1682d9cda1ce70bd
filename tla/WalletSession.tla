---------------------------- MODULE WalletSession ----------------------------
(***************************************************************************)
(* The wallet session of one page: the Freighter extension, which is       *)
(* polled, against WalletConnect sessions, which are paired with a remote  *)
(* wallet and survive a reload of the page.  Every await of the hook ends  *)
(* a step; what it does between two of them is one.                        *)
(***************************************************************************)
EXTENDS Naturals

CONSTANTS
    FreighterAccounts,  \* accounts of the Freighter extension
    Topics,         \* WalletConnect sessions; a topic stands for its address too
    Refreshes,      \* refreshes that are under way at the same time
    MaxReloads      \* bound on reloads of the page

Nothing == "null"

ASSUME WalletAssumption == Nothing \notin FreighterAccounts \cup Topics /\ MaxReloads \in Nat

VARIABLES
    extension,      \* external: the account Freighter reports, if connected
    sessions,       \* external: live WalletConnect sessions
    opened,         \* external: sessions ever opened
    stored,         \* topic in localStorage
    wallet,         \* refs and state of the hook
    refresh,        \* every refresh under way
    connecting,     \* the connect under way
    pairing,        \* the connectWalletConnect under way
    restoring,      \* the restoreWalletConnect of this mount
    closing,        \* sessions the page is tearing down
    reloads,
    clobbered       \* history: a refresh that began before the session did
                    \* has written since the session began

walletVars == <<extension, sessions, opened, stored, wallet, refresh, connecting, pairing,
                restoring, closing, reloads, clobbered>>

Disconnected == [active |-> Nothing, type |-> Nothing, address |-> Nothing, last |-> Nothing,
                 topic |-> Nothing, connected |-> FALSE, status |-> "disconnected"]
NotUnderWay  == [step |-> "none", late |-> FALSE]
NotRestored  == [step |-> "due", topic |-> Nothing]

WalletInit ==
    /\ extension \in FreighterAccounts \cup {Nothing}
    /\ sessions = {} /\ opened = {} /\ stored = Nothing
    /\ wallet = Disconnected
    /\ refresh = [r \in Refreshes |-> NotUnderWay]
    /\ connecting = "none" /\ pairing = "none"
    /\ restoring = NotRestored
    /\ closing = {} /\ reloads = 0 /\ clobbered = FALSE

-----------------------------------------------------------------------------
(* refresh: called on mount, by the poll, on focus and by switchNetwork. *)

External == <<extension, sessions, opened, stored>>
Others   == <<External, connecting, pairing, restoring, closing, reloads>>

Wrote(r) ==
    /\ refresh' = [refresh EXCEPT ![r] = NotUnderWay]
    /\ clobbered' = (clobbered \/ refresh[r].late)

(* A slip: the extension is polled whichever wallet is active. *)
BeginAnyRefresh(r) ==
    /\ refresh[r].step = "none"
    /\ refresh' = [refresh EXCEPT ![r].step = "isConnected"]
    /\ UNCHANGED <<wallet, clobbered, Others>>

BeginRefresh(r) ==
    /\ refresh[r].step = "none"
    /\ wallet.active # "walletconnect"
    /\ refresh' = [refresh EXCEPT ![r].step = "isConnected"]
    /\ UNCHANGED <<wallet, clobbered, Others>>

FindConnected(r) ==
    /\ refresh[r].step = "isConnected"
    /\ IF extension # Nothing
       THEN /\ wallet' = [wallet EXCEPT !.connected = TRUE]
            /\ refresh' = [refresh EXCEPT ![r].step = "keys"]
            /\ UNCHANGED clobbered
       ELSE /\ wallet' = [wallet EXCEPT
                !.active = IF @ = "freighter" THEN Nothing ELSE @,
                !.type = IF wallet.active = "freighter" THEN Nothing ELSE @,
                !.address = Nothing, !.connected = FALSE, !.status = "disconnected"]
            /\ Wrote(r)
    /\ UNCHANGED Others

TakeAccount(r) ==
    /\ refresh[r].step = "keys" /\ extension # Nothing
    /\ wallet' = [wallet EXCEPT
          !.active = IF @ = Nothing THEN "freighter" ELSE @,
          !.type = IF wallet.active = Nothing THEN "freighter" ELSE @,
          !.address = extension, !.last = extension,
          !.status = IF wallet.last \notin {Nothing, extension} THEN "error" ELSE "connected"]
    /\ Wrote(r)
    /\ UNCHANGED Others

RefreshFails(r) ==
    /\ refresh[r].step # "none"
    /\ wallet' = [wallet EXCEPT !.address = Nothing, !.connected = FALSE, !.status = "disconnected"]
    /\ Wrote(r)
    /\ UNCHANGED Others

-----------------------------------------------------------------------------
(* connect *)

BeginConnect ==
    /\ connecting = "none" /\ connecting' = "access"
    /\ wallet' = [wallet EXCEPT !.status = "connecting"]
    /\ UNCHANGED <<External, refresh, pairing, restoring, closing, reloads, clobbered>>

AccessGranted ==
    /\ connecting = "access" /\ connecting' = "none"
    /\ extension # Nothing
    /\ wallet' = [wallet EXCEPT !.active = "freighter", !.type = "freighter",
                                !.address = extension, !.last = extension,
                                !.connected = TRUE, !.status = "connected"]
    /\ UNCHANGED <<External, refresh, pairing, restoring, closing, reloads, clobbered>>

AccessRefused ==
    /\ connecting = "access" /\ connecting' = "none"
    /\ wallet' = [wallet EXCEPT !.status = "error"]
    /\ UNCHANGED <<External, refresh, pairing, restoring, closing, reloads, clobbered>>

-----------------------------------------------------------------------------
(* connectWalletConnect and restoreWalletConnect *)

(* The session begins: the refreshes under way are late from now on. *)
Attach(s, lastAddress) ==
    /\ refresh' = [r \in Refreshes |->
                      [refresh[r] EXCEPT !.late = refresh[r].step # "none"]]
    /\ clobbered' = FALSE
    /\ wallet' = [wallet EXCEPT !.active = "walletconnect", !.type = "walletconnect",
                                !.address = s, !.last = lastAddress, !.topic = s,
                                !.connected = TRUE, !.status = "connected"]

BeginPairing ==
    /\ pairing = "none" /\ pairing' = "starting"
    /\ wallet' = [wallet EXCEPT !.status = "connecting"]
    /\ UNCHANGED <<External, refresh, connecting, restoring, closing, reloads, clobbered>>

OpenPairing ==
    /\ pairing = "starting" /\ pairing' = "approval"
    /\ UNCHANGED <<External, wallet, refresh, connecting, restoring, closing, reloads, clobbered>>

(* A restore under way goes on as soon as there is a client, which a       *)
(* pairing needs too before it can open: it never outlasts the approval.   *)
Approved(s) ==
    /\ pairing = "approval" /\ pairing' = "none"
    /\ s \notin opened /\ restoring.step # "client"
    /\ sessions' = sessions \cup {s} /\ opened' = opened \cup {s}
    /\ stored' = s
    /\ Attach(s, s)
    /\ UNCHANGED <<extension, connecting, restoring, closing, reloads>>

PairingFails ==
    /\ pairing # "none" /\ pairing' = "none"
    /\ wallet' = [wallet EXCEPT !.status = "error"]
    /\ UNCHANGED <<External, refresh, connecting, restoring, closing, reloads, clobbered>>

(* The timer of the mount fires. *)
BeginRestore ==
    /\ restoring.step = "due"
    /\ restoring' = IF wallet.active = Nothing /\ stored # Nothing
                    THEN [step |-> "client", topic |-> stored]
                    ELSE [step |-> "done", topic |-> Nothing]
    /\ UNCHANGED <<External, wallet, refresh, connecting, pairing, closing, reloads, clobbered>>

Restore ==
    LET s == restoring.topic IN
    /\ restoring.step = "client"
    /\ restoring' = [step |-> "done", topic |-> Nothing]
    /\ stored' = IF s \in sessions THEN stored ELSE Nothing
    /\ IF s \in sessions /\ wallet.active = Nothing
       THEN Attach(s, wallet.last)
       ELSE UNCHANGED <<wallet, refresh, clobbered>>
    /\ UNCHANGED <<extension, sessions, opened, connecting, pairing, closing, reloads>>

-----------------------------------------------------------------------------
(* disconnect, reloads, and what happens outside the page *)

Disconnect ==
    /\ IF wallet.active = "walletconnect"
       THEN stored' = Nothing /\ closing' = closing \cup {wallet.topic}
       ELSE UNCHANGED <<stored, closing>>
    /\ wallet' = [Disconnected EXCEPT
          !.topic = IF wallet.active = "walletconnect" THEN Nothing ELSE wallet.topic]
    /\ UNCHANGED <<extension, sessions, opened, refresh, connecting, pairing, restoring,
                   reloads, clobbered>>

SessionCloses(s) ==
    /\ s \in sessions
    /\ sessions' = sessions \ {s} /\ closing' = closing \ {s}
    /\ UNCHANGED <<extension, opened, stored, wallet, refresh, connecting, pairing, restoring,
                   reloads, clobbered>>

ExtensionChanges ==
    /\ extension' \in (FreighterAccounts \cup {Nothing}) \ {extension}
    /\ UNCHANGED <<sessions, opened, stored, wallet, refresh, connecting, pairing, restoring,
                   closing, reloads, clobbered>>

Reload ==
    /\ reloads < MaxReloads /\ reloads' = reloads + 1
    /\ wallet' = Disconnected
    /\ refresh' = [r \in Refreshes |-> NotUnderWay]
    /\ connecting' = "none" /\ pairing' = "none"
    /\ restoring' = NotRestored
    /\ closing' = {} /\ clobbered' = FALSE
    /\ UNCHANGED External

-----------------------------------------------------------------------------

WalletNext ==
    \/ \E r \in Refreshes : BeginRefresh(r) \/ FindConnected(r) \/ TakeAccount(r) \/ RefreshFails(r)
    \/ BeginConnect \/ AccessGranted \/ AccessRefused
    \/ BeginPairing \/ OpenPairing \/ PairingFails
    \/ \E s \in Topics : Approved(s) \/ SessionCloses(s)
    \/ BeginRestore \/ Restore
    \/ Disconnect \/ ExtensionChanges \/ Reload

WalletSpec == WalletInit /\ [][WalletNext]_walletVars

-----------------------------------------------------------------------------
(* Properties. *)

Addresses == FreighterAccounts \cup Topics

WalletRow == [active : {Nothing, "freighter", "walletconnect"},
              type : {Nothing, "freighter", "walletconnect"},
              address : Addresses \cup {Nothing}, last : Addresses \cup {Nothing},
              topic : Topics \cup {Nothing}, connected : BOOLEAN,
              status : {"disconnected", "connecting", "connected", "error"}]

WalletTypeOK ==
    /\ extension \in FreighterAccounts \cup {Nothing}
    /\ sessions \subseteq opened /\ opened \subseteq Topics
    /\ stored \in Topics \cup {Nothing} /\ closing \subseteq opened
    /\ wallet \in WalletRow
    /\ refresh \in [Refreshes -> [step : {"none", "isConnected", "keys"}, late : BOOLEAN]]
    /\ connecting \in {"none", "access"} /\ pairing \in {"none", "starting", "approval"}
    /\ restoring \in [step : {"due", "client", "done"}, topic : Topics \cup {Nothing}]
    /\ reloads \in 0 .. MaxReloads /\ clobbered \in BOOLEAN

WalletConnectShown ==
    /\ wallet.type = "walletconnect" /\ wallet.address = wallet.topic /\ wallet.connected

(* While a WalletConnect session is active the page shows its address and  *)
(* would restore it after a reload, however connects, pairings, restores   *)
(* and disconnects overlap, unless a refresh that was already waiting for  *)
(* Freighter when the session began has written since.                     *)
OnlyLateRefreshesClobber ==
    wallet.active = "walletconnect" =>
        /\ wallet.topic # Nothing /\ stored = wallet.topic
        /\ WalletConnectShown \/ clobbered

(* "when WalletConnect is active, Freighter polling must not clobber the   *)
(* session state", a comment of the hook says of activeWalletRef.          *)
PollingKeepsWalletConnect == wallet.active = "walletconnect" => WalletConnectShown
=============================================================================
