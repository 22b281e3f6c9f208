--------------------------- MODULE WalletSession ---------------------------
(***************************************************************************)
(* WalletProvider of apps/client/components/providers/WalletProvider.tsx:   *)
(* the session of a page with a wallet extension, and its copy in           *)
(* localStorage.                                                            *)
(*                                                                         *)
(* Its operations are asynchronous and nothing keeps them apart: each one   *)
(* runs between awaits without interruption, keeps the values it captured   *)
(* when it was called, and ends when the wallet has answered.  An answer is *)
(* read from the wallet at one moment and used at a later one.  The wallets *)
(* are external: the user changes their account and network, locks them or  *)
(* refuses them.  xBull is taken with its optional methods present.         *)
(***************************************************************************)
EXTENDS Naturals, FiniteSets

CONSTANTS
    Networks,       \* NetworkName
    Testnet,        \* the network of a fresh page
    WalletStates,   \* the states of each wallet: its account and its network
    None,           \* null: no session, no answer
    Slots,          \* bound: operations in progress at once
    MaxChanges      \* bound: changes of the wallets

Connectors == {"freighter", "xbull"}

ASSUME WalletAssumption ==
    /\ Testnet \in Networks /\ None \notin Networks
    /\ DOMAIN WalletStates = Connectors
    /\ \A c \in Connectors : \A w \in WalletStates[c] : w.network \in Networks \cup {None}
    /\ MaxChanges \in Nat

VARIABLES
    page,           \* the state of the provider
    stored,         \* localStorage: the persisted session
    tasks,          \* the operations in progress
    wallet,         \* the wallets
    changes,        \* how often the wallets have changed
    left            \* history: disconnect has cleared the session, and none was asked for since

sessionVars == <<page, stored, tasks, wallet, changes, left>>

\* A session as it is persisted.
Session(connector, publicKey, network) ==
    [connector |-> connector, publicKey |-> publicKey, network |-> network]
NoSession == Session(None, None, None)
FreshPage ==
    [connector |-> None, publicKey |-> None, network |-> Testnet, walletNetwork |-> None,
     connecting |-> FALSE, reconnecting |-> TRUE]

\* An operation: what it captured, and the answers of the wallet that it holds.
Task(op, step, connector, publicKey, network) ==
    [op |-> op, step |-> step, connector |-> connector, publicKey |-> publicKey,
     network |-> network, address |-> None, detected |-> None]
Idle == Task("none", "none", None, None, None)

Begin(task) == \E s \in Slots : tasks[s] = Idle /\ tasks' = [tasks EXCEPT ![s] = task]
End(s) == tasks' = [tasks EXCEPT ![s] = Idle]

----------------------------------------------------------------------------
(* What the operations do to the page and to localStorage.                  *)

\* Mutant: the connector is set only when there is none.
PageWith_FirstConnector(session, detected) ==
    [page EXCEPT !.connector = IF @ = None THEN session.connector ELSE @,
                 !.publicKey = session.publicKey,
                 !.network = session.network, !.walletNetwork = detected]

\* applySession: the page with a session; it is persisted with it.
PageWith(session, detected) ==
    [page EXCEPT !.connector = session.connector, !.publicKey = session.publicKey,
                 !.network = session.network, !.walletNetwork = detected]

\* connect fails: the session that there was is given up.
ConnectFails(s) ==
    /\ page' = [page EXCEPT !.connector = None, !.publicKey = None, !.connecting = FALSE]
    /\ stored' = NoSession
    /\ End(s)

\* The silent reconnect ends without a session; it forgets the stored one if the
\* wallet throws.
ReconnectEnds(s, throws) ==
    /\ page' = [page EXCEPT !.reconnecting = FALSE]
    /\ stored' = IF throws THEN NoSession ELSE stored
    /\ End(s)

\* What disconnect clears.
ClearSession ==
    /\ page' = [page EXCEPT !.connector = None, !.publicKey = None, !.walletNetwork = None]
    /\ stored' = NoSession
    /\ left' = ~ page.connecting

----------------------------------------------------------------------------
(* The calls.                                                               *)

\* The dashboard offers connect when there is no session and no connect in progress.
Connect(connector) ==
    /\ page.publicKey = None /\ ~ page.connecting
    /\ page' = [page EXCEPT !.connecting = TRUE]
    /\ Begin(Task("connect", "address", connector, None, page.network))
    /\ left' = FALSE
    /\ UNCHANGED <<stored, wallet, changes>>

\* xBull is told first, and awaited.
Disconnect ==
    /\ page.publicKey # None
    /\ IF page.connector = "xbull"
       THEN /\ Begin(Task("disconnect", "clear", "xbull", None, None))
            /\ UNCHANGED <<page, stored, left>>
       ELSE ClearSession /\ UNCHANGED tasks
    /\ UNCHANGED <<wallet, changes>>

\* Mutant: the network chosen is not persisted.
SetNetwork_Forgotten(network) ==
    /\ page' = [page EXCEPT !.network = network]
    /\ IF page.connector = "freighter"
       THEN Begin(Task("setNetwork", "detect", "freighter", None, None))
       ELSE UNCHANGED tasks
    /\ UNCHANGED <<stored, wallet, changes, left>>

SetNetwork(network) ==
    /\ page' = [page EXCEPT !.network = network]
    /\ stored' = IF stored = NoSession THEN stored ELSE [stored EXCEPT !.network = network]
    /\ IF page.connector = "freighter"
       THEN Begin(Task("setNetwork", "detect", "freighter", None, None))
       ELSE UNCHANGED tasks
    /\ UNCHANGED <<wallet, changes, left>>

\* The interval fires every 8 seconds while there is a Freighter session.
Refresh ==
    /\ page.connector = "freighter" /\ page.publicKey # None
    /\ Begin(Task("refresh", "address", "freighter", page.publicKey, page.network))
    /\ UNCHANGED <<page, stored, wallet, changes, left>>

\* The page is loaded again, whatever was in progress; its effect tries to reconnect
\* the stored session.
Reload ==
    /\ IF stored = NoSession
       THEN /\ page' = [FreshPage EXCEPT !.reconnecting = FALSE]
            /\ tasks' = [s \in Slots |-> Idle]
       ELSE /\ page' = [FreshPage EXCEPT !.network = stored.network]
            /\ \E s \in Slots :
                  tasks' = [t \in Slots |->
                     IF t = s
                     THEN Task("reconnect", "address", stored.connector,
                               stored.publicKey, stored.network)
                     ELSE Idle]
    /\ left' = FALSE
    /\ UNCHANGED <<stored, wallet, changes>>

----------------------------------------------------------------------------
(* The operations go on.                                                    *)

\* The answer to the question for the account: silentFreighter, getAddress, connect
\* or getPublicKey of xBull.  A refresh whose account is the same, or is not told, goes
\* on to the network.
AddressRead(s) ==
    LET t == tasks[s]
        address == wallet[t.connector].account
        goOn(step) == /\ tasks' = [tasks EXCEPT ![s] = [t EXCEPT !.step = step, !.address = address]]
                      /\ UNCHANGED <<page, stored>>
    IN  /\ t.step = "address"
        /\ \/ t.op # "refresh" /\ address # None /\ goOn("network")
           \/ t.op = "refresh" /\ address \notin {None, t.publicKey} /\ goOn("network")
           \/ t.op = "refresh" /\ address \in {None, t.publicKey} /\ goOn("detect")
           \/ t.op = "connect" /\ address = None /\ ConnectFails(s)
           \/ t.op = "reconnect" /\ address = None /\ ReconnectEnds(s, FALSE)
           \/ t.op = "reconnect" /\ address = None /\ t.connector = "xbull"
                /\ ReconnectEnds(s, TRUE)
        /\ UNCHANGED <<wallet, changes, left>>

\* The answer to the question for the network.  detectFreighterNetwork turns a failure
\* into null; xBull's getNetwork may throw.
NetworkRead(s) ==
    LET t == tasks[s]
        detected == wallet[t.connector].network
        next == IF t.step = "network" THEN "apply" ELSE "show"
    IN  /\ t.step \in {"network", "detect"}
        /\ \/ /\ tasks' = [tasks EXCEPT ![s] = [t EXCEPT !.step = next, !.detected = detected]]
              /\ UNCHANGED <<page, stored>>
           \/ /\ t.connector = "xbull" /\ detected = None
              /\ \/ t.op = "connect" /\ ConnectFails(s)
                 \/ t.op = "reconnect" /\ ReconnectEnds(s, TRUE)
        /\ UNCHANGED <<wallet, changes, left>>

\* connect takes the network of the wallet, or the one it captured.
ConnectSucceeds(s) ==
    LET t == tasks[s]
        network == IF t.detected = None THEN t.network ELSE t.detected
    IN  /\ t.op = "connect" /\ t.step = "apply"
        /\ stored' = Session(t.connector, t.address, network)
        /\ page' = [PageWith(stored', t.detected) EXCEPT !.connecting = FALSE]
        /\ End(s)
        /\ UNCHANGED <<wallet, changes, left>>

\* Mutant: the account that was captured is applied, not the one that was read.
AccountChanges_Captured(s) ==
    LET t == tasks[s]
    IN  /\ t.op = "refresh" /\ t.step = "apply"
        /\ stored' = Session("freighter", t.publicKey, t.network)
        /\ page' = PageWith(stored', t.detected)
        /\ tasks' = [tasks EXCEPT ![s] = [t EXCEPT !.step = "detect", !.detected = None]]
        /\ UNCHANGED <<wallet, changes, left>>

\* refresh found another account; it asks for the network once more.
AccountChanges(s) ==
    LET t == tasks[s]
    IN  /\ t.op = "refresh" /\ t.step = "apply"
        /\ stored' = Session("freighter", t.address, t.network)
        /\ page' = PageWith(stored', t.detected)
        /\ tasks' = [tasks EXCEPT ![s] = [t EXCEPT !.step = "detect", !.detected = None]]
        /\ UNCHANGED <<wallet, changes, left>>

\* The silent reconnect keeps the network that was stored when the page was loaded.
ReconnectSucceeds(s) ==
    LET t == tasks[s]
    IN  /\ t.op = "reconnect" /\ t.step = "apply"
        /\ stored' = Session(t.connector, t.address, t.network)
        /\ page' = [PageWith(stored', t.detected) EXCEPT !.reconnecting = FALSE]
        /\ End(s)
        /\ UNCHANGED <<wallet, changes, left>>

\* refresh and setNetwork end with the network of the wallet.
ShowWalletNetwork(s) ==
    /\ tasks[s].step = "show"
    /\ page' = [page EXCEPT !.walletNetwork = tasks[s].detected]
    /\ End(s)
    /\ UNCHANGED <<stored, wallet, changes, left>>

\* disconnect goes on when xBull has answered or failed.
XBullDisconnected(s) ==
    /\ tasks[s].step = "clear"
    /\ ClearSession
    /\ End(s)
    /\ UNCHANGED <<wallet, changes>>

GoOn(s) ==
    \/ AddressRead(s) \/ NetworkRead(s)
    \/ ConnectSucceeds(s) \/ AccountChanges(s) \/ ReconnectSucceeds(s)
    \/ ShowWalletNetwork(s) \/ XBullDisconnected(s)

\* The user turns to a wallet.
WalletChanges(c) ==
    /\ changes < MaxChanges
    /\ changes' = changes + 1
    /\ \E w \in WalletStates[c] : w # wallet[c] /\ wallet' = [wallet EXCEPT ![c] = w]
    /\ UNCHANGED <<page, stored, tasks, left>>

----------------------------------------------------------------------------
\* A first visit.
SessionInit ==
    /\ page = [FreshPage EXCEPT !.reconnecting = FALSE]
    /\ stored = NoSession
    /\ tasks = [s \in Slots |-> Idle]
    /\ wallet \in [Connectors -> UNION {WalletStates[c] : c \in Connectors}]
    /\ \A c \in Connectors : wallet[c] \in WalletStates[c]
    /\ changes = 0
    /\ left = FALSE

SessionNext ==
    \/ \E c \in Connectors : Connect(c) \/ WalletChanges(c)
    \/ \E n \in Networks : SetNetwork(n)
    \/ Disconnect \/ Refresh \/ Reload
    \/ \E s \in Slots : GoOn(s)

SessionSpec == SessionInit /\ [][SessionNext]_sessionVars

\* The interval fires again and again while there is a Freighter session, and the
\* wallet answers; but nobody has to answer the dialogue of connect.
FairSessionSpec ==
    /\ SessionSpec
    /\ SF_sessionVars(Refresh)
    /\ \A s \in Slots : WF_sessionVars(tasks[s].op # "connect" /\ GoOn(s))

----------------------------------------------------------------------------
(* Properties.                                                              *)

\* The account on the page is one of the wallet that the page names, although
\* operations about one wallet end when the session is with the other.
AccountOfItsWallet ==
    page.publicKey # None =>
        \E w \in WalletStates[page.connector] : w.account = page.publicKey

\* A reload at any moment restores the session on the page, or none: the stored session
\* is never an older one (applySession, setNetwork, disconnect).
StoredIsShown ==
    page.publicKey # None /\ stored # NoSession =>
        stored = Session(page.connector, page.publicKey, page.network)

\* When the wallets have come to rest, the page of a Freighter session ends up with
\* Freighter's account and network, however late older answers were used (refresh).
SessionFollowsWallet ==
    LET freighter == wallet["freighter"]
    IN  <>[](page.connector = "freighter" =>
                /\ page.walletNetwork = freighter.network
                /\ freighter.account # None => page.publicKey = freighter.account)

\* WalletProvider.tsx:234: "Wallet disconnect is best-effort; local session is cleared
\* regardless."  So there is no session between a disconnect and the next connect or
\* load of the page.
DisconnectClears == left => page.publicKey = None /\ stored = NoSession
=============================================================================
