------------------------ MODULE WalletSessionProofs ------------------------
(***************************************************************************)
(* Theorems about WalletSession, for any accounts and networks of the two   *)
(* wallets, any number of operations in progress and any interleaving.      *)
(***************************************************************************)
EXTENDS WalletSession, TLAPS

AccountsOf(c) == {w.account : w \in WalletStates[c]} \ {None}
Account == UNION {AccountsOf(c) : c \in Connectors}

Page ==
    [connector : Connectors \cup {None}, publicKey : Account \cup {None}, network : Networks,
     walletNetwork : Networks \cup {None}, connecting : BOOLEAN, reconnecting : BOOLEAN]

Operation ==
    [op : {"none", "connect", "reconnect", "refresh", "setNetwork", "disconnect"},
     step : {"none", "address", "network", "detect", "apply", "show", "clear"},
     connector : Connectors \cup {None}, publicKey : Account \cup {None},
     network : Networks \cup {None}, address : Account \cup {None},
     detected : Networks \cup {None}]

\* The operations that may end with a session: they name a wallet and a network.
AsksForSession(t) ==
    /\ t.op \in {"connect", "reconnect", "refresh"}
    /\ t.connector \in Connectors /\ t.network \in Networks
    /\ t.op = "refresh" => t.connector = "freighter"

\* What an operation holds when it goes on: the account that it has read, from the
\* wallet that it will name; or nothing but the question for Freighter's network.
Coherent(t) ==
    /\ t.step = "address" => AsksForSession(t)
    /\ t.step \in {"network", "apply"} =>
          AsksForSession(t) /\ t.address \in AccountsOf(t.connector)
    /\ t.step = "detect" => t.connector = "freighter" /\ t.op \in {"refresh", "setNetwork"}

TasksAreCoherent ==
    /\ tasks \in [Slots -> Operation]
    /\ \A s \in Slots : Coherent(tasks[s])

WalletsAreOwn == \A c \in Connectors : wallet[c] \in WalletStates[c]

\* The persisted session is none, or one with an account of its wallet.
StoredOfItsWallet ==
    \/ stored = NoSession
    \/ \E c \in Connectors, n \in Networks : \E a \in AccountsOf(c) : stored = Session(c, a, n)

ShownOfItsWallet ==
    page.publicKey # None =>
        page.connector \in Connectors /\ page.publicKey \in AccountsOf(page.connector)

\* The session on the page and the one that is stored.
SessionIsTold ==
    /\ page \in Page
    /\ StoredOfItsWallet /\ ShownOfItsWallet
    /\ StoredIsShown

SessionInv == TasksAreCoherent /\ WalletsAreOwn /\ SessionIsTold

-----------------------------------------------------------------------------
(* What a step can do to the session.                                       *)

\* A session has an account and a network, so it is not the empty one.
LEMMA SessionIsNot ==
    ASSUME NEW c, NEW a, NEW n \in Networks
    PROVE  Session(c, a, n) # NoSession
BY WalletAssumption DEF Session, NoSession, WalletAssumption

\* The page without a session.
LEMMA NothingShown ==
    ASSUME SessionIsTold, page' \in Page, page'.publicKey = None, stored' \in {stored, NoSession}
    PROVE  SessionIsTold'
BY DEF SessionIsTold, StoredOfItsWallet, ShownOfItsWallet, StoredIsShown

\* The page with the same session, which may be forgotten.
LEMMA SameShown ==
    ASSUME SessionIsTold, page' \in Page, stored' \in {stored, NoSession},
           page'.connector = page.connector, page'.publicKey = page.publicKey,
           page'.network = page.network
    PROVE  SessionIsTold'
BY DEF SessionIsTold, StoredOfItsWallet, ShownOfItsWallet, StoredIsShown

\* A session that is applied.
LEMMA Applied ==
    ASSUME NEW c \in Connectors, NEW a \in AccountsOf(c), NEW n \in Networks,
           stored' = Session(c, a, n), page' \in Page,
           page'.connector = c, page'.publicKey = a, page'.network = n
    PROVE  SessionIsTold'
BY DEF SessionIsTold, StoredOfItsWallet, ShownOfItsWallet, StoredIsShown

\* One operation begins, goes on or ends.
LEMMA TaskChange ==
    ASSUME TasksAreCoherent, NEW s \in Slots, NEW t \in Operation, Coherent(t),
           tasks' = [tasks EXCEPT ![s] = t]
    PROVE  TasksAreCoherent'
<1>1. tasks' \in [Slots -> Operation]
  BY DEF TasksAreCoherent
<1>2. ASSUME NEW r \in Slots PROVE Coherent(tasks'[r])
  <2>1. tasks'[r] = t \/ tasks'[r] = tasks[r]
    BY DEF TasksAreCoherent
  <2> QED BY <2>1 DEF TasksAreCoherent
<1> QED BY <1>1, <1>2 DEF TasksAreCoherent, Coherent, AsksForSession

LEMMA IdleIsCoherent == Idle \in Operation /\ Coherent(Idle)
BY DEF Idle, Task, Operation, Coherent

LEMMA EndTask ==
    ASSUME TasksAreCoherent, NEW s \in Slots, End(s)
    PROVE  TasksAreCoherent'
BY TaskChange, IdleIsCoherent DEF End

LEMMA BeginTask ==
    ASSUME TasksAreCoherent, NEW t \in Operation, Coherent(t), Begin(t)
    PROVE  TasksAreCoherent'
BY TaskChange DEF Begin

\* The wallets stay as they are in every step of the page.
LEMMA SameWallets ==
    ASSUME WalletsAreOwn, UNCHANGED wallet
    PROVE  WalletsAreOwn'
BY DEF WalletsAreOwn

-----------------------------------------------------------------------------
(* The calls keep the invariant.                                            *)

LEMMA InitInv == SessionInit => SessionInv
<1> SUFFICES ASSUME SessionInit PROVE SessionInv
  OBVIOUS
<1>1. TasksAreCoherent
  BY IdleIsCoherent DEF SessionInit, TasksAreCoherent
<1>2. WalletsAreOwn
  BY DEF SessionInit, WalletsAreOwn
<1>3. page \in Page /\ page.publicKey = None /\ stored = NoSession
  BY WalletAssumption DEF SessionInit, FreshPage, Page, WalletAssumption
<1>4. SessionIsTold
  BY <1>3 DEF SessionIsTold, StoredOfItsWallet, ShownOfItsWallet, StoredIsShown
<1> QED BY <1>1, <1>2, <1>4 DEF SessionInv

LEMMA ConnectInv ==
    ASSUME SessionInv, NEW c \in Connectors, Connect(c)
    PROVE  SessionInv'
<1> DEFINE t == Task("connect", "address", c, None, page.network)
<1>1. page \in Page BY DEF SessionInv, SessionIsTold
<1>2. t \in Operation /\ Coherent(t)
  BY <1>1 DEF Page, Task, Operation, Coherent, AsksForSession
<1>3. TasksAreCoherent'
  <2> HIDE DEF t
  <2> QED BY <1>2, BeginTask DEF SessionInv, Connect, t
<1>4. SessionIsTold'
  BY <1>1, SameShown DEF SessionInv, Connect, Page
<1> QED BY <1>3, <1>4, SameWallets DEF SessionInv, Connect

\* What disconnect clears.
LEMMA ClearInv ==
    ASSUME SessionIsTold, ClearSession
    PROVE  SessionIsTold'
<1>1. page' \in Page /\ page'.publicKey = None
  BY DEF SessionIsTold, ClearSession, Page
<1> QED BY <1>1, NothingShown DEF ClearSession

LEMMA DisconnectInv ==
    ASSUME SessionInv, Disconnect
    PROVE  SessionInv'
<1>1. CASE page.connector = "xbull"
  <2> DEFINE t == Task("disconnect", "clear", "xbull", None, None)
  <2>1. t \in Operation /\ Coherent(t)
    BY DEF Task, Operation, Coherent, Connectors
  <2>2. TasksAreCoherent'
    <3> HIDE DEF t
    <3> QED BY <1>1, <2>1, BeginTask DEF SessionInv, Disconnect, t
  <2>3. SessionIsTold'
    BY <1>1 DEF SessionInv, Disconnect, SessionIsTold, StoredOfItsWallet, ShownOfItsWallet,
                StoredIsShown
  <2> QED BY <2>2, <2>3, SameWallets DEF SessionInv, Disconnect
<1>2. CASE page.connector # "xbull"
  <2>1. TasksAreCoherent'
    BY <1>2 DEF SessionInv, Disconnect, TasksAreCoherent
  <2> QED BY <1>2, <2>1, ClearInv, SameWallets DEF SessionInv, Disconnect
<1> QED BY <1>1, <1>2

LEMMA SetNetworkInv ==
    ASSUME SessionInv, NEW n \in Networks, SetNetwork(n)
    PROVE  SessionInv'
<1> DEFINE t == Task("setNetwork", "detect", "freighter", None, None)
<1>1. t \in Operation /\ Coherent(t)
  BY DEF Task, Operation, Coherent, Connectors
<1>2. TasksAreCoherent'
  <2>1. CASE Begin(t)
    <3> HIDE DEF t
    <3> QED BY <1>1, <2>1, BeginTask DEF SessionInv
  <2>2. CASE UNCHANGED tasks
    BY <2>2 DEF SessionInv, TasksAreCoherent
  <2> QED BY <2>1, <2>2 DEF SetNetwork
<1>3. /\ page \in Page /\ page' \in Page
      /\ page'.connector = page.connector /\ page'.publicKey = page.publicKey
      /\ page'.network = n
  BY DEF SessionInv, SessionIsTold, SetNetwork, Page
<1>4. ShownOfItsWallet'
  BY <1>3 DEF SessionInv, SessionIsTold, ShownOfItsWallet
<1>5. SessionIsTold'
  <2>1. CASE stored = NoSession
    BY <1>3, <1>4, <2>1 DEF SessionIsTold, SetNetwork, StoredOfItsWallet, StoredIsShown
  <2>2. CASE stored # NoSession
    <3>1. PICK c \in Connectors, m \in Networks : \E a \in AccountsOf(c) : stored = Session(c, a, m)
      BY <2>2 DEF SessionInv, SessionIsTold, StoredOfItsWallet
    <3>2. PICK a \in AccountsOf(c) : stored = Session(c, a, m)
      BY <3>1
    <3>3. stored' = Session(c, a, n)
      BY <2>2, <3>2 DEF SetNetwork, Session
    <3>4. StoredOfItsWallet'
      BY <3>3 DEF StoredOfItsWallet
    <3>5. page.publicKey # None => page.connector = c /\ page.publicKey = a
      BY <2>2, <3>2 DEF SessionInv, SessionIsTold, StoredIsShown, Session
    <3>6. StoredIsShown'
      BY <1>3, <3>3, <3>5 DEF StoredIsShown
    <3> QED BY <1>3, <1>4, <3>4, <3>6 DEF SessionIsTold
  <2> QED BY <2>1, <2>2
<1> QED BY <1>2, <1>5, SameWallets DEF SessionInv, SetNetwork

LEMMA RefreshInv ==
    ASSUME SessionInv, Refresh
    PROVE  SessionInv'
<1> DEFINE t == Task("refresh", "address", "freighter", page.publicKey, page.network)
<1>1. page \in Page BY DEF SessionInv, SessionIsTold
<1>2. t \in Operation /\ Coherent(t)
  BY <1>1 DEF Page, Task, Operation, Coherent, AsksForSession, Connectors
<1>3. TasksAreCoherent'
  <2> HIDE DEF t
  <2> QED BY <1>2, BeginTask DEF SessionInv, Refresh, t
<1>4. SessionIsTold'
  BY DEF Refresh, SessionInv, SessionIsTold, StoredOfItsWallet, ShownOfItsWallet, StoredIsShown
<1> QED BY <1>3, <1>4, SameWallets DEF SessionInv, Refresh

\* The session that is stored is one to ask for.
LEMMA ReloadInv ==
    ASSUME SessionInv, Reload
    PROVE  SessionInv'
<1>1. SessionIsTold /\ WalletsAreOwn' /\ stored' = stored
  BY SameWallets DEF SessionInv, Reload
<1>2. CASE stored = NoSession
  <2>1. TasksAreCoherent'
    BY <1>2, IdleIsCoherent DEF Reload, TasksAreCoherent, Coherent, AsksForSession
  <2>2. page' \in Page /\ page'.publicKey = None
    BY <1>2, WalletAssumption DEF Reload, FreshPage, Page, WalletAssumption
  <2> QED BY <1>1, <2>1, <2>2, NothingShown DEF SessionInv
<1>3. CASE stored # NoSession
  <2>1. PICK c \in Connectors, n \in Networks : \E a \in AccountsOf(c) : stored = Session(c, a, n)
    BY <1>1, <1>3 DEF SessionIsTold, StoredOfItsWallet
  <2>2. PICK a \in AccountsOf(c) : stored = Session(c, a, n)
    BY <2>1
  <2> DEFINE t == Task("reconnect", "address", stored.connector, stored.publicKey, stored.network)
  <2>3. t \in Operation /\ Coherent(t)
    <3>1. a \in Account BY DEF Account
    <3> QED BY <2>2, <3>1 DEF Session, Task, Operation, Coherent, AsksForSession
  <2>4. PICK s \in Slots : tasks' = [r \in Slots |-> IF r = s THEN t ELSE Idle]
    BY <1>3 DEF Reload
  <2>5. TasksAreCoherent'
    <3> HIDE DEF t
    <3>1. \A r \in Slots : tasks'[r] \in {t, Idle}
      BY <2>4
    <3>2. tasks' \in [Slots -> Operation]
      BY <2>3, <2>4, IdleIsCoherent
    <3>3. ASSUME NEW r \in Slots PROVE Coherent(tasks'[r])
      BY <2>3, <3>1, IdleIsCoherent
    <3> QED BY <3>2, <3>3 DEF TasksAreCoherent, Coherent, AsksForSession
  <2>6. page' \in Page /\ page'.publicKey = None
    BY <1>3, <2>2, WalletAssumption DEF Reload, FreshPage, Page, Session, WalletAssumption
  <2> QED BY <1>1, <2>5, <2>6, NothingShown DEF SessionInv
<1> QED BY <1>2, <1>3

-----------------------------------------------------------------------------
(* The operations keep the invariant when they go on.                       *)

\* A connect or a silent reconnect that fails ends without a session, or with the one
\* that the page still shows.
LEMMA FailureInv ==
    ASSUME SessionInv, NEW s \in Slots, UNCHANGED wallet,
           ConnectFails(s) \/ \E throws \in BOOLEAN : ReconnectEnds(s, throws)
    PROVE  SessionInv'
<1>1. page \in Page /\ SessionIsTold
  BY DEF SessionInv, SessionIsTold
<1>2. CASE ConnectFails(s)
  <2>1. page' \in Page /\ page'.publicKey = None
    BY <1>1, <1>2 DEF ConnectFails, Page
  <2> QED BY <1>1, <1>2, <2>1, NothingShown, EndTask, SameWallets DEF SessionInv, ConnectFails
<1>3. CASE \E throws \in BOOLEAN : ReconnectEnds(s, throws)
  <2>1. PICK throws \in BOOLEAN : ReconnectEnds(s, throws)
    BY <1>3
  <2>2. /\ page' \in Page /\ page'.connector = page.connector
        /\ page'.publicKey = page.publicKey /\ page'.network = page.network
    BY <1>1, <2>1 DEF ReconnectEnds, Page
  <2> QED BY <1>1, <2>1, <2>2, SameShown, EndTask, SameWallets DEF SessionInv, ReconnectEnds
<1> QED BY <1>2, <1>3

\* An operation that goes on and leaves the session alone.
LEMMA GoOnInv ==
    ASSUME SessionInv, NEW s \in Slots, NEW t \in Operation, Coherent(t),
           tasks' = [tasks EXCEPT ![s] = t], UNCHANGED <<page, stored, wallet>>
    PROVE  SessionInv'
<1>1. TasksAreCoherent'
  BY TaskChange DEF SessionInv
<1>2. SessionIsTold'
  BY DEF SessionInv, SessionIsTold, StoredOfItsWallet, ShownOfItsWallet, StoredIsShown
<1> QED BY <1>1, <1>2, SameWallets DEF SessionInv

LEMMA TaskFacts ==
    ASSUME SessionInv, NEW s \in Slots
    PROVE  tasks[s] \in Operation /\ Coherent(tasks[s])
BY DEF SessionInv, TasksAreCoherent

LEMMA AddressReadInv ==
    ASSUME SessionInv, NEW s \in Slots, AddressRead(s)
    PROVE  SessionInv'
<1> DEFINE t == tasks[s]
           address == wallet[t.connector].account
<1>1. /\ t \in Operation /\ AsksForSession(t)
      /\ t.step = "address" /\ UNCHANGED wallet
  BY TaskFacts DEF AddressRead, Coherent
<1>2. address = None \/ address \in AccountsOf(t.connector)
  <2>1. wallet[t.connector] \in WalletStates[t.connector]
    BY <1>1 DEF SessionInv, WalletsAreOwn, AsksForSession
  <2> QED BY <2>1 DEF AccountsOf
<1>3. address \in Account \cup {None}
  BY <1>1, <1>2 DEF Account, AsksForSession
<1>4. ASSUME NEW step \in {"network", "detect"},
             step = "network" => address # None,
             step = "detect" => t.op = "refresh",
             tasks' = [tasks EXCEPT ![s] = [t EXCEPT !.step = step, !.address = address]],
             UNCHANGED <<page, stored>>
      PROVE  SessionInv'
  <2> DEFINE u == [t EXCEPT !.step = step, !.address = address]
  <2>1. u \in Operation
    <3> HIDE DEF t, address
    <3> QED BY <1>1, <1>3, <1>4 DEF Operation
  <2>2. u.step = step /\ u.op = t.op /\ u.connector = t.connector
        /\ u.network = t.network /\ u.address = address
    <3> HIDE DEF t, address
    <3> QED BY <1>1 DEF Operation
  <2>3. Coherent(u)
    <3> HIDE DEF u, t, address
    <3> QED BY <1>1, <1>2, <1>4, <2>2 DEF Coherent, AsksForSession
  <2> HIDE DEF u
  <2>4. tasks' = [tasks EXCEPT ![s] = u]
    BY <1>4 DEF u
  <2> QED BY <1>1, <1>4, <2>1, <2>3, <2>4, GoOnInv
<1>5. CASE t.op # "refresh" /\ address # None
  BY <1>1, <1>4, <1>5 DEF AddressRead
<1>6. CASE t.op = "refresh"
  BY <1>4, <1>6 DEF AddressRead
<1>7. CASE \/ ConnectFails(s)
           \/ \E throws \in BOOLEAN : ReconnectEnds(s, throws)
  BY <1>1, <1>7, FailureInv
<1> QED BY <1>5, <1>6, <1>7 DEF AddressRead

LEMMA NetworkReadInv ==
    ASSUME SessionInv, NEW s \in Slots, NetworkRead(s)
    PROVE  SessionInv'
<1> DEFINE t == tasks[s]
           detected == wallet[t.connector].network
           next == IF t.step = "network" THEN "apply" ELSE "show"
<1>1. t \in Operation /\ Coherent(t) /\ t.step \in {"network", "detect"} /\ UNCHANGED wallet
  BY TaskFacts DEF NetworkRead
<1>2. t.connector \in Connectors
  BY <1>1 DEF Coherent, AsksForSession, Connectors
<1>3. detected \in Networks \cup {None}
  <2>1. wallet[t.connector] \in WalletStates[t.connector]
    BY <1>2 DEF SessionInv, WalletsAreOwn
  <2> QED BY <1>2, <2>1, WalletAssumption DEF WalletAssumption
<1>4. CASE /\ tasks' = [tasks EXCEPT ![s] = [t EXCEPT !.step = next, !.detected = detected]]
           /\ UNCHANGED <<page, stored>>
  <2> DEFINE u == [t EXCEPT !.step = next, !.detected = detected]
  <2>1. u \in Operation
    <3>1. next \in {"apply", "show"} OBVIOUS
    <3> HIDE DEF t, detected, next
    <3> QED BY <1>1, <1>3, <3>1 DEF Operation
  <2>2. /\ u.step = next /\ u.op = t.op /\ u.connector = t.connector
        /\ u.network = t.network /\ u.address = t.address
    <3> HIDE DEF t, detected, next
    <3> QED BY <1>1 DEF Operation
  <2>3. Coherent(u)
    <3> HIDE DEF u, t, detected
    <3> QED BY <1>1, <2>2 DEF Coherent, AsksForSession
  <2> HIDE DEF u
  <2>4. tasks' = [tasks EXCEPT ![s] = u]
    BY <1>4 DEF u
  <2> QED BY <1>1, <1>4, <2>1, <2>3, <2>4, GoOnInv
<1>5. CASE ConnectFails(s) \/ \E throws \in BOOLEAN : ReconnectEnds(s, throws)
  BY <1>1, <1>5, FailureInv
<1> QED BY <1>4, <1>5 DEF NetworkRead

\* An operation that applies a session applies the account that it has read from the
\* wallet that it names.
LEMMA ApplyFacts ==
    ASSUME SessionInv, NEW s \in Slots, tasks[s].step = "apply"
    PROVE  /\ tasks[s] \in Operation /\ AsksForSession(tasks[s])
           /\ tasks[s].connector \in Connectors /\ tasks[s].network \in Networks
           /\ tasks[s].address \in AccountsOf(tasks[s].connector)
           /\ tasks[s].address \in Account /\ tasks[s].detected \in Networks \cup {None}
<1>1. tasks[s] \in Operation /\ Coherent(tasks[s])
  BY TaskFacts
<1>2. AsksForSession(tasks[s]) /\ tasks[s].address \in AccountsOf(tasks[s].connector)
  BY <1>1 DEF Coherent
<1> QED BY <1>1, <1>2 DEF AsksForSession, Operation, Account

\* connect and the silent reconnect succeed.
LEMMA SuccessInv ==
    ASSUME SessionInv, NEW s \in Slots, ConnectSucceeds(s) \/ ReconnectSucceeds(s)
    PROVE  SessionInv'
<1> DEFINE t == tasks[s]
<1>1. t.step = "apply" /\ End(s) /\ UNCHANGED wallet
  BY DEF ConnectSucceeds, ReconnectSucceeds
<1>2. /\ t.connector \in Connectors /\ t.network \in Networks
      /\ t.address \in AccountsOf(t.connector)
      /\ t.address \in Account /\ t.detected \in Networks \cup {None}
  BY <1>1, ApplyFacts
<1>3. page \in Page
  BY DEF SessionInv, SessionIsTold
<1>4. PICK n \in Networks :
        /\ stored' = Session(t.connector, t.address, n)
        /\ \/ page' = [PageWith(stored', t.detected) EXCEPT !.connecting = FALSE]
           \/ page' = [PageWith(stored', t.detected) EXCEPT !.reconnecting = FALSE]
  BY <1>2, Zenon DEF ConnectSucceeds, ReconnectSucceeds
<1> HIDE DEF t
<1>5. /\ stored'.connector = t.connector /\ stored'.publicKey = t.address
      /\ stored'.network = n
  BY <1>4 DEF Session
<1>6. /\ page' \in Page /\ page'.connector = t.connector
      /\ page'.publicKey = t.address /\ page'.network = n
  BY <1>2, <1>3, <1>4, <1>5 DEF PageWith, Page
<1>7. SessionIsTold'
  BY <1>2, <1>4, <1>6, Applied
<1> QED BY <1>1, <1>7, EndTask, SameWallets DEF SessionInv

\* refresh applies another account and goes on.
LEMMA AccountChangesInv ==
    ASSUME SessionInv, NEW s \in Slots, AccountChanges(s)
    PROVE  SessionInv'
<1> DEFINE t == tasks[s]
           u == [t EXCEPT !.step = "detect", !.detected = None]
<1>1. t.step = "apply" /\ t.op = "refresh" /\ UNCHANGED wallet
  BY DEF AccountChanges
<1>2. /\ t \in Operation /\ t.connector = "freighter" /\ t.network \in Networks
      /\ t.address \in AccountsOf("freighter")
      /\ t.address \in Account /\ t.detected \in Networks \cup {None}
  BY <1>1, ApplyFacts DEF AsksForSession
<1>3. page \in Page
  BY DEF SessionInv, SessionIsTold
<1>4. /\ stored' = Session("freighter", t.address, t.network)
      /\ page' = PageWith(stored', t.detected)
      /\ tasks' = [tasks EXCEPT ![s] = u]
  BY DEF AccountChanges
<1> HIDE DEF t
<1>5. /\ page' \in Page /\ page'.connector = "freighter"
      /\ page'.publicKey = t.address /\ page'.network = t.network
  BY <1>2, <1>3, <1>4 DEF PageWith, Page, Session, Connectors
<1>6. SessionIsTold'
  BY <1>2, <1>4, <1>5, Applied DEF Connectors
<1>7. u \in Operation /\ Coherent(u)
  BY <1>1, <1>2 DEF Operation, Coherent
<1>8. TasksAreCoherent'
  <2> HIDE DEF u
  <2> QED BY <1>4, <1>7, TaskChange DEF SessionInv
<1> QED BY <1>1, <1>6, <1>8, SameWallets DEF SessionInv

LEMMA EndingInv ==
    ASSUME SessionInv, NEW s \in Slots, ShowWalletNetwork(s) \/ XBullDisconnected(s)
    PROVE  SessionInv'
<1>1. TasksAreCoherent' /\ WalletsAreOwn'
  BY EndTask, SameWallets DEF SessionInv, ShowWalletNetwork, XBullDisconnected
<1>2. CASE ShowWalletNetwork(s)
  <2>1. tasks[s].detected \in Networks \cup {None} /\ page \in Page
    BY TaskFacts DEF Operation, SessionInv, SessionIsTold
  <2>2. /\ page' \in Page /\ page'.connector = page.connector
        /\ page'.publicKey = page.publicKey /\ page'.network = page.network
    BY <1>2, <2>1 DEF ShowWalletNetwork, Page
  <2> QED BY <1>1, <1>2, <2>2, SameShown DEF SessionInv, ShowWalletNetwork
<1>3. CASE XBullDisconnected(s)
  BY <1>1, <1>3, ClearInv DEF SessionInv, XBullDisconnected
<1> QED BY <1>2, <1>3

LEMMA WalletChangesInv ==
    ASSUME SessionInv, NEW c \in Connectors, WalletChanges(c)
    PROVE  SessionInv'
<1>1. WalletsAreOwn'
  BY DEF SessionInv, WalletChanges, WalletsAreOwn
<1>2. TasksAreCoherent'
  BY DEF SessionInv, WalletChanges, TasksAreCoherent
<1>3. SessionIsTold'
  BY DEF SessionInv, WalletChanges, SessionIsTold, StoredOfItsWallet, ShownOfItsWallet,
         StoredIsShown
<1> QED BY <1>1, <1>2, <1>3 DEF SessionInv

LEMMA NextInv == SessionInv /\ [SessionNext]_sessionVars => SessionInv'
<1> SUFFICES ASSUME SessionInv, [SessionNext]_sessionVars PROVE SessionInv'
  OBVIOUS
<1>1. ASSUME NEW c \in Connectors, Connect(c) \/ WalletChanges(c) PROVE SessionInv'
  BY <1>1, ConnectInv, WalletChangesInv
<1>2. ASSUME NEW n \in Networks, SetNetwork(n) PROVE SessionInv'
  BY <1>2, SetNetworkInv
<1>3. CASE Disconnect \/ Refresh \/ Reload
  BY <1>3, DisconnectInv, RefreshInv, ReloadInv
<1>4. ASSUME NEW s \in Slots, GoOn(s) PROVE SessionInv'
  BY <1>4, AddressReadInv, NetworkReadInv, SuccessInv, AccountChangesInv, EndingInv DEF GoOn
<1>5. CASE UNCHANGED sessionVars
  BY <1>5 DEF sessionVars, SessionInv, TasksAreCoherent, WalletsAreOwn, SessionIsTold,
              StoredOfItsWallet, ShownOfItsWallet, StoredIsShown
<1> QED BY <1>1, <1>2, <1>3, <1>4, <1>5 DEF SessionNext

LEMMA Invariance == SessionSpec => []SessionInv
BY InitInv, NextInv, PTL DEF SessionSpec

-----------------------------------------------------------------------------

\* The account on the page is always one of the wallet that the page names: whichever
\* operations end late, applySession names the wallet that was asked.
THEOREM AccountsAreOfTheirWallet == SessionSpec => []AccountOfItsWallet
<1>1. SessionInv => AccountOfItsWallet
  BY DEF SessionInv, SessionIsTold, ShownOfItsWallet, AccountOfItsWallet, AccountsOf
<1> QED BY <1>1, Invariance, PTL

\* What localStorage holds is the session on the page, whenever there are both: every
\* operation that changes one of them changes the other in the same step.
THEOREM ReloadsRestore == SessionSpec => []StoredIsShown
<1>1. SessionInv => StoredIsShown
  BY DEF SessionInv, SessionIsTold
<1> QED BY <1>1, Invariance, PTL
=============================================================================
