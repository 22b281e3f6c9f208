--------------------------- MODULE AuthChallenge ---------------------------
(***************************************************************************)
(* The wallet challenges of apps/server/src/middleware/auth.ts and          *)
(* routes/auth.ts: a wallet asks for a challenge, signs it, and sends the   *)
(* signature back while the challenge lives.                                *)
(*                                                                         *)
(* Handlers are synchronous, so each is one action; but they read the clock *)
(* twice, and it may move between the two readings.  Requests come from the *)
(* network: late, repeated, with the key of one wallet and the signature of *)
(* another.  The table lives in the memory of the process.                  *)
(***************************************************************************)
EXTENDS Integers, Sequences, FiniteSets

CONSTANTS
    Wallets,            \* key pairs of Stellar accounts
    CHALLENGE_TTL_MS,   \* lifetime of a challenge
    MAX_CHALLENGES,     \* size that pruning cuts the table down to
    HandlerTime,        \* bound: how far the clock moves within a handler
    MaxTime,            \* bound: the last reading of the clock
    MaxIssued           \* bound: challenges issued

ASSUME AuthAssumption ==
    /\ CHALLENGE_TTL_MS \in Nat \ {0}
    /\ MAX_CHALLENGES \in Nat \ {0}
    /\ HandlerTime \in Nat /\ MaxTime \in Nat /\ MaxIssued \in Nat

VARIABLES
    now,            \* Date.now(), which does not go back
    issued,         \* the challenges ever issued; the place of one is its nonce
    challenges,     \* the nonces that the table holds
    accepted,       \* history: the verifications that succeeded
    booted          \* history: the challenges issued before this process started

authVars == <<now, issued, challenges, accepted, booted>>

----------------------------------------------------------------------------
\* The bugs that the properties must find: the overflow keeps the oldest challenges,
\* or one too many; an answered challenge is not consumed; the
\* table is looked up by the nonce alone.
Newer_Swapped(m, n) ==
    \/ issued[m].expiresAt < issued[n].expiresAt
    \/ issued[m].expiresAt = issued[n].expiresAt /\ m < n

\* The second reading of the clock in a handler.
LaterReading == {t \in now .. now + HandlerTime : t <= MaxTime}

\* Expired at a reading of the clock.
Expired(n, t) == issued[n].expiresAt <= t

\* The order of the overflow: by expiresAt, then by the order of insertion.
Newer(m, n) ==
    \/ issued[m].expiresAt > issued[n].expiresAt
    \/ issued[m].expiresAt = issued[n].expiresAt /\ m > n

Latest_OneMore(nonces) ==
    {n \in nonces : Cardinality({m \in nonces : Newer(m, n)}) <= MAX_CHALLENGES}

\* What the overflow keeps.
Latest(nonces) ==
    {n \in nonces : Cardinality({m \in nonces : Newer(m, n)}) < MAX_CHALLENGES}

\* pruneChallenges: what is left of the table.  A consumed record is already deleted.
Pruned(t) == Latest({n \in challenges : ~ Expired(n, t)})

Consumed_Kept(nonce) == Pruned(now)

\* The table after a record is answered or found expired.
Consumed(nonce) == Pruned(now) \ {nonce}

\* issueStellarChallenge: the table is pruned before the challenge is added.
IssueStellarChallenge(wallet) ==
    /\ Len(issued) < MaxIssued
    /\ \E t \in LaterReading :
          /\ now' = t
          /\ issued' = Append(issued, [publicKey |-> wallet, expiresAt |-> t + CHALLENGE_TTL_MS])
    /\ challenges' = Pruned(now) \cup {Len(issued) + 1}
    /\ UNCHANGED <<accepted, booted>>

Found_AnyWallet(publicKey, nonce) == nonce \in Pruned(now)

\* The record that a request names.
Found(publicKey, nonce) == nonce \in Pruned(now) /\ issued[nonce].publicKey = publicKey

\* verifyStellarChallenge: no such record.
RejectUnknown(publicKey, nonce) ==
    /\ ~ Found(publicKey, nonce)
    /\ challenges' = Pruned(now)
    /\ UNCHANGED <<now, issued, accepted, booted>>

\* The record expires between the pruning and the check.
RejectExpired(publicKey, nonce) ==
    /\ Found(publicKey, nonce)
    /\ now' \in LaterReading
    /\ Expired(nonce, now')
    /\ challenges' = Consumed(nonce)
    /\ UNCHANGED <<issued, accepted, booted>>

\* The ed25519 signature of a wallet over the message of a challenge.
Verifies(publicKey, nonce, signature) ==
    signature = [wallet |-> publicKey, nonce |-> nonce]

RejectSignature(publicKey, nonce, signature) ==
    /\ Found(publicKey, nonce)
    /\ now' \in LaterReading
    /\ ~ Expired(nonce, now')
    /\ ~ Verifies(publicKey, nonce, signature)
    /\ challenges' = Pruned(now)
    /\ UNCHANGED <<issued, accepted, booted>>

\* The challenge is consumed, and the middleware passes the request on.
Accept(publicKey, nonce, signature) ==
    /\ Found(publicKey, nonce)
    /\ now' \in LaterReading
    /\ ~ Expired(nonce, now')
    /\ Verifies(publicKey, nonce, signature)
    /\ challenges' = Consumed(nonce)
    /\ accepted' = Append(accepted, [publicKey |-> publicKey, nonce |-> nonce, at |-> now'])
    /\ UNCHANGED <<issued, booted>>

Verify(publicKey, nonce, signature) ==
    \/ RejectUnknown(publicKey, nonce)
    \/ RejectExpired(publicKey, nonce)
    \/ RejectSignature(publicKey, nonce, signature)
    \/ Accept(publicKey, nonce, signature)

\* Time passes between the requests.
ClockMoves ==
    /\ now' \in now + 1 .. MaxTime
    /\ UNCHANGED <<issued, challenges, accepted, booted>>

\* The process is restarted: the table is lost.
Restart ==
    /\ challenges' = {}
    /\ booted' = Len(issued)
    /\ UNCHANGED <<now, issued, accepted>>

----------------------------------------------------------------------------
\* The signatures that wallets can make.
Signature == [wallet: Wallets, nonce: DOMAIN issued]

AuthInit ==
    /\ now = 0
    /\ issued = <<>> /\ challenges = {}
    /\ accepted = <<>> /\ booted = 0

AuthNext ==
    \/ \E w \in Wallets : IssueStellarChallenge(w)
    \/ \E w \in Wallets, n \in DOMAIN issued, s \in Signature : Verify(w, n, s)
    \/ ClockMoves
    \/ Restart

AuthSpec == AuthInit /\ [][AuthNext]_authVars

----------------------------------------------------------------------------
(* Properties.                                                              *)

\* Types of the table and of the histories.  The table holds challenges of this
\* process that are not answered yet.
AuthTypeOK ==
    /\ now \in Nat
    /\ issued \in Seq([publicKey: Wallets, expiresAt: Nat])
    /\ challenges \subseteq booted + 1 .. Len(issued)
    /\ \A i \in DOMAIN accepted : accepted[i].nonce \notin challenges
    /\ accepted \in Seq([publicKey: Wallets, nonce: DOMAIN issued, at: Nat])
    /\ booted \in 0 .. Len(issued)

\* A challenge opens the door once, to its own wallet and before it expires, however
\* its answer is repeated or delayed and whatever the process lost in between
\* (verifyStellarChallenge).
AcceptedOnceInTime ==
    /\ \A i, j \in DOMAIN accepted :
          accepted[i].nonce = accepted[j].nonce => i = j
    /\ \A i \in DOMAIN accepted :
          LET challenge == issued[accepted[i].nonce]
          IN  /\ accepted[i].publicKey = challenge.publicKey
              /\ accepted[i].at < challenge.expiresAt

\* A wallet that answers in time is not turned away: within one process a challenge
\* stays in the table until it is accepted, expires, or MAX_CHALLENGES others were
\* issued after it (pruneChallenges).
KeptWhileItLives ==
    \A n \in booted + 1 .. Len(issued) :
        \/ n \in challenges
        \/ Expired(n, now)
        \/ Len(issued) - n >= MAX_CHALLENGES
        \/ \E i \in DOMAIN accepted : accepted[i].nonce = n

\* The table is pruned before a challenge is added to it, and so holds at most one
\* more than MAX_CHALLENGES.
TableIsBounded == Cardinality(challenges) <= MAX_CHALLENGES + 1

=============================================================================
