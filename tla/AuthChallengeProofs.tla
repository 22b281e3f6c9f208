------------------------- MODULE AuthChallengeProofs -------------------------
(***************************************************************************)
(* Theorems about AuthChallenge, for any number of wallets, any lifetime    *)
(* and any size of the table.                                               *)
(***************************************************************************)
EXTENDS AuthChallenge, FiniteSetTheorems, SequenceTheorems, TLAPS

\* The table keeps the challenges that expire last, while KeptWhileItLives speaks of
\* those that were issued last: they are the same because expiry follows the order of
\* issue, which holds because the clock does not go back.
ExpiryFollowsIssue ==
    /\ \A n \in DOMAIN issued : issued[n].expiresAt <= now + CHALLENGE_TTL_MS
    /\ \A m, n \in DOMAIN issued : m <= n => issued[m].expiresAt <= issued[n].expiresAt

IndInv ==
    /\ AuthTypeOK
    /\ AcceptedOnceInTime
    /\ ExpiryFollowsIssue
    /\ KeptWhileItLives

-----------------------------------------------------------------------------
(* The pruning.                                                             *)

LEMMA IssuedFacts ==
    ASSUME AuthTypeOK
    PROVE  /\ Len(issued) \in Nat /\ DOMAIN issued = 1 .. Len(issued)
           /\ \A n \in DOMAIN issued :
                 issued[n].publicKey \in Wallets /\ issued[n].expiresAt \in Nat
           /\ Len(accepted) \in Nat /\ DOMAIN accepted = 1 .. Len(accepted)
           /\ \A i \in DOMAIN accepted :
                 accepted[i] \in [publicKey: Wallets, nonce: DOMAIN issued, at: Nat]
           /\ now \in Nat /\ booted \in 0 .. Len(issued)
           /\ challenges \subseteq DOMAIN issued /\ IsFiniteSet(challenges)
<1>1. /\ Len(issued) \in Nat /\ DOMAIN issued = 1 .. Len(issued)
      /\ \A n \in DOMAIN issued : issued[n] \in [publicKey: Wallets, expiresAt: Nat]
  BY ElementOfSeq, LenProperties DEF AuthTypeOK
<1>2. /\ Len(accepted) \in Nat /\ DOMAIN accepted = 1 .. Len(accepted)
      /\ \A i \in DOMAIN accepted :
            accepted[i] \in [publicKey: Wallets, nonce: DOMAIN issued, at: Nat]
  BY ElementOfSeq, LenProperties DEF AuthTypeOK
<1>3. now \in Nat /\ booted \in 0 .. Len(issued) /\ challenges \subseteq DOMAIN issued
  BY <1>1 DEF AuthTypeOK
<1>4. IsFiniteSet(challenges)
  <2>1. IsFiniteSet(1 .. Len(issued)) /\ challenges \in SUBSET (1 .. Len(issued))
    BY <1>1, <1>3, FS_Interval
  <2> QED BY <2>1, FS_Subset
<1> QED BY <1>1, <1>2, <1>3, <1>4

LEMMA PrunedIsKept == Pruned(now) \subseteq challenges
BY DEF Pruned, Latest

\* A challenge that has not expired is pruned only if MAX_CHALLENGES were issued after it.
LEMMA PrunedKeepsTheLast ==
    ASSUME AuthTypeOK, ExpiryFollowsIssue,
           NEW n \in challenges, ~ Expired(n, now), Len(issued) - n < MAX_CHALLENGES
    PROVE  n \in Pruned(now)
<1> DEFINE live == {m \in challenges : ~ Expired(m, now)}
           newer == {m \in live : Newer(m, n)}
<1>1. Len(issued) \in Nat /\ n \in 1 .. Len(issued)
  BY IssuedFacts
<1>2. newer \subseteq n + 1 .. Len(issued)
  <2> SUFFICES ASSUME NEW m \in challenges, Newer(m, n)
               PROVE  m \in n + 1 .. Len(issued)
    OBVIOUS
  <2>1. m \in 1 .. Len(issued) /\ issued[m].expiresAt \in Nat /\ issued[n].expiresAt \in Nat
    BY IssuedFacts
  <2>2. m <= n => issued[m].expiresAt <= issued[n].expiresAt
    BY IssuedFacts DEF ExpiryFollowsIssue
  <2> QED BY <1>1, <2>1, <2>2 DEF Newer
<1>3. /\ IsFiniteSet(n + 1 .. Len(issued))
      /\ Cardinality(n + 1 .. Len(issued)) = Len(issued) - n
  BY <1>1, FS_Interval
<1>4. Cardinality(newer) <= Len(issued) - n /\ IsFiniteSet(newer)
  BY <1>2, <1>3, FS_Subset
<1>5. Cardinality(newer) \in Nat
  BY <1>4, FS_CardinalityType
<1>6. Cardinality(newer) < MAX_CHALLENGES
  BY <1>1, <1>4, <1>5, AuthAssumption
<1> QED BY <1>6 DEF Pruned, Latest

\* The overflow keeps at most MAX_CHALLENGES: the numbers of newer challenges of those
\* it keeps are all different, and below MAX_CHALLENGES.
LEMMA LatestIsBounded ==
    ASSUME AuthTypeOK, NEW nonces \in SUBSET challenges
    PROVE  IsFiniteSet(Latest(nonces)) /\ Cardinality(Latest(nonces)) <= MAX_CHALLENGES
<1> DEFINE kept == Latest(nonces)
           newer(n) == {m \in nonces : Newer(m, n)}
           places == 0 .. MAX_CHALLENGES - 1
           place == [n \in kept |-> Cardinality(newer(n))]
<1>1. /\ \A n \in challenges : n \in Nat /\ issued[n].expiresAt \in Nat
      /\ IsFiniteSet(challenges)
  BY IssuedFacts
<1>2. IsFiniteSet(nonces) /\ kept \subseteq nonces
  BY <1>1, FS_Subset DEF Latest
<1>3. IsFiniteSet(kept)
  BY <1>2, FS_Subset
<1>4. \A n \in nonces : IsFiniteSet(newer(n)) /\ Cardinality(newer(n)) \in Nat
  BY <1>2, FS_Subset, FS_CardinalityType
<1>5. place \in [kept -> places]
  <2> SUFFICES ASSUME NEW n \in kept PROVE Cardinality(newer(n)) \in places
    OBVIOUS
  <2>1. Cardinality(newer(n)) < MAX_CHALLENGES
    BY DEF Latest
  <2> QED BY <1>2, <1>4, <2>1, AuthAssumption
<1>6. ASSUME NEW m \in kept, NEW n \in kept, Newer(m, n)
      PROVE  place[m] # place[n]
  <2>1. newer(m) \cup {m} \subseteq newer(n)
    BY <1>1, <1>2, <1>6 DEF Newer
  <2>2. m \notin newer(m)
    BY <1>1, <1>2 DEF Newer
  <2>3. Cardinality(newer(m) \cup {m}) = Cardinality(newer(m)) + 1
    BY <1>2, <1>4, <2>2, FS_AddElement
  <2>4. Cardinality(newer(m) \cup {m}) <= Cardinality(newer(n))
    BY <1>2, <1>4, <2>1, FS_Subset
  <2>5. Cardinality(newer(m)) \in Nat /\ Cardinality(newer(n)) \in Nat
    BY <1>2, <1>4
  <2> QED BY <2>3, <2>4, <2>5
<1>7. \A m, n \in kept : m # n => Newer(m, n) \/ Newer(n, m)
  BY <1>1, <1>2 DEF Newer
<1>8. \A m, n \in kept : m # n => place[m] # place[n]
  BY <1>6, <1>7
<1>9. IsFiniteSet(places) /\ Cardinality(places) = MAX_CHALLENGES
  BY FS_Interval, AuthAssumption
<1>10. ~ (Cardinality(places) < Cardinality(kept))
  <2> SUFFICES ASSUME Cardinality(places) < Cardinality(kept) PROVE FALSE
    OBVIOUS
  <2> HIDE DEF kept, places, place
  <2> QED BY <1>3, <1>5, <1>8, <1>9, FS_PigeonHole
<1>11. Cardinality(kept) \in Nat
  BY <1>3, FS_CardinalityType
<1> QED BY <1>3, <1>9, <1>10, <1>11, AuthAssumption

-----------------------------------------------------------------------------
(* The initial state.                                                       *)

LEMMA InitInv == AuthInit => IndInv
BY EmptySeq DEF AuthInit, IndInv, AuthTypeOK, AcceptedOnceInTime, ExpiryFollowsIssue,
                KeptWhileItLives

-----------------------------------------------------------------------------
(* The steps.                                                               *)

LEMMA LaterFacts ==
    ASSUME AuthTypeOK, NEW t \in LaterReading
    PROVE  t \in Nat /\ now <= t
BY AuthAssumption DEF AuthTypeOK, LaterReading

LEMMA IssueInv ==
    ASSUME IndInv, NEW wallet \in Wallets, IssueStellarChallenge(wallet)
    PROVE  IndInv'
<1> DEFINE nonce == Len(issued) + 1
           Record == [publicKey: Wallets, expiresAt: Nat]
<1>1. PICK t \in LaterReading :
        /\ now' = t
        /\ issued' = Append(issued, [publicKey |-> wallet, expiresAt |-> t + CHALLENGE_TTL_MS])
  BY DEF IssueStellarChallenge
<1>2. t \in Nat /\ now <= t
  BY LaterFacts DEF IndInv
<1>3. /\ challenges' = Pruned(now) \cup {nonce}
      /\ accepted' = accepted /\ booted' = booted
  BY DEF IssueStellarChallenge
<1>4. /\ issued \in Seq(Record)
      /\ [publicKey |-> wallet, expiresAt |-> t + CHALLENGE_TTL_MS] \in Record
  BY <1>2, AuthAssumption DEF IndInv, AuthTypeOK
<1>5. /\ issued' \in Seq(Record) /\ Len(issued') = nonce
      /\ \A n \in 1 .. Len(issued) : issued'[n] = issued[n]
      /\ issued'[nonce].publicKey = wallet
      /\ issued'[nonce].expiresAt = t + CHALLENGE_TTL_MS
  BY <1>1, <1>4, AppendProperties
<1>6. /\ Len(issued) \in Nat /\ DOMAIN issued = 1 .. Len(issued)
      /\ DOMAIN issued' = 1 .. nonce
      /\ now \in Nat /\ booted \in 0 .. Len(issued) /\ challenges \subseteq DOMAIN issued
      /\ \A n \in DOMAIN issued : issued[n].expiresAt \in Nat
      /\ \A i \in DOMAIN accepted : accepted[i].nonce \in DOMAIN issued
  BY <1>5, IssuedFacts, LenProperties DEF IndInv
<1> HIDE DEF nonce
<1>7. nonce = Len(issued) + 1
  BY DEF nonce
<1>8. AuthTypeOK'
  <2>1. accepted' \in Seq([publicKey: Wallets, nonce: DOMAIN issued', at: Nat])
    <3>1. [publicKey: Wallets, nonce: DOMAIN issued, at: Nat]
            \subseteq [publicKey: Wallets, nonce: DOMAIN issued', at: Nat]
      BY <1>6, <1>7
    <3> QED BY <1>3, <3>1, SeqMonotonic DEF IndInv, AuthTypeOK
  <2>2. challenges' \subseteq booted' + 1 .. Len(issued')
    BY <1>3, <1>5, <1>6, <1>7, PrunedIsKept DEF IndInv, AuthTypeOK
  <2>3. \A i \in DOMAIN accepted' : accepted'[i].nonce \notin challenges'
    <3>1. \A i \in DOMAIN accepted : accepted[i].nonce \notin challenges
      BY DEF IndInv, AuthTypeOK
    <3>2. \A i \in DOMAIN accepted : accepted[i].nonce # nonce
      BY <1>6, <1>7
    <3> QED BY <1>3, <3>1, <3>2, PrunedIsKept
  <2>4. now' \in Nat /\ booted' \in 0 .. Len(issued')
    BY <1>1, <1>2, <1>3, <1>5, <1>6, <1>7
  <2> QED BY <1>5, <2>1, <2>2, <2>3, <2>4 DEF AuthTypeOK
<1>9. AcceptedOnceInTime'
  <2>1. \A i \in DOMAIN accepted : issued'[accepted[i].nonce] = issued[accepted[i].nonce]
    BY <1>5, <1>6
  <2> QED BY <1>3, <2>1 DEF IndInv, AcceptedOnceInTime
<1>10. ExpiryFollowsIssue'
  <2>1. \A n \in DOMAIN issued : issued'[n].expiresAt <= now + CHALLENGE_TTL_MS
    BY <1>5, <1>6 DEF IndInv, ExpiryFollowsIssue
  <2>2. \A n \in DOMAIN issued' : issued'[n].expiresAt <= t + CHALLENGE_TTL_MS
    BY <1>2, <1>5, <1>6, <1>7, <2>1, AuthAssumption
  <2>3. ASSUME NEW m \in DOMAIN issued', NEW n \in DOMAIN issued', m <= n
        PROVE  issued'[m].expiresAt <= issued'[n].expiresAt
    <3>1. CASE n = nonce
      BY <1>5, <2>2, <3>1
    <3>2. CASE n # nonce
      BY <1>5, <1>6, <1>7, <2>3, <3>2 DEF IndInv, ExpiryFollowsIssue
    <3> QED BY <3>1, <3>2
  <2> QED BY <1>1, <2>2, <2>3 DEF ExpiryFollowsIssue
<1>11. KeptWhileItLives'
  <2> SUFFICES ASSUME NEW n \in booted + 1 .. nonce,
                      n # nonce, n \notin Pruned(now), ~ (issued[n].expiresAt <= t),
                      nonce - n < MAX_CHALLENGES
               PROVE  \E i \in DOMAIN accepted : accepted[i].nonce = n
    <3>1. \A n \in booted + 1 .. nonce : n # nonce => issued'[n] = issued[n]
      BY <1>5, <1>6, <1>7
    <3>2. MAX_CHALLENGES \in Nat
      BY AuthAssumption
    <3> QED BY <1>1, <1>3, <1>5, <1>6, <1>7, <3>1, <3>2 DEF KeptWhileItLives, Expired
  <2>1. n \in booted + 1 .. Len(issued) /\ Len(issued) - n < MAX_CHALLENGES
    BY <1>6, <1>7, AuthAssumption
  <2>2. ~ Expired(n, now)
    BY <1>2, <1>6, <2>1 DEF Expired
  <2>3. n \notin challenges
    BY <2>1, <2>2, PrunedKeepsTheLast DEF IndInv
  <2> QED BY <2>1, <2>2, <2>3, <1>6, AuthAssumption DEF IndInv, KeptWhileItLives
<1> QED BY <1>8, <1>9, <1>10, <1>11 DEF IndInv

\* What all answers to a verification have in common.
LEMMA AnswerInv ==
    ASSUME IndInv, UNCHANGED <<issued, booted>>,
           now' \in Nat, now <= now',
           challenges' \subseteq challenges,
           \A n \in Pruned(now) \ challenges' :
              Expired(n, now') \/ \E i \in DOMAIN accepted' : accepted'[i].nonce = n,
           \A n \in DOMAIN issued :
              (\E i \in DOMAIN accepted : accepted[i].nonce = n)
                 => \E i \in DOMAIN accepted' : accepted'[i].nonce = n
    PROVE  ExpiryFollowsIssue' /\ KeptWhileItLives'
<1>1. /\ Len(issued) \in Nat /\ DOMAIN issued = 1 .. Len(issued)
      /\ now \in Nat /\ booted \in 0 .. Len(issued)
      /\ \A n \in DOMAIN issued : issued[n].expiresAt \in Nat
  BY IssuedFacts DEF IndInv
<1>2. ExpiryFollowsIssue'
  <2>1. CHALLENGE_TTL_MS \in Nat
    BY AuthAssumption
  <2>2. \A n \in DOMAIN issued : issued[n].expiresAt <= now' + CHALLENGE_TTL_MS
    <3>1. \A n \in DOMAIN issued : issued[n].expiresAt <= now + CHALLENGE_TTL_MS
      BY DEF IndInv, ExpiryFollowsIssue
    <3> QED BY <1>1, <2>1, <3>1
  <2> QED BY <2>2 DEF IndInv, ExpiryFollowsIssue
<1>3. KeptWhileItLives'
  <2> SUFFICES ASSUME NEW n \in booted + 1 .. Len(issued),
                      n \notin challenges', ~ (issued[n].expiresAt <= now'),
                      Len(issued) - n < MAX_CHALLENGES
               PROVE  \E i \in DOMAIN accepted' : accepted'[i].nonce = n
    BY <1>1, AuthAssumption DEF KeptWhileItLives, Expired
  <2>1. n \in DOMAIN issued /\ ~ Expired(n, now) /\ ~ Expired(n, now')
    BY <1>1 DEF Expired
  <2>2. CASE n \in challenges
    BY <2>1, <2>2, PrunedKeepsTheLast DEF IndInv
  <2>3. CASE n \notin challenges
    BY <1>1, <2>1, <2>3, AuthAssumption DEF IndInv, KeptWhileItLives
  <2> QED BY <2>2, <2>3
<1> QED BY <1>2, <1>3

\* A step that accepts nothing: a rejection, or the clock.
LEMMA QuietInv ==
    ASSUME IndInv, UNCHANGED <<issued, accepted, booted>>,
           now' \in Nat, now <= now',
           challenges' \subseteq challenges,
           \A n \in Pruned(now) \ challenges' : Expired(n, now')
    PROVE  IndInv'
<1>1. AuthTypeOK'
  BY DEF IndInv, AuthTypeOK
<1>2. AcceptedOnceInTime'
  BY DEF IndInv, AcceptedOnceInTime
<1>3. ExpiryFollowsIssue' /\ KeptWhileItLives'
  BY AnswerInv
<1> QED BY <1>1, <1>2, <1>3 DEF IndInv

LEMMA RejectInv ==
    ASSUME IndInv, NEW publicKey \in Wallets, NEW nonce \in DOMAIN issued,
           NEW signature \in Signature,
           \/ RejectUnknown(publicKey, nonce)
           \/ RejectExpired(publicKey, nonce)
           \/ RejectSignature(publicKey, nonce, signature)
    PROVE  IndInv'
<1>1. now \in Nat
  BY DEF IndInv, AuthTypeOK
<1>2. CASE RejectUnknown(publicKey, nonce)
  BY <1>1, <1>2, PrunedIsKept, QuietInv DEF RejectUnknown
<1>3. CASE RejectExpired(publicKey, nonce)
  <2>1. now' \in Nat /\ now <= now'
    BY <1>3, LaterFacts DEF RejectExpired, IndInv
  <2>2. challenges' = Pruned(now) \ {nonce} /\ Expired(nonce, now')
    BY <1>3 DEF RejectExpired, Consumed
  <2> QED BY <1>3, <2>1, <2>2, PrunedIsKept, QuietInv DEF RejectExpired
<1>4. CASE RejectSignature(publicKey, nonce, signature)
  <2>1. now' \in Nat /\ now <= now'
    BY <1>4, LaterFacts DEF RejectSignature, IndInv
  <2> QED BY <1>4, <2>1, PrunedIsKept, QuietInv DEF RejectSignature
<1> QED BY <1>2, <1>3, <1>4

LEMMA AcceptInv ==
    ASSUME IndInv, NEW publicKey \in Wallets, NEW nonce \in DOMAIN issued,
           NEW signature \in Signature, Accept(publicKey, nonce, signature)
    PROVE  IndInv'
<1> DEFINE Entry == [publicKey: Wallets, nonce: DOMAIN issued, at: Nat]
           entry == [publicKey |-> publicKey, nonce |-> nonce, at |-> now']
           last == Len(accepted) + 1
<1>1. now' \in Nat /\ now <= now'
  BY LaterFacts DEF Accept, IndInv
<1>2. /\ nonce \in Pruned(now) /\ issued[nonce].publicKey = publicKey
      /\ ~ Expired(nonce, now')
      /\ challenges' = Pruned(now) \ {nonce}
      /\ accepted' = Append(accepted, entry)
      /\ UNCHANGED <<issued, booted>>
  BY DEF Accept, Found, Consumed
<1>3. accepted \in Seq(Entry) /\ entry \in Entry
  BY <1>1 DEF IndInv, AuthTypeOK
<1>4. /\ accepted' \in Seq(Entry) /\ Len(accepted') = last
      /\ \A i \in 1 .. Len(accepted) : accepted'[i] = accepted[i]
      /\ accepted'[last] = entry
  BY <1>2, <1>3, AppendProperties
<1>5. /\ Len(accepted) \in Nat
      /\ DOMAIN accepted = 1 .. Len(accepted) /\ DOMAIN accepted' = 1 .. last
  BY <1>3, <1>4, LenProperties
<1>6. \A i \in DOMAIN accepted : accepted[i].nonce \notin challenges
  BY DEF IndInv, AuthTypeOK
<1>7. nonce \in challenges /\ Pruned(now) \subseteq challenges
  BY <1>2, PrunedIsKept
<1> HIDE DEF last, entry
<1>8. last = Len(accepted) + 1 /\ entry.publicKey = publicKey
      /\ entry.nonce = nonce /\ entry.at = now'
  BY DEF last, entry
<1>9. \A i \in DOMAIN accepted' :
         i # last => i \in DOMAIN accepted /\ accepted'[i] = accepted[i]
  BY <1>4, <1>5, <1>8
<1>10. AuthTypeOK'
  <2>1. \A i \in DOMAIN accepted' : accepted'[i].nonce \notin challenges'
    BY <1>2, <1>4, <1>6, <1>7, <1>8, <1>9
  <2> QED BY <1>1, <1>2, <1>4, <1>7, <2>1 DEF IndInv, AuthTypeOK
<1>11. AcceptedOnceInTime'
  <2>1. ASSUME NEW i \in DOMAIN accepted', NEW j \in DOMAIN accepted',
               accepted'[i].nonce = accepted'[j].nonce
        PROVE  i = j
    BY <1>4, <1>6, <1>7, <1>8, <1>9, <2>1 DEF IndInv, AcceptedOnceInTime
  <2>2. ASSUME NEW i \in DOMAIN accepted'
        PROVE  /\ accepted'[i].publicKey = issued[accepted'[i].nonce].publicKey
               /\ accepted'[i].at < issued[accepted'[i].nonce].expiresAt
    <3>1. CASE i = last
      <4>1. issued[nonce].expiresAt \in Nat
        BY IssuedFacts DEF IndInv
      <4> QED BY <1>1, <1>2, <1>4, <1>8, <3>1, <4>1 DEF Expired
    <3>2. CASE i # last
      BY <1>9, <3>2 DEF IndInv, AcceptedOnceInTime
    <3> QED BY <3>1, <3>2
  <2> QED BY <1>2, <2>1, <2>2 DEF AcceptedOnceInTime
<1>12. ExpiryFollowsIssue' /\ KeptWhileItLives'
  <2>1. ASSUME NEW n, NEW i \in DOMAIN accepted, accepted[i].nonce = n
        PROVE  \E k \in DOMAIN accepted' : accepted'[k].nonce = n
    BY <1>4, <1>5, <1>8, <2>1
  <2>2. last \in DOMAIN accepted' /\ accepted'[last].nonce = nonce
    BY <1>4, <1>5, <1>8
  <2> QED BY <1>1, <1>2, <1>7, <2>1, <2>2, AnswerInv
<1> QED BY <1>10, <1>11, <1>12 DEF IndInv

LEMMA RestartInv == IndInv /\ Restart => IndInv'
<1> SUFFICES ASSUME IndInv, Restart PROVE IndInv'
  OBVIOUS
<1>1. Len(issued) \in Nat
  BY IssuedFacts DEF IndInv
<1>2. AuthTypeOK'
  BY <1>1 DEF Restart, IndInv, AuthTypeOK
<1>3. AcceptedOnceInTime' /\ ExpiryFollowsIssue'
  BY DEF Restart, IndInv, AcceptedOnceInTime, ExpiryFollowsIssue
<1>4. KeptWhileItLives'
  BY <1>1 DEF Restart, KeptWhileItLives
<1> QED BY <1>2, <1>3, <1>4 DEF IndInv

LEMMA StepInv == IndInv /\ [AuthNext]_authVars => IndInv'
<1> SUFFICES ASSUME IndInv, [AuthNext]_authVars PROVE IndInv'
  OBVIOUS
<1>1. CASE \E w \in Wallets : IssueStellarChallenge(w)
  BY <1>1, IssueInv
<1>2. CASE \E w \in Wallets, n \in DOMAIN issued, s \in Signature : Verify(w, n, s)
  BY <1>2, RejectInv, AcceptInv DEF Verify
<1>3. CASE ClockMoves
  <2>1. now' \in Nat /\ now <= now'
    BY <1>3, AuthAssumption DEF ClockMoves, IndInv, AuthTypeOK
  <2> QED BY <1>3, <2>1, PrunedIsKept, QuietInv DEF ClockMoves
<1>4. CASE Restart
  BY <1>4, RestartInv
<1>5. CASE UNCHANGED authVars
  <2>1. now \in Nat
    BY DEF IndInv, AuthTypeOK
  <2> QED BY <1>5, <2>1, PrunedIsKept, QuietInv DEF authVars
<1> QED BY <1>1, <1>2, <1>3, <1>4, <1>5 DEF AuthNext

LEMMA Invariance == AuthSpec => []IndInv
BY InitInv, StepInv, PTL DEF AuthSpec

-----------------------------------------------------------------------------
(* The theorems.                                                            *)

\* The table and the histories keep their types, and the table never holds a challenge
\* that was answered (verifyStellarChallenge).
THEOREM AuthTypes == AuthSpec => []AuthTypeOK
<1>1. IndInv => AuthTypeOK
  BY DEF IndInv
<1> QED BY <1>1, Invariance, PTL

\* A challenge is accepted once, from its own wallet and before it expires
\* (verifyStellarChallenge).
THEOREM SingleUse == AuthSpec => []AcceptedOnceInTime
<1>1. IndInv => AcceptedOnceInTime
  BY DEF IndInv
<1> QED BY <1>1, Invariance, PTL

\* Only MAX_CHALLENGES later ones push a living challenge out of the table
\* (pruneChallenges).
THEOREM NotPrunedEarly == AuthSpec => []KeptWhileItLives
<1>1. IndInv => KeptWhileItLives
  BY DEF IndInv
<1> QED BY <1>1, Invariance, PTL

\* The table holds at most MAX_CHALLENGES + 1 challenges: pruning leaves
\* MAX_CHALLENGES, and one is added before the next pruning (pruneChallenges,
\* issueStellarChallenge).
THEOREM BoundedTable == AuthSpec => []TableIsBounded
<1>1. AuthInit => TableIsBounded
  BY FS_EmptySet, AuthAssumption DEF AuthInit, TableIsBounded
<1>2. ASSUME IndInv, TableIsBounded, [AuthNext]_authVars PROVE TableIsBounded'
  <2>1. IsFiniteSet(Pruned(now)) /\ Cardinality(Pruned(now)) <= MAX_CHALLENGES
    <3> DEFINE live == {n \in challenges : ~ Expired(n, now)}
    <3>1. live \in SUBSET challenges /\ AuthTypeOK
      BY <1>2 DEF IndInv
    <3>2. Pruned(now) = Latest(live)
      BY DEF Pruned
    <3> HIDE DEF live
    <3> QED BY <3>1, <3>2, LatestIsBounded
  <2>2. Cardinality(Pruned(now)) \in Nat /\ MAX_CHALLENGES \in Nat
    BY <2>1, FS_CardinalityType, AuthAssumption
  <2>3. ASSUME NEW nonce, challenges' \subseteq Pruned(now) \cup {nonce}
        PROVE  TableIsBounded'
    <3>1. /\ IsFiniteSet(Pruned(now) \cup {nonce})
          /\ Cardinality(Pruned(now) \cup {nonce}) <= MAX_CHALLENGES + 1
      BY <2>1, <2>2, FS_AddElement
    <3>2. /\ IsFiniteSet(challenges')
          /\ Cardinality(challenges') <= Cardinality(Pruned(now) \cup {nonce})
      BY <2>3, <3>1, FS_Subset
    <3>3. Cardinality(challenges') \in Nat /\ Cardinality(Pruned(now) \cup {nonce}) \in Nat
      BY <3>1, <3>2, FS_CardinalityType
    <3> QED BY <2>2, <3>1, <3>2, <3>3 DEF TableIsBounded
  <2>4. CASE \E w \in Wallets : IssueStellarChallenge(w)
    BY <2>3, <2>4 DEF IssueStellarChallenge
  <2>5. CASE \E w \in Wallets, n \in DOMAIN issued, s \in Signature : Verify(w, n, s)
    BY <2>3, <2>5 DEF Verify, RejectUnknown, RejectExpired, RejectSignature, Accept, Consumed
  <2>6. CASE Restart
    BY <2>3, <2>6 DEF Restart
  <2>7. CASE ClockMoves \/ UNCHANGED authVars
    BY <1>2, <2>7 DEF ClockMoves, authVars, TableIsBounded
  <2> QED BY <1>2, <2>4, <2>5, <2>6, <2>7 DEF AuthNext
<1> QED BY <1>1, <1>2, Invariance, PTL DEF AuthSpec

=============================================================================
