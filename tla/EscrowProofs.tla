---------------------------- MODULE EscrowProofs ----------------------------
(***************************************************************************)
(* Theorems about Escrow, for every number of milestones, every schedule    *)
(* and every set of inputs.                                                 *)
(***************************************************************************)
EXTENDS Escrow, TLAPS, WellFoundedInduction

-----------------------------------------------------------------------------
(* The arithmetic of EscrowMath: the bounds of its roundings and the laws of *)
(* its sums.                                                                 *)

\* Every set of naturals that is not empty has a least member; the induction
\* theorems of the library take an operator, so the sums are reasoned about by
\* a least counterexample.
LEMMA NatMinimum ==
    ASSUME NEW T, T \subseteq Nat, T # {}
    PROVE  \E x \in T : \A y \in T : x <= y
<1> DEFINE R == {p \in Nat \X Nat : p[1] < p[2]}
<1>1. IsWellFoundedOn(R, Nat)
  BY NatLessThanWellFounded, Zenon DEF OpToRel
<1> HIDE DEF R
<1>2. PICK x \in T : \A y \in T : ~ (<<y, x>> \in R)
  BY <1>1, WFMin
<1>3. \A y \in T : <<y, x>> \in R <=> y < x
  BY SMT DEF R
<1>4. ASSUME NEW y \in T PROVE x <= y
  <2>1. x \in Nat /\ y \in Nat
    OBVIOUS
  <2>2. ~ (y < x)
    BY <1>2, <1>3
  <2> QED BY <2>1, <2>2
<1> QED BY <1>4

\* A floored share of an amount, apply_bps, is at most the amount.
LEMMA ApplyBpsBounds ==
    ASSUME NEW a \in Nat, NEW b \in 0 .. BPS_SCALE
    PROVE  ApplyBps(a, b) \in 0 .. a
<1> DEFINE p == a * b
<1>1. p \in Nat /\ p <= a * 10000
  BY SMT DEF BPS_SCALE
<1> HIDE DEF p
<1>2. p \div 10000 \in 0 .. a
  BY <1>1, SMT
<1> QED BY <1>2 DEF ApplyBps, BPS_SCALE, p

\* vested_amount never exceeds the payout it vests.
LEMMA VestedBounds ==
    ASSUME NEW total \in Nat, NEW start \in Nat, NEW end \in Nat, NEW t \in Nat,
           start < end
    PROVE  VestedAmount(total, start, end, t) \in 0 .. total
<1>1. CASE t <= start
  BY <1>1 DEF VestedAmount
<1>2. CASE t >= end
  BY <1>2 DEF VestedAmount
<1>3. CASE start < t /\ t < end
  <2> DEFINE e == t - start
             d == end - start
  <2>1. e \in Nat /\ d \in Nat /\ 0 < d /\ e <= d
    BY <1>3
  <2> HIDE DEF e, d
  <2>2. total * e \in Nat /\ total * e <= total * d
    BY <2>1, SMT
  <2>3. (total * e) \div d \in 0 .. total
    BY <2>1, <2>2, SMT
  <2> QED BY <1>3, <2>3 DEF VestedAmount, e, d
<1> QED BY <1>1, <1>2, <1>3

\* S lists the prefix sums of f up to n: what SumTo computes by recursion.
Prefix(S, f, n) == S = [k \in 0 .. n |-> IF k = 0 THEN 0 ELSE S[k - 1] + f[k]]

\* The recursive function in SumTo is defined for every sequence of summands.
LEMMA PrefixExists ==
    ASSUME NEW f, NEW n \in Nat
    PROVE  \E S : Prefix(S, f, n)
<1> DEFINE Bad == {m \in Nat : ~ \E S : Prefix(S, f, m)}
<1> SUFFICES ASSUME Bad # {} PROVE FALSE
  OBVIOUS
<1>1. PICK m \in Bad : \A j \in Bad : m <= j
  <2> HIDE DEF Bad
  <2>1. Bad \subseteq Nat
    BY DEF Bad
  <2> QED BY <2>1, NatMinimum
<1>2. CASE m = 0
  <2> DEFINE S == [k \in 0 .. 0 |-> 0]
  <2>1. S = [k \in 0 .. 0 |-> IF k = 0 THEN 0 ELSE S[k - 1] + f[k]]
    OBVIOUS
  <2> QED BY <1>2, <2>1 DEF Prefix
<1>3. CASE m # 0
  <2>1. m - 1 \in Nat /\ m - 1 \notin Bad
    BY <1>1, <1>3
  <2>2. PICK S : Prefix(S, f, m - 1)
    BY <2>1
  <2> DEFINE T == [k \in 0 .. m |-> IF k = m THEN S[m - 1] + f[m] ELSE S[k]]
  <2>3. ASSUME NEW k \in 0 .. m
        PROVE  T[k] = IF k = 0 THEN 0 ELSE T[k - 1] + f[k]
    <3>1. CASE k = m
      BY <1>3, <2>1, <3>1
    <3>2. CASE k # m
      <4>1. k \in 0 .. (m - 1)
        BY <3>2
      <4>2. S[k] = IF k = 0 THEN 0 ELSE S[k - 1] + f[k]
        BY <2>2, <4>1 DEF Prefix
      <4>3. k # 0 => k - 1 \in 0 .. m /\ k - 1 # m
        BY <3>2
      <4> QED BY <3>2, <4>2, <4>3
    <3> QED BY <3>1, <3>2
  <2>4. T = [k \in 0 .. m |-> IF k = 0 THEN 0 ELSE T[k - 1] + f[k]]
    <3> HIDE DEF T
    <3>1. T = [k \in 0 .. m |-> T[k]]
      BY DEF T
    <3> QED BY <2>3, <3>1
  <2> QED BY <2>4 DEF Prefix
<1> QED BY <1>2, <1>3

\* SumTo, which folds the payouts and the obligations, is the last prefix sum.
LEMMA SumIsPrefix ==
    ASSUME NEW f, NEW n \in Nat
    PROVE  \E S : Prefix(S, f, n) /\ SumTo(f, n) = S[n]
<1> DEFINE S == CHOOSE S : S = [k \in 0 .. n |-> IF k = 0 THEN 0 ELSE S[k - 1] + f[k]]
<1>1. S = [k \in 0 .. n |-> IF k = 0 THEN 0 ELSE S[k - 1] + f[k]]
  BY PrefixExists DEF Prefix
<1>2. SumTo(f, n) = S[n]
  BY DEF SumTo
<1> QED BY <1>1, <1>2 DEF Prefix

\* Induction up to n, for a property given as the set of the numbers that have it.
LEMMA SetInduction ==
    ASSUME NEW P, NEW n \in Nat, 0 \in P,
           \A k \in 0 .. (n - 1) : k \in P => k + 1 \in P
    PROVE  0 .. n \subseteq P
<1> DEFINE Bad == {m \in 0 .. n : m \notin P}
<1> SUFFICES ASSUME Bad # {} PROVE FALSE
  OBVIOUS
<1>1. PICK m \in Bad : \A j \in Bad : m <= j
  <2> HIDE DEF Bad
  <2>1. Bad \subseteq Nat
    BY DEF Bad
  <2> QED BY <2>1, NatMinimum
<1>2. m # 0 /\ m - 1 \in 0 .. (n - 1) /\ m - 1 \notin Bad
  BY <1>1
<1>3. m - 1 \in P
  BY <1>2
<1>4. (m - 1) + 1 \in P
  BY <1>2, <1>3
<1> QED BY <1>1, <1>4

\* The recurrence of the prefix sums, one step at a time.
LEMMA PrefixStep ==
    ASSUME NEW S, NEW f, NEW n \in Nat, Prefix(S, f, n)
    PROVE  S[0] = 0 /\ \A k \in 0 .. (n - 1) : S[k + 1] = S[k] + f[k + 1]
<1>1. ASSUME NEW k \in 0 .. n
      PROVE  S[k] = IF k = 0 THEN 0 ELSE S[k - 1] + f[k]
  BY DEF Prefix
<1>2. ASSUME NEW k \in 0 .. (n - 1)
      PROVE  S[k + 1] = S[k] + f[k + 1]
  <2>1. k + 1 \in 0 .. n /\ k + 1 # 0 /\ (k + 1) - 1 = k
    OBVIOUS
  <2> QED BY <1>1, <2>1
<1> QED BY <1>1, <1>2

\* A sum of integers is an integer.
LEMMA SumInt ==
    ASSUME NEW f, NEW n \in Nat, \A k \in 1 .. n : f[k] \in Int
    PROVE  SumTo(f, n) \in Int
<1>1. PICK S : Prefix(S, f, n) /\ SumTo(f, n) = S[n]
  BY SumIsPrefix
<1> DEFINE P == {k \in 0 .. n : S[k] \in Int}
<1>2. 0 \in P
  BY <1>1, PrefixStep
<1>3. ASSUME NEW k \in 0 .. (n - 1), k \in P
      PROVE  k + 1 \in P
  <2>1. S[k + 1] = S[k] + f[k + 1] /\ k + 1 \in 1 .. n
    BY <1>1, PrefixStep
  <2> QED BY <1>3, <2>1
<1>4. 0 .. n \subseteq P
  <2> HIDE DEF P
  <2> QED BY <1>2, <1>3, SetInduction
<1> QED BY <1>1, <1>4

\* A sum grows with its summands.
LEMMA SumLeq ==
    ASSUME NEW f, NEW g, NEW n \in Nat,
           \A k \in 1 .. n : f[k] \in Int /\ g[k] \in Int /\ f[k] <= g[k]
    PROVE  SumTo(f, n) <= SumTo(g, n)
<1>1. PICK S : Prefix(S, f, n) /\ SumTo(f, n) = S[n]
  BY SumIsPrefix
<1>2. PICK T : Prefix(T, g, n) /\ SumTo(g, n) = T[n]
  BY SumIsPrefix
<1> DEFINE P == {k \in 0 .. n : S[k] \in Int /\ T[k] \in Int /\ S[k] <= T[k]}
<1>3. 0 \in P
  BY <1>1, <1>2, PrefixStep
<1>4. ASSUME NEW k \in 0 .. (n - 1), k \in P
      PROVE  k + 1 \in P
  <2>1. S[k + 1] = S[k] + f[k + 1] /\ T[k + 1] = T[k] + g[k + 1] /\ k + 1 \in 1 .. n
    BY <1>1, <1>2, PrefixStep
  <2> QED BY <1>4, <2>1
<1>5. 0 .. n \subseteq P
  <2> HIDE DEF P
  <2> QED BY <1>3, <1>4, SetInduction
<1> QED BY <1>1, <1>2, <1>5

\* A sum of zeros is zero.
LEMMA SumZero ==
    ASSUME NEW f, NEW n \in Nat, \A k \in 1 .. n : f[k] = 0
    PROVE  SumTo(f, n) = 0
<1>1. PICK S : Prefix(S, f, n) /\ SumTo(f, n) = S[n]
  BY SumIsPrefix
<1> DEFINE P == {k \in 0 .. n : S[k] = 0}
<1>2. 0 \in P
  BY <1>1, PrefixStep
<1>3. ASSUME NEW k \in 0 .. (n - 1), k \in P
      PROVE  k + 1 \in P
  <2>1. S[k + 1] = S[k] + f[k + 1] /\ k + 1 \in 1 .. n
    BY <1>1, PrefixStep
  <2> QED BY <1>3, <2>1
<1>4. 0 .. n \subseteq P
  <2> HIDE DEF P
  <2> QED BY <1>2, <1>3, SetInduction
<1> QED BY <1>1, <1>4

\* The sum of differences is the difference of the sums.
LEMMA SumDifference ==
    ASSUME NEW f, NEW g, NEW h, NEW n \in Nat,
           \A k \in 1 .. n : f[k] \in Int /\ g[k] \in Int /\ h[k] = f[k] - g[k]
    PROVE  SumTo(h, n) = SumTo(f, n) - SumTo(g, n)
<1>1. PICK S : Prefix(S, f, n) /\ SumTo(f, n) = S[n]
  BY SumIsPrefix
<1>2. PICK T : Prefix(T, g, n) /\ SumTo(g, n) = T[n]
  BY SumIsPrefix
<1>3. PICK U : Prefix(U, h, n) /\ SumTo(h, n) = U[n]
  BY SumIsPrefix
<1> DEFINE P == {k \in 0 .. n : S[k] \in Int /\ T[k] \in Int /\ U[k] = S[k] - T[k]}
<1>4. 0 \in P
  BY <1>1, <1>2, <1>3, PrefixStep
<1>5. ASSUME NEW k \in 0 .. (n - 1), k \in P
      PROVE  k + 1 \in P
  <2>1. /\ S[k + 1] = S[k] + f[k + 1]
        /\ T[k + 1] = T[k] + g[k + 1]
        /\ U[k + 1] = U[k] + h[k + 1]
        /\ k + 1 \in 1 .. n
    BY <1>1, <1>2, <1>3, PrefixStep
  <2>2. f[k + 1] \in Int /\ g[k + 1] \in Int /\ h[k + 1] = f[k + 1] - g[k + 1]
    BY <2>1
  <2> QED BY <1>5, <2>1, <2>2
<1>6. 0 .. n \subseteq P
  <2> HIDE DEF P
  <2> QED BY <1>4, <1>5, SetInduction
<1> QED BY <1>1, <1>2, <1>3, <1>6

\* Changing one summand changes the sum by the same amount: what one milestone
\* adds to or takes from a total.
LEMMA SumChange ==
    ASSUME NEW f, NEW g, NEW n \in Nat, NEW i \in 1 .. n,
           \A k \in 1 .. n : f[k] \in Int /\ g[k] \in Int,
           \A k \in 1 .. n : k # i => g[k] = f[k]
    PROVE  SumTo(g, n) = SumTo(f, n) + g[i] - f[i]
<1>1. PICK S : Prefix(S, f, n) /\ SumTo(f, n) = S[n]
  BY SumIsPrefix
<1>2. PICK T : Prefix(T, g, n) /\ SumTo(g, n) = T[n]
  BY SumIsPrefix
<1> DEFINE P == {k \in 0 .. n : /\ S[k] \in Int
                                /\ T[k] = IF k < i THEN S[k] ELSE S[k] + g[i] - f[i]}
<1>3. 0 \in P
  BY <1>1, <1>2, PrefixStep
<1>4. ASSUME NEW k \in 0 .. (n - 1), k \in P
      PROVE  k + 1 \in P
  <2>1. S[k + 1] = S[k] + f[k + 1] /\ T[k + 1] = T[k] + g[k + 1] /\ k + 1 \in 1 .. n
    BY <1>1, <1>2, PrefixStep
  <2>2. k + 1 = i \/ g[k + 1] = f[k + 1]
    BY <2>1
  <2> QED BY <1>4, <2>1, <2>2
<1>5. 0 .. n \subseteq P
  <2> HIDE DEF P
  <2> QED BY <1>3, <1>4, SetInduction
<1> QED BY <1>1, <1>2, <1>5

-----------------------------------------------------------------------------
(* What the money-moving operators do. *)

\* A transfer that the contract can cover leaves every balance a natural number.
LEMMA MovedFacts ==
    ASSUME NEW t \in [Address -> Nat], NEW to \in Address, NEW amount \in Nat,
           amount <= t[Contract]
    PROVE  /\ Moved(t, to, amount) \in [Address -> Nat]
           /\ Moved(t, to, amount)[Contract] >= t[Contract] - amount
<1>1. Contract \in Address
  BY ConstantsAssumption
<1> QED BY <1>1 DEF Moved

\* pay_with_fee books exactly the gross amount as released, fee included, and
\* keeps the contract solvent.
LEMMA PayWithFeeFacts ==
    ASSUME TypeOK, Solvent, config.recipient \in Address,
           NEW gross \in Int, PayWithFee(gross)
    PROVE  /\ book' \in Book
           /\ tokens' \in [Address -> Nat]
           /\ Solvent'
           /\ book'.deposited = book.deposited
           /\ book'.refunded = book.refunded
           /\ book'.released = book.released + gross
<1> DEFINE split == ProtocolFee(gross, feeBps)
           paidFee == Moved(tokens, treasury, split.fee)
<1>1. gross \in Nat /\ gross <= Locked /\ gross <= tokens[Contract]
  <2>1. tokens[Contract] \in Nat
    BY ConstantsAssumption DEF TypeOK
  <2>2. gross > 0 /\ gross <= Locked
    BY DEF PayWithFee, Bookable
  <2>3. Locked \in 0 .. tokens[Contract]
    BY DEF Solvent
  <2> QED BY <2>1, <2>2, <2>3
<1>2. split.fee \in Nat /\ split.net \in Nat /\ split.fee + split.net = gross
  <2>1. ApplyBps(gross, feeBps) \in 0 .. gross
    BY <1>1, ApplyBpsBounds DEF TypeOK
  <2> QED BY <1>1, <2>1 DEF ProtocolFee
<1>3. /\ tokens' = Moved(paidFee, config.recipient, split.net)
      /\ book' = [book EXCEPT !.released = @ + split.fee + split.net]
  BY DEF PayWithFee
<1> HIDE DEF split
<1>4. tokens[Contract] \in Nat
  BY ConstantsAssumption DEF TypeOK
<1>5. /\ paidFee \in [Address -> Nat]
      /\ paidFee[Contract] >= tokens[Contract] - split.fee
  BY <1>1, <1>2, <1>4, MovedFacts DEF TypeOK
<1> HIDE DEF paidFee
<1>6. paidFee[Contract] \in Nat
  BY <1>5, ConstantsAssumption
<1>7. /\ tokens' \in [Address -> Nat]
      /\ tokens'[Contract] >= paidFee[Contract] - split.net
  BY <1>1, <1>2, <1>3, <1>4, <1>5, <1>6, MovedFacts
<1>8. /\ book' \in Book
      /\ book'.deposited = book.deposited
      /\ book'.refunded = book.refunded
      /\ book'.released = book.released + gross
  BY <1>2, <1>3 DEF TypeOK, Book
<1>9. tokens'[Contract] \in Nat
  BY <1>7, ConstantsAssumption
<1>10. Solvent'
  BY <1>1, <1>2, <1>4, <1>5, <1>6, <1>7, <1>8, <1>9 DEF Solvent, Locked, Book, TypeOK
<1> QED BY <1>7, <1>8, <1>10

\* transfer_to with credit_refunded books exactly the amount and keeps the
\* contract solvent.
LEMMA RefundFacts ==
    ASSUME TypeOK, Solvent, NEW amount \in Int, Refund(amount)
    PROVE  /\ book' \in Book
           /\ tokens' \in [Address -> Nat]
           /\ Solvent'
           /\ book'.deposited = book.deposited
           /\ book'.released = book.released
           /\ book'.refunded = book.refunded + amount
<1>1. config.funder \in Address /\ tokens[Contract] \in Nat
  BY ConstantsAssumption DEF TypeOK, Config
<1>2. /\ amount > 0 /\ amount <= Locked
      /\ tokens' = Moved(tokens, config.funder, amount)
      /\ book' = [book EXCEPT !.refunded = @ + amount]
  BY DEF Refund, Bookable
<1>3. amount \in Nat /\ amount <= tokens[Contract]
  BY <1>1, <1>2 DEF Solvent
<1>4. /\ tokens' \in [Address -> Nat]
      /\ tokens'[Contract] >= tokens[Contract] - amount
  BY <1>1, <1>2, <1>3, MovedFacts DEF TypeOK
<1>5. /\ book' \in Book
      /\ book'.deposited = book.deposited
      /\ book'.released = book.released
      /\ book'.refunded = book.refunded + amount
  BY <1>2, <1>3 DEF TypeOK, Book
<1>6. tokens'[Contract] \in Nat
  BY <1>4, ConstantsAssumption
<1>7. Solvent'
  BY <1>1, <1>2, <1>3, <1>4, <1>5, <1>6 DEF Solvent, Locked, Book, TypeOK
<1> QED BY <1>4, <1>5, <1>7

\* The two legs of a settlement add up to all that is locked.
LEMMA SettledMoneyFacts ==
    ASSUME TypeOK, Solvent, NEW funderBps \in 0 .. BPS_SCALE, SettledMoney(funderBps)
    PROVE  /\ book' \in Book
           /\ tokens' \in [Address -> Nat]
           /\ Solvent'
           /\ Locked' = 0
           /\ book'.deposited = book.deposited
<1> DEFINE split == SplitAmount(Locked, funderBps)
           paidFunder == Moved(tokens, config.funder, split.funder)
<1>1. /\ config.funder \in Address /\ config.recipient \in Address
      /\ tokens[Contract] \in Nat
  BY ConstantsAssumption DEF TypeOK, Config
<1>2. Locked \in Nat /\ Locked <= tokens[Contract]
  BY <1>1 DEF Solvent
<1>3. /\ split.funder \in Nat /\ split.recipient \in Nat
      /\ split.funder + split.recipient = Locked
  <2>1. ApplyBps(Locked, funderBps) \in 0 .. Locked
    BY <1>2, ApplyBpsBounds
  <2> QED BY <1>2, <2>1 DEF SplitAmount
<1>4. /\ tokens' = Moved(paidFunder, config.recipient, split.recipient)
      /\ book' = [book EXCEPT !.refunded = @ + split.funder,
                              !.released = @ + split.recipient]
  BY DEF SettledMoney
<1> HIDE DEF split
<1>5. /\ paidFunder \in [Address -> Nat]
      /\ paidFunder[Contract] >= tokens[Contract] - split.funder
  BY <1>1, <1>2, <1>3, MovedFacts DEF TypeOK
<1> HIDE DEF paidFunder
<1>6. paidFunder[Contract] \in Nat
  BY <1>5, ConstantsAssumption
<1>7. tokens' \in [Address -> Nat]
  BY <1>1, <1>2, <1>3, <1>4, <1>5, <1>6, MovedFacts
<1>8. /\ book' \in Book
      /\ book'.deposited = book.deposited
      /\ book'.refunded = book.refunded + split.funder
      /\ book'.released = book.released + split.recipient
  <2>1. book \in Book
    BY DEF TypeOK
  <2>2. book' = [deposited |-> book.deposited,
                 released |-> book.released + split.recipient,
                 refunded |-> book.refunded + split.funder]
    BY <1>4, <2>1 DEF Book
  <2> QED BY <1>3, <2>1, <2>2 DEF Book
<1>9. Locked' = 0
  BY <1>3, <1>8 DEF TypeOK, Book, Locked
<1>10. tokens'[Contract] \in Nat
  BY <1>7, ConstantsAssumption
<1> QED BY <1>7, <1>8, <1>9, <1>10 DEF Solvent

-----------------------------------------------------------------------------
(* The contract stays solvent. *)

\* What Solvent rests on: an escrow that is not funded has an empty book, and
\* before the deposit the total is the sum of the payouts, so that the deposit
\* and the amendments that precede it leave natural numbers.
CoreInv ==
    /\ TypeOK
    /\ Solvent
    /\ ~ Funded => book = EmptyBook
    /\ state = "Pending" => config.total = PayoutTotal

\* The total that initialize folds is the sum of the payouts it stores.
LEMMA FreshTotal ==
    ASSUME NEW s \in [Ids -> MilestoneTerms]
    PROVE  /\ SumTo([i \in Ids |-> s[i].payout], N) \in Nat
           /\ SumTo([i \in Ids |-> s[i].payout], N)
                = SumTo([i \in Ids |-> FreshMilestone(s[i]).payout], N)
<1> DEFINE f == [i \in Ids |-> s[i].payout]
           z == [i \in Ids |-> 0]
<1>1. \A i \in 1 .. N : f[i] \in Int /\ z[i] \in Int /\ z[i] <= f[i]
  BY DEF Ids, MilestoneTerms
<1>2. f = [i \in Ids |-> FreshMilestone(s[i]).payout]
  BY DEF FreshMilestone
<1>3. SumTo(z, N) = 0
  BY SumZero, ConstantsAssumption DEF Ids
<1> HIDE DEF f, z
<1>4. SumTo(f, N) \in Int /\ SumTo(z, N) <= SumTo(f, N)
  BY <1>1, SumInt, SumLeq, ConstantsAssumption
<1> QED BY <1>2, <1>3, <1>4 DEF f

\* A deployed contract with empty storage satisfies the invariant.
LEMMA CoreInit == Init => CoreInv
<1> SUFFICES ASSUME Init PROVE CoreInv
  OBVIOUS
<1> USE ConstantsAssumption, InputsAssumption
<1>1. milestones \in [Ids -> Milestone]
  BY DEF Init, FreshMilestone, Milestone, MilestoneStatus
<1>2. TypeOK
  <2>1. config \in Config /\ book \in Book
    BY DEF Init, Config, Book, EmptyBook
  <2>2. order \in [Ids -> Ids] /\ tokens \in [Address -> Nat]
    BY DEF Init, Ids
  <2>3. committee \in [members : SUBSET Address, threshold : Nat]
    BY DEF Init
  <2>4. penaltyBps \in 0 .. BPS_SCALE /\ feeBps \in 0 .. BPS_SCALE
    BY DEF Init, BPS_SCALE
  <2> QED BY <1>1, <2>1, <2>2, <2>3, <2>4 DEF Init, TypeOK
<1>3. tokens[Contract] \in Nat
  BY <1>2 DEF TypeOK
<1>4. Locked = 0
  BY DEF Init, EmptyBook, Locked
<1> QED BY <1>2, <1>3, <1>4 DEF Init, CoreInv, Solvent, Funded

\* initialize, the setters of terms and deposit_funds preserve the invariant.
LEMMA CoreSetup ==
    ASSUME CoreInv, NEW auth \in AuthSets, Setup(auth)
    PROVE  CoreInv'
<1> USE DEF CoreInv
<1>1. ASSUME NEW p \in PartyChoices, NEW s \in Schedules, Initialize(auth, p, s)
      PROVE  CoreInv'
  <2>1. /\ s \in [Ids -> MilestoneTerms]
        /\ p.funder \in Address /\ p.recipient \in Address /\ p.arbitrator \in Address
        /\ N \in Nat /\ DefaultPenaltyBps \in 0 .. BPS_SCALE /\ Contract \in Address
    BY ConstantsAssumption, InputsAssumption
  <2>2. milestones' \in [Ids -> Milestone]
    BY <1>1, <2>1 DEF Initialize, FreshMilestone, Milestone, MilestoneStatus, MilestoneTerms
  <2>3. config'.total \in Nat /\ config'.total = PayoutTotal'
    <3>1. config'.total = SumTo([i \in Ids |-> s[i].payout], N)
      BY <1>1 DEF Initialize
    <3>2. [i \in Ids |-> milestones'[i].payout] = [i \in Ids |-> FreshMilestone(s[i]).payout]
      BY <1>1 DEF Initialize
    <3> QED BY <2>1, <3>1, <3>2, FreshTotal DEF PayoutTotal
  <2>4. config' \in Config
    BY <1>1, <2>1, <2>3 DEF Initialize, Config
  <2>5. TypeOK'
    <3>1. committee' \in [members : SUBSET Address, threshold : Nat]
      BY <1>1, <2>1 DEF Initialize
    <3>2. penaltyBps' \in 0 .. BPS_SCALE /\ feeBps' \in 0 .. BPS_SCALE
      BY <1>1, <2>1 DEF Initialize, BPS_SCALE
    <3>3. order' \in [Ids -> Ids] /\ book' \in Book /\ treasury' \in Address
      BY <1>1, <2>1 DEF Initialize, Ids, Book, EmptyBook
    <3> QED BY <1>1, <2>2, <2>4, <3>1, <3>2, <3>3 DEF Initialize, TypeOK, docket
  <2>6. Locked' = 0 /\ book' = EmptyBook
    BY <1>1 DEF Initialize, EmptyBook, Locked
  <2>7. tokens'[Contract] \in Nat
    BY <2>1, <2>5 DEF TypeOK
  <2> QED BY <2>3, <2>5, <2>6, <2>7 DEF Solvent
<1>2. ASSUME NEW bps \in PenaltyChoices, SetLatePenaltyBps(auth, bps)
      PROVE  CoreInv'
  <2>1. TypeOK'
    <3>1. bps \in Nat
      BY InputsAssumption
    <3>2. bps <= BPS_SCALE /\ penaltyBps' = bps
      BY <1>2 DEF SetLatePenaltyBps
    <3>3. penaltyBps' \in 0 .. BPS_SCALE
      BY <3>1, <3>2 DEF BPS_SCALE
    <3> QED BY <1>2, <3>3 DEF SetLatePenaltyBps, TypeOK, schedule, custody, docket
  <2> QED BY <1>2, <2>1 DEF SetLatePenaltyBps, schedule, custody, Solvent, Locked, Funded,
             PayoutTotal
<1>3. ASSUME NEW f \in FeeChoices, ConfigureProtocolFee(auth, f.treasury, f.bps)
      PROVE  CoreInv'
  <2>1. TypeOK'
    <3>1. f.bps \in Nat /\ f.treasury \in Address
      BY InputsAssumption
    <3>2. f.bps <= BPS_SCALE /\ feeBps' = f.bps /\ treasury' = f.treasury
      BY <1>3 DEF ConfigureProtocolFee
    <3>3. feeBps' \in 0 .. BPS_SCALE
      <4> DEFINE b == f.bps
      <4>1. b \in Nat /\ b <= BPS_SCALE /\ feeBps' = b
        BY <3>1, <3>2
      <4> HIDE DEF b
      <4> QED BY <4>1 DEF BPS_SCALE
    <3>4. treasury' \in Address
      BY <3>1, <3>2
    <3> QED BY <1>3, <3>3, <3>4 DEF ConfigureProtocolFee, TypeOK, schedule, custody, docket
  <2> QED BY <1>3, <2>1 DEF ConfigureProtocolFee, schedule, custody, Solvent, Locked, Funded,
             PayoutTotal
<1>4. ASSUME NEW c \in CommitteeChoices, ConfigureArbitrators(auth, c.members, c.threshold)
      PROVE  CoreInv'
  <2>1. committee' \in [members : SUBSET Address, threshold : Nat]
    <3>1. c.members \in Seq(Address) /\ c.threshold \in Nat
      BY InputsAssumption
    <3>2. MembersOf(c.members) \subseteq Address
      BY <3>1 DEF MembersOf
    <3> QED BY <1>4, <3>1, <3>2 DEF ConfigureArbitrators
  <2>2. TypeOK'
    BY <1>4, <2>1 DEF ConfigureArbitrators, TypeOK, schedule, custody, docket, terms
  <2> QED BY <1>4, <2>2 DEF ConfigureArbitrators, schedule, custody, Solvent, Locked, Funded,
             PayoutTotal
<1>5. ASSUME NEW allowance \in Allowances, DepositFunds(auth, allowance)
      PROVE  CoreInv'
  <2>1. /\ state = "Pending" /\ state' = "Active"
        /\ book = EmptyBook
        /\ config.total \in Nat /\ config.funder \in Address /\ config.funder # Contract
        /\ tokens[config.funder] >= config.total
    BY <1>5, InputsAssumption DEF DepositFunds, Signed, Funded, TypeOK, Config
  <2>2. /\ tokens' \in [Address -> Nat]
        /\ tokens'[Contract] = tokens[Contract] + config.total
    <3>1. tokens' = [tokens EXCEPT ![config.funder] = @ - config.total,
                                   ![Contract] = @ + config.total]
      BY <1>5 DEF DepositFunds
    <3>2. tokens \in [Address -> Nat] /\ Contract \in Address
      BY ConstantsAssumption DEF TypeOK
    <3> QED BY <2>1, <3>1, <3>2, SMTT(30)
  <2>3. /\ book' \in Book
        /\ Locked' = config.total
    BY <1>5, <2>1 DEF DepositFunds, EmptyBook, Book, Locked
  <2>4. tokens[Contract] \in Nat /\ tokens'[Contract] \in Nat
    BY <2>2, ConstantsAssumption DEF TypeOK
  <2>5. TypeOK'
    <3>1. lockUntil' \in Nat
      BY <1>5, ConstantsAssumption DEF DepositFunds, TypeOK
    <3> QED BY <1>5, <2>2, <2>3, <3>1 DEF DepositFunds, TypeOK, schedule, docket, terms
  <2> QED BY <2>1, <2>2, <2>3, <2>4, <2>5 DEF Solvent, Funded
<1> QED BY <1>1, <1>2, <1>3, <1>4, <1>5 DEF Setup

\* A step into a funded state has only types and solvency left to show.
LEMMA ActiveIsFunded ==
    ASSUME CoreInv, state' \in {"Active", "Completed", "Disputed", "Cancelled"},
           TypeOK', Solvent'
    PROVE  CoreInv'
BY DEF CoreInv, Funded

\* submit_milestone_proof, approve_milestone, stream_milestone_payout and
\* apply_late_penalty preserve the invariant.
LEMMA CoreDelivery ==
    ASSUME CoreInv, NEW auth \in AuthSets, Delivery(auth)
    PROVE  CoreInv'
<1> USE ConstantsAssumption, InputsAssumption
<1>1. TypeOK /\ Solvent /\ config.recipient \in Address
  BY DEF CoreInv, TypeOK, Config
<1>2. ASSUME NEW i \in Ids, SubmitMilestoneProof(auth, i)
      PROVE  CoreInv'
  <2>1. milestones' \in [Ids -> Milestone]
    <3>1. milestones' = [milestones EXCEPT ![i].status = "UnderReview",
                                           ![i].submittedAt = now]
      BY <1>2 DEF SubmitMilestoneProof
    <3>2. /\ milestones \in [Ids -> Milestone] /\ now \in Nat
          /\ milestones[i] \in Milestone
      BY <1>1 DEF TypeOK
    <3>3. [milestones[i] EXCEPT !.status = "UnderReview", !.submittedAt = now] \in Milestone
      BY <3>2 DEF Milestone, MilestoneStatus
    <3>4. milestones' = [milestones EXCEPT ![i] =
                [milestones[i] EXCEPT !.status = "UnderReview", !.submittedAt = now]]
      BY <3>1, <3>2
    <3> QED BY <3>2, <3>3, <3>4
  <2>2. TypeOK'
    BY <1>1, <1>2, <2>1 DEF SubmitMilestoneProof, TypeOK, custody, docket, terms
  <2>3. Solvent'
    BY <1>1, <1>2 DEF SubmitMilestoneProof, custody, Solvent, Locked
  <2> QED BY <1>2, <2>2, <2>3, ActiveIsFunded DEF SubmitMilestoneProof
<1>3. ASSUME NEW i \in Ids, ApproveMilestone(auth, i)
      PROVE  CoreInv'
  <2>1. milestones[i] \in Milestone /\ now \in Nat /\ approved \in Nat
    BY <1>1 DEF TypeOK
  <2>2. /\ milestones' \in [Ids -> Milestone]
        /\ book' \in Book /\ tokens' \in [Address -> Nat]
        /\ Solvent'
    <3>1. CASE milestones[i].vestingSecs > 0
      <4>1. milestones' = [milestones EXCEPT ![i].isApproved = TRUE,
                                             ![i].completedAt = now,
                                             ![i].status = "UnderReview",
                                             ![i].streamed = 0]
        BY <1>3, <3>1 DEF ApproveMilestone, MarkApproved
      <4>2. milestones' \in [Ids -> Milestone]
        BY <1>1, <2>1, <4>1 DEF TypeOK, Milestone, MilestoneStatus
      <4>3. UNCHANGED custody
        BY <1>3, <3>1 DEF ApproveMilestone, MarkApproved
      <4> QED BY <1>1, <4>2, <4>3 DEF TypeOK, custody, Solvent, Locked
    <3>2. CASE ~ (milestones[i].vestingSecs > 0)
      <4>1. milestones' = [milestones EXCEPT ![i].isApproved = TRUE,
                                             ![i].completedAt = now,
                                             ![i].status = "Released",
                                             ![i].streamed = milestones[i].payout]
        BY <1>3, <3>2 DEF ApproveMilestone, MarkApproved
      <4>2. milestones' \in [Ids -> Milestone]
        BY <1>1, <2>1, <4>1 DEF TypeOK, Milestone, MilestoneStatus
      <4>3. PayWithFee(milestones[i].payout) /\ milestones[i].payout \in Int
        BY <1>3, <2>1, <3>2 DEF ApproveMilestone, MarkApproved, Milestone
      <4> QED BY <1>1, <4>2, <4>3, PayWithFeeFacts
    <3> QED BY <3>1, <3>2
  <2>3. state' \in {"Active", "Completed"} /\ approved' \in Nat
    BY <1>3, <2>1 DEF ApproveMilestone, StateAfterApproval
  <2>4. TypeOK'
    BY <1>1, <1>3, <2>2, <2>3 DEF ApproveMilestone, TypeOK, docket, terms
  <2> QED BY <2>2, <2>3, <2>4, ActiveIsFunded
<1>4. ASSUME NEW i \in Ids, StreamMilestonePayout(auth, i)
      PROVE  CoreInv'
  <2> DEFINE m == milestones[i]
             unpaid == Vested(i) - m.streamed
  <2>1. m \in Milestone /\ now \in Nat
    BY <1>1 DEF TypeOK
  <2>2. m.vestingSecs # 0 /\ unpaid > 0 /\ PayWithFee(unpaid)
    BY <1>4 DEF StreamMilestonePayout, AcceptsStream, Bookable
  <2>3. Vested(i) \in 0 .. m.payout
    <3>1. /\ m.payout \in Nat /\ m.completedAt \in Nat
          /\ m.completedAt + m.vestingSecs \in Nat
          /\ m.completedAt < m.completedAt + m.vestingSecs
      BY <2>1, <2>2 DEF Milestone
    <3>2. VestedAmount(m.payout, m.completedAt, m.completedAt + m.vestingSecs, now)
              \in 0 .. m.payout
      BY <2>1, <3>1, VestedBounds
    <3> QED BY <3>2 DEF Vested
  <2>4. unpaid \in Int /\ m.streamed + unpaid \in Nat
    BY <2>1, <2>3 DEF Milestone
  <2>5. milestones' = [milestones EXCEPT
               ![i].streamed = @ + unpaid,
               ![i].status = IF m.streamed + unpaid >= m.payout THEN "Released" ELSE @]
    BY <1>4 DEF StreamMilestonePayout
  <2> HIDE DEF unpaid
  <2>6. milestones' \in [Ids -> Milestone]
    BY <1>1, <2>1, <2>4, <2>5 DEF TypeOK, Milestone, MilestoneStatus
  <2>7. book' \in Book /\ tokens' \in [Address -> Nat] /\ Solvent'
    BY <1>1, <2>2, <2>4, PayWithFeeFacts
  <2>8. TypeOK'
    BY <1>1, <1>4, <2>6, <2>7 DEF StreamMilestonePayout, TypeOK, docket, terms
  <2> QED BY <1>4, <2>7, <2>8, ActiveIsFunded DEF StreamMilestonePayout, AcceptsStream,
     StreamableStates
<1>5. ASSUME NEW i \in Ids, ApplyLatePenalty(auth, i)
      PROVE  CoreInv'
  <2> DEFINE cut == ApplyPenalty(milestones[i].payout, penaltyBps)
  <2>1. milestones[i] \in Milestone /\ penaltyBps \in 0 .. BPS_SCALE
    BY <1>1 DEF TypeOK
  <2>2. cut.slash \in Nat /\ cut.remaining \in Nat
    <3>1. milestones[i].payout \in Nat
      BY <2>1 DEF Milestone
    <3>2. ApplyBps(milestones[i].payout, penaltyBps) \in 0 .. milestones[i].payout
      BY <2>1, <3>1, ApplyBpsBounds
    <3> QED BY <3>1, <3>2 DEF ApplyPenalty
  <2>3. milestones' = [milestones EXCEPT ![i].payout = cut.remaining,
                                         ![i].penaltyApplied = TRUE]
    BY <1>5 DEF ApplyLatePenalty
  <2>4. UNCHANGED custody \/ Refund(cut.slash)
    BY <1>5 DEF ApplyLatePenalty
  <2> HIDE DEF cut
  <2>5. milestones' \in [Ids -> Milestone]
    BY <1>1, <2>1, <2>2, <2>3 DEF TypeOK, Milestone, MilestoneStatus
  <2>6. book' \in Book /\ tokens' \in [Address -> Nat] /\ Solvent'
    <3>1. CASE UNCHANGED custody
      BY <1>1, <3>1 DEF custody, TypeOK, Solvent, Locked
    <3>2. CASE Refund(cut.slash)
      BY <1>1, <2>2, <3>2, RefundFacts
    <3> QED BY <2>4, <3>1, <3>2
  <2>7. TypeOK'
    BY <1>1, <1>5, <2>5, <2>6 DEF ApplyLatePenalty, TypeOK, docket, terms
  <2> QED BY <1>5, <2>6, <2>7, ActiveIsFunded DEF ApplyLatePenalty
<1> QED BY <1>2, <1>3, <1>4, <1>5 DEF Delivery

\* The sum of the payouts of any stored milestones is a natural number.
LEMMA PayoutsAddUp ==
    ASSUME NEW ms \in [Ids -> Milestone]
    PROVE  SumTo([i \in Ids |-> ms[i].payout], N) \in Nat
<1> DEFINE f == [i \in Ids |-> ms[i].payout]
           z == [i \in Ids |-> 0]
<1>1. \A i \in 1 .. N : f[i] \in Int /\ z[i] \in Int /\ z[i] <= f[i] /\ z[i] = 0
  BY DEF Ids, Milestone
<1> HIDE DEF f, z
<1>2. SumTo(f, N) \in Int /\ SumTo(z, N) <= SumTo(f, N) /\ SumTo(z, N) = 0
  BY <1>1, SumInt, SumLeq, SumZero, ConstantsAssumption
<1> QED BY <1>2 DEF f

\* unstreamed_obligation is an integer in every well-typed state.
LEMMA ObligationIsInt == TypeOK => UnstreamedObligation \in Int
<1> SUFFICES ASSUME TypeOK PROVE UnstreamedObligation \in Int
  OBVIOUS
<1>1. ASSUME NEW i \in 1 .. N PROVE Owed[i] \in Int
  <2>1. i \in Ids /\ milestones[i] \in Milestone
    BY DEF TypeOK, Ids
  <2>2. milestones[i].payout - milestones[i].streamed \in Int
    BY <2>1 DEF Milestone
  <2> QED BY <2>1, <2>2 DEF Owed
<1> QED BY <1>1, SumInt, ConstantsAssumption DEF UnstreamedObligation

\* claim_timeout_refund preserves the invariant.
LEMMA CoreTimeout ==
    ASSUME CoreInv, NEW auth \in AuthSets, ClaimTimeoutRefund(auth)
    PROVE  CoreInv'
<1> USE ConstantsAssumption, InputsAssumption
<1>1. TypeOK /\ Solvent
  BY DEF CoreInv
<1>2. Locked \in Int /\ UnstreamedObligation \in Int
  BY <1>1, ObligationIsInt DEF Solvent
<1>3. book' \in Book /\ tokens' \in [Address -> Nat] /\ Solvent'
  BY <1>1, <1>2, RefundFacts DEF ClaimTimeoutRefund
<1>4. TypeOK'
  BY <1>1, <1>3 DEF ClaimTimeoutRefund, TypeOK, schedule, docket, terms
<1> QED BY <1>3, <1>4, ActiveIsFunded DEF ClaimTimeoutRefund

\* resolve_dispute and settle_dispute_quorum preserve the invariant.
LEMMA CoreSettle ==
    ASSUME CoreInv, NEW s \in SplitChoices, Settle(s[1], s[2])
    PROVE  CoreInv'
<1> USE ConstantsAssumption, InputsAssumption
<1>1. TypeOK /\ Solvent
  BY DEF CoreInv
<1>2. s[1] \in 0 .. BPS_SCALE
  <2>1. s[1] \in Nat /\ s[2] \in Nat
    OBVIOUS
  <2>2. s[1] + s[2] = BPS_SCALE
    BY DEF Settle, FullBps
  <2>3. \A a, b \in Nat : a + b = BPS_SCALE => a \in 0 .. BPS_SCALE
    BY DEF BPS_SCALE
  <2> QED BY <2>1, <2>2, <2>3
<1>3. book' \in Book /\ tokens' \in [Address -> Nat] /\ Solvent'
  BY <1>1, <1>2, SettledMoneyFacts DEF Settle
<1>4. TypeOK'
  BY <1>1, <1>3 DEF Settle, TypeOK, schedule, terms
<1> QED BY <1>3, <1>4, ActiveIsFunded DEF Settle

\* raise_dispute, append_dispute_evidence and the settlements preserve the
\* invariant.
LEMMA CoreDispute ==
    ASSUME CoreInv, NEW auth \in AuthSets, Dispute(auth)
    PROVE  CoreInv'
<1> USE ConstantsAssumption, InputsAssumption
<1>1. TypeOK /\ Solvent
  BY DEF CoreInv
<1>2. ASSUME RaiseDispute(auth) PROVE CoreInv'
  <2>1. ASSUME NEW i \in Ids
        PROVE  MarkedDisputed[i] \in Milestone
    <3>1. milestones[i] \in Milestone
      BY <1>1 DEF TypeOK
    <3>2. [milestones[i] EXCEPT !.status = "Disputed"] \in Milestone
      BY <3>1 DEF Milestone, MilestoneStatus
    <3> QED BY <3>1, <3>2 DEF MarkedDisputed
  <2>2. MarkedDisputed \in [Ids -> Milestone]
    BY <2>1 DEF MarkedDisputed
  <2>3. TypeOK'
    BY <1>1, <1>2, <2>2 DEF RaiseDispute, TypeOK, custody, terms
  <2>4. Solvent'
    BY <1>1, <1>2 DEF RaiseDispute, custody, Solvent, Locked
  <2> QED BY <1>2, <2>3, <2>4, ActiveIsFunded DEF RaiseDispute
<1>3. ASSUME NEW actor \in auth, NEW hash \in Hashes, AppendDisputeEvidence(auth, actor, hash)
      PROVE  CoreInv'
  <2>1. TypeOK'
    BY <1>1, <1>3 DEF AppendDisputeEvidence, TypeOK, schedule, custody, terms
  <2>2. Solvent'
    BY <1>1, <1>3 DEF AppendDisputeEvidence, custody, Solvent, Locked
  <2> QED BY <1>3, <2>1, <2>2, ActiveIsFunded DEF AppendDisputeEvidence
<1> QED BY <1>2, <1>3, CoreSettle DEF Dispute, ResolveDispute, SettleDisputeQuorum

\* A new payout for one milestone changes the sum of the payouts by the difference.
LEMMA PayoutTotalChange ==
    ASSUME NEW ms \in [Ids -> Milestone], NEW new \in [Ids -> Milestone], NEW i \in Ids,
           \A k \in Ids : k # i => new[k].payout = ms[k].payout
    PROVE  SumTo([k \in Ids |-> new[k].payout], N)
             = SumTo([k \in Ids |-> ms[k].payout], N) + new[i].payout - ms[i].payout
<1> DEFINE f == [k \in Ids |-> ms[k].payout]
           g == [k \in Ids |-> new[k].payout]
<1>1. \A k \in 1 .. N : f[k] \in Int /\ g[k] \in Int
  BY DEF Ids, Milestone
<1>2. \A k \in 1 .. N : k # i => g[k] = f[k]
  BY DEF Ids
<1>3. f[i] = ms[i].payout /\ g[i] = new[i].payout /\ i \in 1 .. N
  BY DEF Ids
<1> HIDE DEF f, g
<1>4. SumTo(g, N) = SumTo(f, N) + g[i] - f[i]
  BY <1>1, <1>2, <1>3, SumChange, ConstantsAssumption
<1> QED BY <1>3, <1>4 DEF f, g

\* reorder_milestone yields a list of milestone ids again.
LEMMA ReorderedType ==
    ASSUME order \in [Ids -> Ids], NEW i \in Ids, NEW position \in Ids, Listed(i)
    PROVE  Reordered(i, position) \in [Ids -> Ids]
<1> DEFINE old == CHOOSE k \in Ids : order[k] = i
<1>1. old \in Ids
  BY DEF Listed
<1> HIDE DEF old
<1>2. ASSUME NEW k \in Ids, old <= k, k < position
      PROVE  order[k + 1] \in Ids
  <2>1. k + 1 \in Ids
    BY <1>1, <1>2, ConstantsAssumption DEF Ids
  <2> QED BY <2>1
<1>3. ASSUME NEW k \in Ids, position < k, k <= old
      PROVE  order[k - 1] \in Ids
  <2>1. k - 1 \in Ids
    BY <1>1, <1>3, ConstantsAssumption DEF Ids
  <2> QED BY <2>1
<1> QED BY <1>2, <1>3 DEF Reordered, old

\* request_milestone_amendment and approve_amendment preserve the invariant:
\* before the deposit the rewritten total stays the sum of the payouts.
LEMMA CoreAmend ==
    ASSUME CoreInv, NEW auth \in AuthSets, Amend(auth)
    PROVE  CoreInv'
<1> USE ConstantsAssumption, InputsAssumption
<1>1. TypeOK /\ Solvent
  BY DEF CoreInv
<1>2. ASSUME NEW actor \in auth, NEW i \in Ids, NEW payout \in AmendedPayouts,
             NEW position \in Ids, RequestMilestoneAmendment(auth, actor, i, payout, position)
      PROVE  CoreInv'
  <2>1. amendment' \in Amendment
    BY <1>2 DEF RequestMilestoneAmendment, Amendment
  <2>2. TypeOK'
    BY <1>1, <1>2, <2>1 DEF RequestMilestoneAmendment, TypeOK, schedule, custody, docket, terms
  <2> QED BY <1>1, <1>2, <2>2 DEF RequestMilestoneAmendment, CoreInv, schedule, custody,
             Solvent, Locked, Funded, PayoutTotal
<1>3. ASSUME ApproveAmendment(auth)
      PROVE  CoreInv'
  <2> DEFINE i == amendment.id
             payout == amendment.payout
  <2>1. i \in Ids /\ payout \in Nat /\ amendment.position \in Ids
    BY <1>1, <1>3 DEF ApproveAmendment, TypeOK, Amendment
  <2>2. order' \in [Ids -> Ids]
    <3>1. order' = Reordered(i, amendment.position)
      BY <1>3 DEF ApproveAmendment
    <3>2. order \in [Ids -> Ids]
      BY <1>1 DEF TypeOK
    <3> QED BY <1>3, <2>1, <3>1, <3>2, ReorderedType DEF ApproveAmendment
  <2> HIDE DEF i, payout
  <2>3. CASE state = "Pending"
    <3>1. /\ milestones' = [milestones EXCEPT ![i].payout = payout]
          /\ config' = [config EXCEPT !.total = @ - milestones[i].payout + payout]
      BY <1>3, <2>3 DEF ApproveAmendment, Repriced, i, payout
    <3>2. milestones \in [Ids -> Milestone] /\ config \in Config
      BY <1>1 DEF TypeOK
    <3>3. milestones' \in [Ids -> Milestone]
      <4>0. milestones[i] \in Milestone
        BY <2>1, <3>2
      <4>1. [milestones[i] EXCEPT !.payout = payout] \in Milestone
        BY <2>1, <4>0 DEF Milestone
      <4>2. milestones' = [milestones EXCEPT ![i] = [milestones[i] EXCEPT !.payout = payout]]
        BY <2>1, <3>1, <3>2
      <4> QED BY <3>2, <4>1, <4>2
    <3>4. PayoutTotal' = PayoutTotal + payout - milestones[i].payout
      <4>1. \A k \in Ids : k # i => milestones'[k].payout = milestones[k].payout
        BY <3>1, <3>2
      <4>2. milestones'[i].payout = payout
        <5>1. milestones[i] \in Milestone
          BY <2>1, <3>2
        <5> QED BY <2>1, <3>1, <3>2, <5>1 DEF Milestone
      <4>3. PayoutTotal' = PayoutTotal + milestones'[i].payout - milestones[i].payout
        BY <2>1, <3>2, <3>3, <4>1, PayoutTotalChange DEF PayoutTotal
      <4> QED BY <4>2, <4>3
    <3>5. PayoutTotal \in Nat /\ PayoutTotal' \in Nat
      BY <3>2, <3>3, PayoutsAddUp DEF PayoutTotal
    <3>6. milestones[i].payout \in Nat
      BY <2>1, <3>2 DEF Milestone
    <3>7. config.total = PayoutTotal
      BY <2>3 DEF CoreInv
    <3>8. config'.total = PayoutTotal'
      <4>1. config'.total = config.total - milestones[i].payout + payout
        BY <3>1, <3>2 DEF Config
      <4> QED BY <2>1, <3>4, <3>5, <3>6, <3>7, <4>1
    <3>9. config' \in Config
      BY <3>1, <3>2, <3>5, <3>8 DEF Config
    <3>10. TypeOK'
      BY <1>1, <1>3, <2>2, <3>3, <3>9 DEF ApproveAmendment, TypeOK, custody, docket, terms
    <3>11. Solvent'
      BY <1>1, <1>3 DEF ApproveAmendment, custody, Solvent, Locked
    <3> QED BY <1>3, <2>3, <3>8, <3>10, <3>11 DEF ApproveAmendment, CoreInv, custody, Funded
  <2>4. CASE state # "Pending"
    <3>1. UNCHANGED <<milestones, config>>
      BY <1>3, <2>4 DEF ApproveAmendment, Repriced
    <3>2. TypeOK'
      BY <1>1, <1>3, <2>2, <3>1 DEF ApproveAmendment, TypeOK, custody, docket, terms
    <3> QED BY <1>1, <1>3, <2>4, <3>1, <3>2 DEF ApproveAmendment, CoreInv, custody, Solvent,
               Locked, Funded
  <2> QED BY <2>3, <2>4
<1> QED BY <1>2, <1>3 DEF Amend

\* Every step of the contract preserves the invariant.
LEMMA CoreStep == CoreInv /\ [Next]_vars => CoreInv'
<1> SUFFICES ASSUME CoreInv, [Next]_vars PROVE CoreInv'
  OBVIOUS
<1> USE DEF schedule, custody, docket, terms
<1>1. CASE CloseLedger
  BY <1>1 DEF CloseLedger, CoreInv, TypeOK, Solvent, Locked, Funded, PayoutTotal
<1>2. ASSUME NEW auth \in AuthSets, Invocation(auth)
      PROVE  CoreInv'
  <2>1. CASE EmergencyPause(auth)
    BY <2>1 DEF EmergencyPause, CoreInv, TypeOK, Solvent, Locked, Funded, PayoutTotal
  <2>2. CASE EmergencyUnpause(auth)
    BY <2>2 DEF EmergencyUnpause, CoreInv, TypeOK, Solvent, Locked, Funded, PayoutTotal
  <2> QED BY <1>2, <2>1, <2>2, CoreSetup, CoreDelivery, CoreTimeout, CoreDispute, CoreAmend
          DEF Invocation
<1>3. CASE UNCHANGED vars
  BY <1>3 DEF vars, CoreInv, TypeOK, Solvent, Locked, Funded, PayoutTotal
<1> QED BY <1>1, <1>2, <1>3 DEF Next

\* The invariant holds in every reachable state.
THEOREM CoreInvariance == Spec => []CoreInv
BY CoreInit, CoreStep, PTL DEF Spec

\* Whatever the schedule and the inputs, every storage key keeps the type that
\* storage.rs gives it and no account of the asset is overdrawn.
THEOREM TypeCorrectness == Spec => []TypeOK
<1>1. CoreInv => TypeOK
  BY DEF CoreInv
<1> QED BY <1>1, CoreInvariance, PTL

\* Whatever the fees, streams, penalties, refunds and settlements, the contract
\* holds at least the tokens that its book says are locked.
THEOREM Solvency == Spec => []Solvent
<1>1. CoreInv => Solvent
  BY DEF CoreInv
<1> QED BY <1>1, CoreInvariance, PTL
=============================================================================
