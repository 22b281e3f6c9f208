--------------------------- MODULE DisputeBuilder ---------------------------
(***************************************************************************)
(* DisputeBuilder of packages/sdk/src/builders/dispute.ts: one builder, its *)
(* methods called one after another, each successful or throwing in the     *)
(* middle of its assignments, and compile at any time.  Every field keeps   *)
(* what an earlier call has put there.                                      *)
(***************************************************************************)
EXTENDS Naturals, Sequences

CONSTANTS
    Actors,         \* well-formed addresses
    Digests,        \* well-formed evidence hashes
    Splits,         \* pairs of basis points that sum to 10000
    Undefined,      \* undefined, null
    Refused         \* an argument that is refused

ASSUME DisputeBuilderAssumption ==
    /\ Undefined \notin Actors \cup Digests \cup Splits
    /\ Undefined \notin {"raise", "evidence", "resolve", "quorum"}
    /\ Refused \notin Actors \cup Digests \cup Splits

VARIABLES
    action,         \* the action selected last
    actor, digest,  \* the evidence
    split, signers, \* the settlement
    settlement      \* history: the last settlement that was asked for and not refused

disputeVars == <<action, actor, digest, split, signers, settlement>>

\* The lists of signers that are not refused: not empty, no address twice.
SignerSets == (SUBSET Actors) \ {{}}
NoSettlement == [method |-> "none", split |-> Undefined, signers |-> {}]

SelectRaise ==
    /\ action' = "raise"
    /\ UNCHANGED <<actor, digest, split, signers, settlement>>

\* appendEvidence selects the action first, then checks and sets one field after the other.
AppendEvidence(a, d) ==
    /\ action' = "evidence"
    /\ actor' = IF a = Refused THEN actor ELSE a
    /\ digest' = IF Refused \in {a, d} THEN digest ELSE d
    /\ UNCHANGED <<split, signers, settlement>>

\* settle checks the split before it sets anything.
SettleWith(s) ==
    /\ s # Refused
    /\ action' = "resolve" /\ split' = s
    /\ settlement' = [method |-> "resolve", split |-> s, signers |-> {}]
    /\ UNCHANGED <<actor, digest, signers>>

\* Mutant: the split is set before the signers are checked.
SettleWithQuorum_SplitFirst(s, who) ==
    /\ s # Refused
    /\ split' = s
    /\ IF who = Refused THEN UNCHANGED <<action, signers, settlement>>
       ELSE /\ action' = "quorum" /\ signers' = who
            /\ settlement' = [method |-> "quorum", split |-> s, signers |-> who]
    /\ UNCHANGED <<actor, digest>>

\* settleWithQuorum checks the split and every signer before it sets anything.
SettleWithQuorum(s, who) ==
    /\ Refused \notin {s, who}
    /\ action' = "quorum" /\ split' = s /\ signers' = who
    /\ settlement' = [method |-> "quorum", split |-> s, signers |-> who]
    /\ UNCHANGED <<actor, digest>>

\* What compile gives for a settlement.
CompiledSettlement ==
    [method |-> action, split |-> split, signers |-> IF action = "quorum" THEN signers ELSE {}]

DisputeInit ==
    /\ action = Undefined /\ actor = Undefined /\ digest = Undefined
    /\ split = Undefined /\ signers = {}
    /\ settlement = NoSettlement

DisputeNext ==
    \/ SelectRaise
    \/ \E a \in Actors \cup {Refused}, d \in Digests \cup {Refused} : AppendEvidence(a, d)
    \/ \E s \in Splits \cup {Refused} : SettleWith(s)
    \/ \E s \in Splits \cup {Refused}, who \in SignerSets \cup {Refused} : SettleWithQuorum(s, who)

DisputeBuilderSpec == DisputeInit /\ [][DisputeNext]_disputeVars

----------------------------------------------------------------------------
(* Properties.                                                              *)

\* The builder's fields have their types.
DisputeBuilderTypeOK ==
    /\ action \in {Undefined, "raise", "evidence", "resolve", "quorum"}
    /\ actor \in Actors \cup {Undefined} /\ digest \in Digests \cup {Undefined}
    /\ split \in Splits \cup {Undefined} /\ signers \in SignerSets \cup {{}}

\* A settlement that is compiled is the last one that was asked for and not refused, with
\* its split and its signers: none of a refused call is mixed into it.
SettlementIsWhole ==
    action \in {"resolve", "quorum"} => CompiledSettlement = settlement
=============================================================================
