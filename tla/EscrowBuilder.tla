--------------------------- MODULE EscrowBuilder ----------------------------
(***************************************************************************)
(* The two ways of the SDK to an `initialize` invocation, against what the  *)
(* contract accepts: EscrowBuilder of packages/sdk/src/builders/escrow.ts,  *)
(* whose setters are called in any order, some of them in vain, and         *)
(* EscrowClient.initialize of client.ts, which the web client's form uses,  *)
(* with the milestones of converters.ts.                                    *)
(*                                                                         *)
(* A setter that throws leaves the builder as it was, and its caller may go *)
(* on.  compile and toParams read the builder and change nothing.  How the  *)
(* library encodes each field is external and assumed to be what the        *)
(* contract decodes; the set of the fields is the SDK's own, and the host   *)
(* decodes a map to a contract's struct only if it has exactly its fields.  *)
(***************************************************************************)
EXTENDS Naturals, Sequences, FiniteSets

CONSTANTS
    Addresses,      \* well-formed addresses
    Unset,           \* undefined
    MaxDrafts       \* bound: milestones

ASSUME BuilderAssumption == Unset \notin Addresses /\ Unset \notin Nat /\ MaxDrafts \in Nat

VARIABLES
    party,          \* the parties and the token set so far
    drafts          \* the milestones added so far

builderVars == <<party, drafts>>

Fields == {"funder", "recipient", "arbitrator", "token"}
\* A draft's id may be left to the builder; a duration may be negative until compile looks.
Drafts == [id : (1 .. MaxDrafts) \cup {Unset}, payout : {0, 1}, vests : {"never", "later", "negative"}]

----------------------------------------------------------------------------
(* The contract.                                                            *)

MilestoneFields ==
    {"milestone_id", "payout_amount", "description_hash", "is_approved", "completed_at", "status",
     "submitted_at", "vesting_secs", "streamed", "deadline", "late_penalty_applied"}

\* The checks of initialize, on decoded arguments.
Accepts(p, milestones) ==
    /\ \A m \in {milestones[i] : i \in DOMAIN milestones} : m.fields = MilestoneFields
    /\ Cardinality({p.funder, p.recipient, p.arbitrator}) = 3
    /\ p.token \notin {p.funder, p.recipient, p.arbitrator}
    /\ milestones # <<>>
    /\ \A i \in DOMAIN milestones :
        milestones[i].id = i /\ milestones[i].payout > 0 /\ milestones[i].vests # "negative"

----------------------------------------------------------------------------
(* The builder.                                                             *)

\* The id of a draft in its place.
Numbered(i) == IF drafts[i].id = Unset THEN i ELSE drafts[i].id

\* Mutant: the recipient may be the arbitrator.
Valid_OneCollision ==
    /\ \A f \in Fields : party[f] # Unset
    /\ party.funder \notin {party.recipient, party.arbitrator}
    /\ drafts # <<>>
    /\ \A i \in DOMAIN drafts : Numbered(i) = i /\ drafts[i].vests # "negative"

\* validate, in compile and toParams.
Valid ==
    /\ \A f \in Fields : party[f] # Unset
    /\ Cardinality({party.funder, party.recipient, party.arbitrator}) = 3
    /\ drafts # <<>>
    /\ \A i \in DOMAIN drafts : Numbered(i) = i /\ drafts[i].vests # "negative"

\* The milestones of compile.
Compiled ==
    [i \in DOMAIN drafts |->
        [id |-> Numbered(i), payout |-> drafts[i].payout, vests |-> drafts[i].vests,
         fields |-> MilestoneFields]]

\* The milestones of toParams, through EscrowClient.initialize and milestoneToScVal.
Converted ==
    [i \in DOMAIN drafts |->
        [id |-> Numbered(i), payout |-> drafts[i].payout, vests |-> "never",
         fields |-> {"milestone_id", "payout_amount", "description_hash", "is_approved",
                     "completed_at", "status", "submitted_at"}]]

\* setFunder .. setToken; the address may be a contract's for the token alone.
SetParty(field, address) ==
    /\ party' = [party EXCEPT ![field] = address]
    /\ UNCHANGED drafts

\* addMilestone checks the payout and the hash; addMilestones adds those before one it refuses.
AddMilestone(draft) ==
    /\ Len(drafts) < MaxDrafts
    /\ draft.payout > 0
    /\ drafts' = Append(drafts, draft)
    /\ UNCHANGED party

ClearMilestones ==
    /\ drafts' = <<>>
    /\ UNCHANGED party

BuilderInit == party = [f \in Fields |-> Unset] /\ drafts = <<>>

BuilderNext ==
    \/ \E f \in Fields, a \in Addresses : SetParty(f, a)
    \/ \E d \in Drafts : AddMilestone(d)
    \/ ClearMilestones

BuilderSpec == BuilderInit /\ [][BuilderNext]_builderVars

----------------------------------------------------------------------------
(* Properties.                                                              *)

\* The builder's fields have their types.
BuilderTypeOK ==
    /\ party \in [Fields -> Addresses \cup {Unset}]
    /\ drafts \in Seq(Drafts) /\ Len(drafts) <= MaxDrafts
    /\ \A i \in DOMAIN drafts : drafts[i].payout > 0

\* What EscrowBuilder compiles passes the checks of the contract, except for a token that is
\* one of the parties: whatever the order of the setters, validate is not the weaker one.
CompiledIsAccepted ==
    Valid /\ party.token \notin {party.funder, party.recipient, party.arbitrator} =>
        Accepts(party, Compiled)

\* client.ts:45 "Builds initialize / deposit / proof / approve invocations": the escrow that
\* EscrowBuilder would have compiled is accepted when EscrowClient.initialize builds it.
ClientInitializes ==
    Valid /\ Accepts(party, Compiled) => Accepts(party, Converted)
=============================================================================
