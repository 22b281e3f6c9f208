-------------------------- MODULE EscrowInstances ---------------------------
(* The values of the small instances TLC checks. *)
EXTENDS Naturals, Sequences

CONSTANTS funder, recipient, arbitrator, juror, vault, contract, usdc

MCAddress == {funder, recipient, arbitrator, juror, vault, contract}

MCParties == {[funder |-> funder, recipient |-> recipient, arbitrator |-> arbitrator,
               asset |-> usdc]}

Terms(payout, vesting, deadline) ==
    [payout |-> payout, vestingSecs |-> vesting, deadline |-> deadline]

PlainAuths == {{funder}, {recipient}, {arbitrator}}
Halves == {<<5000, 5000>>, <<10000, 0>>, <<3333, 6666>>}

\* A lump-sum milestone and a vesting one.  The clock starts at 1, so a proof
\* given at any later close is late for the deadlines 1, never for none.
FundSchedules ==
    {<<Terms(4, 0, 1), Terms(3, 2, 1)>>, <<Terms(1, 2, 1), Terms(2, 0, 0)>>}

\* Late and paid at once, and vesting.
SignedSchedules == {<<Terms(2, 0, 1), Terms(3, 1, 0)>>}

\* A fee that takes part of a payout, one that takes all of it, one beyond the
\* scale, one for the contract itself and one for a treasury that may not be.
Fees == {[treasury |-> vault, bps |-> 2500], [treasury |-> contract, bps |-> 10000],
         [treasury |-> vault, bps |-> 10001], [treasury |-> recipient, bps |-> 0]}

\* A committee of two that may or may not hold the arbitrator, and ones that the
\* contract refuses: a party, a repetition, a threshold nobody can reach.
Committees ==
    {[members |-> <<juror, vault>>, threshold |-> 2],
     [members |-> <<arbitrator, juror>>, threshold |-> 1],
     [members |-> <<juror, recipient>>, threshold |-> 1],
     [members |-> <<juror, juror>>, threshold |-> 2],
     [members |-> <<juror>>, threshold |-> 2]}

PartyAuths == {{funder}, {recipient}, {funder, recipient}}

GiftedEndowment ==
    {[a \in MCAddress |-> CASE a = funder -> 20 [] a = contract -> 1 [] OTHER -> 0]}

BareEndowment ==
    {[a \in MCAddress |-> IF a = funder THEN 20 ELSE 0]}

Signatures ==
    {<<juror>>, <<arbitrator>>, <<juror, vault>>, <<juror, juror>>, <<arbitrator, vault>>}

CommitteeAuths ==
    {{funder}, {recipient}, {funder, recipient}, {arbitrator}, {juror}, {juror, vault}}

\* Three milestones, so that the order can be permuted.
OrderedSchedule == {<<Terms(1, 1, 0), Terms(2, 0, 0), Terms(2, 0, 0)>>}

\* Roles that validate_roles refuses, beside the ones it accepts.
PartiesAndCollisions ==
    MCParties \cup
    {[funder |-> funder, recipient |-> funder, arbitrator |-> arbitrator, asset |-> usdc],
     [funder |-> funder, recipient |-> recipient, arbitrator |-> recipient, asset |-> usdc],
     [funder |-> funder, recipient |-> recipient, arbitrator |-> arbitrator, asset |-> funder],
     [funder |-> funder, recipient |-> recipient, arbitrator |-> arbitrator, asset |-> vault]}
=============================================================================
