------------------------------ MODULE Custody -------------------------------
(***************************************************************************)
(* What an escrow promises about the money it holds, without milestones,    *)
(* fees, clocks or signatures: a pot, and the part of it that approvals     *)
(* have already promised to the recipient.  Promised money leaves only      *)
(* through streams and settlements, and nothing but promised money is left  *)
(* in a pot that is closed.                                                 *)
(***************************************************************************)
EXTENDS Naturals

VARIABLES phase, pot, promised

custodyVars == <<phase, pot, promised>>

Phases == {"Unfunded", "Held", "Frozen", "Closed"}

Init == phase = "Unfunded" /\ pot = 0 /\ promised = 0

\* The deposit.
Fund ==
    /\ phase = "Unfunded"
    /\ phase' = "Held"
    /\ pot' \in Nat \ {0}
    /\ promised' = 0

\* Nothing but promised money may be in a pot that closes.
MayClose == phase' = "Closed" => pot' = promised'

\* An approval pays unpromised money out or promises it, and thaws a frozen pot.
Approve ==
    /\ phase \in {"Held", "Frozen"}
    /\ phase' \in {"Held", "Closed"}
    /\ \/ promised' \in promised .. pot /\ pot' = pot
       \/ pot' \in promised .. pot /\ promised' = promised
    /\ MayClose

\* A stream pays out promised money.
Stream ==
    /\ phase \in {"Held", "Closed"}
    /\ promised' < promised
    /\ pot' = pot - (promised - promised')
    /\ promised' \in Nat
    /\ UNCHANGED phase

\* A penalty gives unpromised money back.
Slash ==
    /\ phase = "Held"
    /\ pot' \in promised .. pot
    /\ UNCHANGED <<phase, promised>>

\* The timeout gives all unpromised money back.
TimeOut ==
    /\ phase = "Held"
    /\ promised < pot
    /\ phase' = "Closed"
    /\ pot' = promised
    /\ UNCHANGED promised

Freeze ==
    /\ phase = "Held"
    /\ phase' = "Frozen"
    /\ UNCHANGED <<pot, promised>>

\* A settlement empties the pot.
Settle ==
    /\ phase = "Frozen"
    /\ phase' = "Closed"
    /\ pot' = 0
    /\ promised' = 0

Next == Fund \/ Approve \/ Stream \/ Slash \/ TimeOut \/ Freeze \/ Settle

Spec == Init /\ [][Next]_custodyVars
=============================================================================
