-------------------------- MODULE CreateEscrowForm --------------------------
(***************************************************************************)
(* CreateEscrowForm and CreateEscrowModal of apps/client/components/escrow: *)
(* a form in four steps inside a dialog, whose Next and whose submission    *)
(* are awaited while the user goes on.                                      *)
(*                                                                         *)
(* Next awaits the validation of the section it was clicked in and then     *)
(* moves on from wherever the form is by then, even past the last section.  *)
(* A submission keeps the account of the render it was clicked in, and      *)
(* closes whatever dialog is open when it ends.  The values are abstracted  *)
(* to the parties and to whether the milestones pass the schema; the        *)
(* asset's section has defaults that do.  Threshold and lock window are     *)
(* shown and not sent.                                                      *)
(***************************************************************************)
EXTENDS Naturals, FiniteSets

CONSTANTS
    Accounts,       \* Stellar accounts
    NoAccount,      \* null
    NotAnAccount,   \* text that is not an account
    MaxMoves,       \* bound: validations under way at once
    MaxMounts       \* bound: how often the dialog is opened

ASSUME FormAssumption ==
    /\ NoAccount \notin Accounts /\ NotAnAccount \notin Accounts
    /\ MaxMoves \in Nat /\ MaxMounts \in Nat

VARIABLES
    open,           \* modalOpen of the dashboard
    mount,          \* how often the form was mounted
    step,           \* the section that is shown, from 0
    values,         \* the values of the form
    moves,          \* the validations under way that will succeed
    submissions,    \* the submissions in progress, with what they captured
    publicKey,      \* the account of the wallet
    assembled       \* the parties of the initialize that was assembled last

formVars == <<open, mount, step, values, moves, submissions, publicKey, assembled>>

Review == 3
EmptyForm == [recipient |-> NotAnAccount, arbitrator |-> NotAnAccount, milestonesValid |-> TRUE]
Parties(funder, v) == [funder |-> funder, recipient |-> v.recipient, arbitrator |-> v.arbitrator]

\* escrowSchema on the fields of a section.
SectionValid(section) ==
    /\ section = 0 => /\ NotAnAccount \notin {values.recipient, values.arbitrator}
                      /\ values.recipient # values.arbitrator
    /\ section = 2 => values.milestonesValid

OpenModal ==
    /\ ~ open /\ mount < MaxMounts
    /\ open' = TRUE /\ mount' = mount + 1
    /\ step' = 0 /\ values' = EmptyForm /\ moves' = 0
    /\ UNCHANGED <<submissions, publicKey, assembled>>

\* The X of the dialog unmounts the form; a submission goes on.
CloseModal ==
    /\ open /\ open' = FALSE
    /\ UNCHANGED <<mount, step, values, moves, submissions, publicKey, assembled>>

EditParties ==
    /\ open /\ step = 0
    /\ \E r, a \in Accounts \cup {NotAnAccount} :
            values' = [values EXCEPT !.recipient = r, !.arbitrator = a]
    /\ UNCHANGED <<open, mount, step, moves, submissions, publicKey, assembled>>

EditMilestones ==
    /\ open /\ step = 2
    /\ values' = [values EXCEPT !.milestonesValid = ~ @]
    /\ UNCHANGED <<open, mount, step, moves, submissions, publicKey, assembled>>

\* Next: the section shown is validated; one that is not valid stays.
NextSection ==
    /\ open /\ step < Review /\ moves < MaxMoves
    /\ SectionValid(step)
    /\ moves' = moves + 1
    /\ UNCHANGED <<open, mount, step, values, submissions, publicKey, assembled>>

\* A validation is answered.
Validated ==
    /\ open /\ moves > 0
    /\ moves' = moves - 1 /\ step' = step + 1
    /\ UNCHANGED <<open, mount, values, submissions, publicKey, assembled>>

Back ==
    /\ open /\ step > 0
    /\ step' = step - 1
    /\ UNCHANGED <<open, mount, values, moves, submissions, publicKey, assembled>>

\* handleSubmit validates the whole form, whichever sections Next has passed; onSubmit
\* goes on with an account that is not one of the parties.
Submittable ==
    /\ \A section \in 0 .. Review : SectionValid(section)
    /\ publicKey \notin {NoAccount, values.recipient, values.arbitrator}

\* Create & deposit.
CreateAndDeposit ==
    /\ open /\ step >= Review
    /\ \A s \in submissions : s.mount # mount
    /\ Submittable
    /\ submissions' = submissions \cup {[mount |-> mount, parties |-> Parties(publicKey, values)]}
    /\ UNCHANGED <<open, mount, step, values, moves, publicKey, assembled>>

\* Mutant: the account is read again when the milestones are hashed.
Funder_Current(s) == publicKey

\* The funder of a submission.
Funder(s) == s.parties.funder

\* initializeEscrow is answered: assembled, and the dialog closed, or refused.
Answered ==
    /\ \E s \in submissions :
        /\ submissions' = submissions \ {s}
        /\ \/ assembled' = [s.parties EXCEPT !.funder = Funder(s)] /\ open' = FALSE
           \/ UNCHANGED <<assembled, open>>
    /\ UNCHANGED <<mount, step, values, moves, publicKey>>

\* The wallet is connected, disconnected or switched.
WalletMoves ==
    /\ \E a \in (Accounts \cup {NoAccount}) \ {publicKey} : publicKey' = a
    /\ UNCHANGED <<open, mount, step, values, moves, submissions, assembled>>

FormInit ==
    /\ open = FALSE /\ mount = 0
    /\ step = 0 /\ values = EmptyForm /\ moves = 0
    /\ submissions = {} /\ publicKey = NoAccount
    /\ assembled = Parties(NoAccount, EmptyForm)

FormNext ==
    \/ OpenModal \/ CloseModal \/ EditParties \/ EditMilestones
    \/ NextSection \/ Validated \/ Back
    \/ CreateAndDeposit \/ Answered \/ WalletMoves

FormSpec == FormInit /\ [][FormNext]_formVars

----------------------------------------------------------------------------
(* Properties.                                                              *)

\* The state of the form has its type; the step has no upper bound but the clicks.
FormTypeOK ==
    /\ open \in BOOLEAN /\ mount \in 0 .. MaxMounts
    /\ step \in Nat /\ moves \in 0 .. MaxMoves
    /\ values \in [recipient : Accounts \cup {NotAnAccount}, arbitrator : Accounts \cup {NotAnAccount},
                   milestonesValid : BOOLEAN]
    /\ publicKey \in Accounts \cup {NoAccount}
    /\ \A s, t \in submissions : s.mount = t.mount => s = t

\* An initialize is only assembled for three different accounts, although sections may be
\* passed without their validation and the wallet may change while it is under way.
AssembledIsDistinct ==
    assembled.funder # NoAccount =>
        /\ {assembled.funder, assembled.recipient, assembled.arbitrator} \subseteq Accounts
        /\ Cardinality({assembled.funder, assembled.recipient, assembled.arbitrator}) = 3
=============================================================================
