----------------------------- MODULE Dashboard ------------------------------
(***************************************************************************)
(* The milestones of apps/client/app/dashboard/page.tsx and the cards of    *)
(* components/escrow/MilestoneTimeline.tsx.  An approval, a proof or a      *)
(* dispute takes effect 400 ms after its click, on the milestones of that   *)
(* moment; the click was allowed by those of an earlier one, and in the     *)
(* proof dialog by a copy of the milestone taken when it was opened.        *)
(*                                                                         *)
(* All delays are equal, so the works elapse in the order of their clicks.  *)
(* An open dialog covers the page: nothing beneath it can be clicked.       *)
(***************************************************************************)
EXTENDS Naturals, Sequences, SequencesExt

CONSTANTS
    Demo,           \* demoMilestones: the status each milestone begins with
    NoMilestone,    \* null
    MaxWorks        \* bound: clicks whose delay has not elapsed

Milestones == DOMAIN Demo
MilestoneStatuses == {"Pending", "Under Review", "Released", "Disputed"}

ASSUME DashboardAssumption ==
    /\ Demo \in [Milestones -> MilestoneStatuses \ {"Disputed"}]
    /\ NoMilestone \notin Milestones /\ MaxWorks \in Nat

VARIABLES
    milestones,     \* status of each milestone, and whether it has a proof
    works,          \* the clicks whose delay runs, first to last
    busyId,         \* the milestone whose Approve is disabled
    inspecting,     \* the copy of a milestone in the proof dialog
    role            \* the role chosen in the page

dashboardVars == <<milestones, works, busyId, inspecting, role>>

Roles == {"funder", "recipient", "arbitrator"}
Kinds == {"approve", "submitProof", "dispute"}

Milestone(status) == [status |-> status, proof |-> status \in {"Under Review", "Released"}]
Closed == [id |-> NoMilestone, status |-> "Pending", proof |-> FALSE]

CanSubmit == role = "recipient"
CanApprove == role \in {"funder", "arbitrator"}

\* withBusy: the work is begun.
WithBusy(kind, id) ==
    /\ Len(works) < MaxWorks
    /\ works' = Append(works, [kind |-> kind, id |-> id])
    /\ busyId' = id

\* The update of each work.
Updated(m, kind) ==
    CASE kind = "approve" -> [m EXCEPT !.status = "Released"]
      [] kind = "submitProof" -> [status |-> "Under Review", proof |-> TRUE]
      [] kind = "dispute" -> [m EXCEPT !.status = IF @ = "Released" THEN @ ELSE "Disputed"]

\* Mutant: only a proof is delayed.
Due_NotDelayed == {i \in DOMAIN works : i = 1 \/ works[i].kind # "submitProof"}

\* Which work may elapse next: the delays are equal.
Due == {i \in DOMAIN works : i = 1}

\* setBusyId(null), whichever milestone is busy by then.
BusyAfter(work) == NoMilestone

\* A delay has elapsed: the work takes effect, and a proof closes the dialog.
Elapse ==
    \E i \in Due :
        /\ milestones' = [milestones EXCEPT ![works[i].id] = Updated(@, works[i].kind)]
        /\ busyId' = BusyAfter(works[i])
        /\ inspecting' = IF works[i].kind = "submitProof" THEN Closed ELSE inspecting
        /\ works' = RemoveAt(works, i)
        /\ UNCHANGED role

\* isUnderReview
Approvable(status) == status = "Under Review"

\* Approve of a card.
Approve(id) ==
    /\ inspecting = Closed /\ CanApprove
    /\ Approvable(milestones[id].status) /\ busyId # id
    /\ WithBusy("approve", id)
    /\ UNCHANGED <<milestones, inspecting, role>>

\* Dispute of a card.
Dispute(id) ==
    /\ inspecting = Closed /\ CanApprove
    /\ milestones[id].status \notin {"Released", "Disputed"}
    /\ WithBusy("dispute", id)
    /\ UNCHANGED <<milestones, inspecting, role>>

\* Verify proof, or Submit, of a card: the dialog opens on a copy.
Inspect(id) ==
    /\ inspecting = Closed
    /\ inspecting' = [id |-> id, status |-> milestones[id].status, proof |-> milestones[id].proof]
    /\ UNCHANGED <<milestones, works, busyId, role>>

\* Submit proof of the dialog, with a hash that is one; it stays open.
SubmitProof ==
    /\ inspecting # Closed /\ CanSubmit /\ inspecting.status = "Pending"
    /\ WithBusy("submitProof", inspecting.id)
    /\ UNCHANGED <<milestones, inspecting, role>>

\* Approve & release of the dialog.
ApproveAndRelease ==
    /\ inspecting # Closed /\ CanApprove /\ Approvable(inspecting.status)
    /\ WithBusy("approve", inspecting.id)
    /\ inspecting' = Closed
    /\ UNCHANGED <<milestones, role>>

CloseDialog ==
    /\ inspecting # Closed
    /\ inspecting' = Closed
    /\ UNCHANGED <<milestones, works, busyId, role>>

ChooseRole(r) ==
    /\ inspecting = Closed
    /\ role' = r
    /\ UNCHANGED <<milestones, works, busyId, inspecting>>

DashboardInit ==
    /\ milestones = [id \in Milestones |-> Milestone(Demo[id])]
    /\ works = <<>> /\ busyId = NoMilestone
    /\ inspecting = Closed
    /\ role = "funder"

DashboardNext ==
    \/ \E id \in Milestones : Approve(id) \/ Dispute(id) \/ Inspect(id)
    \/ SubmitProof \/ ApproveAndRelease \/ CloseDialog
    \/ \E r \in Roles : ChooseRole(r)
    \/ Elapse

DashboardSpec == DashboardInit /\ [][DashboardNext]_dashboardVars

----------------------------------------------------------------------------
(* Properties.                                                              *)

\* The state of the page has its type.
DashboardTypeOK ==
    /\ milestones \in [Milestones -> [status : MilestoneStatuses, proof : BOOLEAN]]
    /\ works \in Seq([kind : Kinds, id : Milestones]) /\ Len(works) <= MaxWorks
    /\ busyId \in Milestones \cup {NoMilestone}
    /\ inspecting \in [id : Milestones \cup {NoMilestone}, status : MilestoneStatuses, proof : BOOLEAN]
    /\ role \in Roles

\* A released milestone stays released, although every work was allowed by a status that
\* may be old: whatever the dialog submits is due before what is approved after it.
ReleasedStays ==
    [][\A id \in Milestones :
        milestones[id].status = "Released" => milestones'[id].status = "Released"]_dashboardVars
=============================================================================
