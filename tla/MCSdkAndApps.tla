---------------------------- MODULE MCSdkAndApps ----------------------------
(* The parts of the SDK, the server and the web client that share no state:  *)
(* each behaviour is one of them, chosen at the beginning, and the others    *)
(* stand still.                                                              *)
EXTENDS Submission, LruCache, EscrowBuilder, DisputeBuilder, EscrowListing, Dashboard,
        CreateEscrowForm

VARIABLE subject    \* the part that moves

Subjects == {"submission", "cache", "builder", "dispute", "listing", "dashboard", "form"}

Move(s) ==
    /\ subject = s
    /\ UNCHANGED subject
    /\ s # "submission" => UNCHANGED submissionVars
    /\ s # "cache" => UNCHANGED cacheVars
    /\ s # "builder" => UNCHANGED builderVars
    /\ s # "dispute" => UNCHANGED disputeVars
    /\ s # "listing" => UNCHANGED listingVars
    /\ s # "dashboard" => UNCHANGED dashboardVars
    /\ s # "form" => UNCHANGED formVars

MCInit ==
    /\ subject \in Subjects
    /\ SubmissionInit /\ CacheInit /\ BuilderInit /\ DisputeInit
    /\ ListingInit /\ DashboardInit /\ FormInit

MCNext ==
    \/ SubmissionNext /\ Move("submission")
    \/ CacheNext /\ Move("cache")
    \/ BuilderNext /\ Move("builder")
    \/ DisputeNext /\ Move("dispute")
    \/ ListingNext /\ Move("listing")
    \/ DashboardNext /\ Move("dashboard")
    \/ FormNext /\ Move("form")

mcVars ==
    <<subject, submissionVars, cacheVars, builderVars, disputeVars, listingVars, dashboardVars,
      formVars>>

\* The answers and the delays of each request come.
MCSpec ==
    /\ MCInit /\ [][MCNext]_mcVars
    /\ \A r \in Requests : WF_mcVars(GoesOn(r) /\ Move("submission"))

\* The states of all parts have their types.
PartsTypeOK ==
    /\ SubmissionTypeOK /\ CacheTypeOK /\ BuilderTypeOK /\ DisputeBuilderTypeOK
    /\ ListingTypeOK /\ DashboardTypeOK /\ FormTypeOK

\* demoMilestones of the dashboard.
MCDemo == [id \in 1 .. 3 |-> <<"Released", "Under Review", "Pending">>[id]]
=============================================================================
