--------------------------- MODULE MCEventWatcher ---------------------------
(* EventWatcher on small chains.                                            *)
EXTENDS EventWatcher

\* An event the watcher types and one it leaves out.
MCPublished == [topic: {"release", "deposit"}]

\* The contract's own milestone and dispute events.
ContractPublished == [topic: ContractMilestoneAndDispute]
=============================================================================
