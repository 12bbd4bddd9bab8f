---------------------------- MODULE MCPipeline ----------------------------
(* Model-checking module of the report pipeline. *)
EXTENDS Pipeline, TLC

\* Slots are interchangeable, and so are reports; used only in runs without
\* liveness properties.
Symmetry == Permutations(Slots) \cup Permutations(Reports)

\* Pipeline leaves open when a job with a free permit takes its first step. The
\* behaviours in which it does so at once are the common ones; a violation
\* found among them needs a job that really waits for the semaphore.
JobCanStart ==
    /\ poll = "gather" /\ LoopFree
    /\ queue # {} /\ Cardinality(WorkerSlots) < MaxConcurrent
EagerSpec == Init /\ [][Next /\ (JobCanStart => queue' # queue)]_vars
=============================================================================
