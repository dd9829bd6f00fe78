--------------------------- MODULE ControlRecovery ---------------------------
(***************************************************************************)
(* The control plane when, from some moment on, no process dies and the    *)
(* database answers: what then becomes of the jobs, whatever happened      *)
(* before.                                                                 *)
(***************************************************************************)
EXTENDS ControlJobs

VARIABLE steady   \* that moment has come

SteadyInit == Init /\ steady = FALSE

SteadyNext ==
    \/ (Proceed \/ (~steady /\ Interrupt)) /\ UNCHANGED steady
    \/ ~steady /\ steady' = TRUE /\ UNCHANGED vars

\* The platform restarts a worker that is down; API handlers and the worker's loop
\* run to their ends.  Nothing makes an operator act or a heartbeat old.
FairSpec ==
    /\ SteadyInit /\ [][SteadyNext]_<<vars, steady>>
    /\ WF_<<vars, steady>>(\E w \in Workers : Start(w) /\ UNCHANGED steady)
    /\ \A r \in Requests : WF_<<vars, steady>>(Request(r) /\ UNCHANGED steady)
    /\ \A w \in Workers :
         WF_<<vars, steady>>((Handle(w) \/ \E j \in Jobs : Claim(w, j)) /\ UNCHANGED steady)

\* A queued job ends, run or cancelled, whatever died before and whatever other
\* jobs were left behind (run(), claim_next, execute).
QueuedJobsEnd ==
    \A j \in Jobs : steady /\ status[j] = "queued" ~> status[j] \in Terminal
=============================================================================
