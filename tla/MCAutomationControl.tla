------------------------- MODULE MCAutomationControl -------------------------
(***************************************************************************)
(* Values for checking AutomationControl.  Two requests and two workers at *)
(* once are too many states: a behaviour has either all the requests and   *)
(* one worker, or one request at a time, about one strategy, and all the   *)
(* workers.  Requests are alike, and so are workers and strategies.        *)
(***************************************************************************)
EXTENDS AutomationControl, TLC

VARIABLE crew   \* what takes part: requests, workers, strategies asked for

Crews ==
    [handlers : {Handlers}, workers : {{w} : w \in Workers}, strategies : {Strategies}]
        \cup [handlers   : {{h} : h \in Handlers}, workers : {Workers},
              strategies : {{s} : s \in Strategies}]

CrewInit == Init /\ crew \in Crews

Asked == {ask'[h].to : h \in {g \in Handlers : ask'[g].kind \in {"permit", "withdraw"}}}

CrewNext ==
    /\ \/ \E h \in crew.handlers : Request(h)
       \/ StopAutomation \/ SaveSettings
       \/ \E w \in crew.workers : Supervise(w)
    /\ Asked \subseteq crew.strategies
    /\ UNCHANGED crew

CrewSpec == CrewInit /\ [][CrewNext]_<<vars, crew>>

Alike ==
    Permutations(Handlers) \cup Permutations(Workers) \cup Permutations(Strategies)
==============================================================================
