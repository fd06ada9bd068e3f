------------------------------- MODULE MCTunnel -------------------------------
(***************************************************************************)
(* The two views of the tunnel controller, one per behaviour: its timers   *)
(* with one caller at a time (TunnelReconnect), or its overlapping calls   *)
(* without time (TunnelController).  `focus` says which; the other stays   *)
(* as it was created.                                                      *)
(***************************************************************************)
EXTENDS TunnelReconnect

CONSTANTS Calls, Children, None

VARIABLES focus, ctlState, child, intentional, timer, resuming, key, os, call

ctlVars == <<ctlState, child, intentional, timer, resuming, key, os, call>>
bvars == <<focus, vars, ctlVars>>

C == INSTANCE TunnelController WITH state <- ctlState

BenchInit == focus \in {"timers", "calls"} /\ Init /\ C!Init

TimersStep(step) == focus = "timers" /\ step /\ UNCHANGED <<focus, ctlVars>>
CallsStep(step) == focus = "calls" /\ step /\ UNCHANGED <<focus, vars>>

BenchFairness ==
    /\ WF_bvars(TimersStep(Tick)) /\ WF_bvars(TimersStep(RestartFires))
    /\ WF_bvars(TimersStep(StableFires))
    /\ \A c \in Calls : WF_bvars(CallsStep(C!CallSteps(c)))

BenchSpec ==
    BenchInit /\ [][TimersStep(Next) \/ CallsStep(C!Next)]_bvars /\ BenchFairness

-----------------------------------------------------------------------------
(* Both views keep their variables in their types.                         *)
TunnelTypeOK == TypeOK /\ C!TypeOK

(* A reconnect that had begun does not bring a stopped child back (290-302).*)
StopOutlivesReconnect == [][C!SpawnedByStart]_bvars

(* A start ends the "starting" it has set, or its caller hears why not.    *)
StartingEnds == C!StartingEnds
=============================================================================
