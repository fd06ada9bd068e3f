------------------------------ MODULE MCDesktop ------------------------------
(***************************************************************************)
(* One behaviour exercises one side of the desktop process: the requests   *)
(* of the dashboard to the MCP server, the boot and the quit of the        *)
(* process, or the pages and what they show.  `focus` says which.  They    *)
(* share no state, so the others stay as they were created.                *)
(***************************************************************************)
EXTENDS DesktopServices

CONSTANTS MaxLaunches,                                       \* DesktopApp
          Pages, OtherPages, MaxChanges, MaxReads, MaxFailures, Nothing  \* DashboardPages

(* A page has room for the one snapshot it is mounted with.                *)
ASSUME BoundsAssumption ==
    /\ MaxLaunches \in Nat /\ MaxChanges \in Nat /\ MaxFailures \in Nat /\ MaxReads \in Nat \ {0}
    /\ Nothing \notin 0..MaxChanges

VARIABLES focus,
          mode, boot, mainWin, viewerWin, tray, quitting, up, starting, launches, told_to, spoiled,
          now, answers, reads, pushes, wire, shown, failures, blurred

appVars == <<mode, boot, mainWin, viewerWin, tray, quitting, up, starting, launches, told_to, spoiled>>
pageVars == <<now, answers, reads, pushes, wire, shown, failures, blurred>>
benchVars == <<focus, allVars, appVars, pageVars>>

A == INSTANCE DesktopApp WITH asked <- told_to

(* A page is followed while it and another one stop the tunnel, name no    *)
(* workspace, and clear a log.                                             *)
Asked(op, body) == [op |-> op, body |-> body]
D == INSTANCE DashboardPages WITH
        request <- answers, Performers <- Pages \union OtherPages,
        Performed <- {Asked("stopTunnel", {}), Asked("selectWorkspace", {}), Asked("clearLogBuffer", {"source"})}

BenchInit ==
    /\ focus \in {"services", "app", "pages"}
    /\ DesktopInit /\ (focus # "services" => registered = <<>>)
    /\ A!AppInit /\ (focus # "app" => mode = "desktop")
    /\ D!PagesInit

ServicesStep == focus = "services" /\ DesktopNext /\ UNCHANGED <<focus, appVars, pageVars>>
AppStep == focus = "app" /\ A!AppNext /\ UNCHANGED <<focus, allVars, pageVars>>
PagesStep == focus = "pages" /\ D!PagesNext /\ UNCHANGED <<focus, allVars, appVars>>

BenchNext == ServicesStep \/ AppStep \/ PagesStep

BenchSpec ==
    /\ BenchInit /\ [][BenchNext]_benchVars
    /\ Fairness /\ DesktopFairness /\ A!AppFairness /\ D!PagesFairness

-----------------------------------------------------------------------------
(* Every side keeps its variables in their types.                          *)
MainTypeOK == DesktopTypeOK /\ A!AppTypeOK /\ D!PagesTypeOK

(* DesktopApp: a desktop keeps its window until it is told to quit, and    *)
(* leaves nothing behind.  DashboardPages: once nothing is under way a     *)
(* page shows the services as they are.                                    *)
AppSound == A!AppSound /\ D!PagesCurrent

(* Every request is answered, a process told to quit does, and every page  *)
(* comes to show the last change.                                          *)
DesktopAnswers == RequestsAnswered /\ A!QuitEnds /\ D!PagesConverge
=============================================================================
