------------------------------ MODULE DesktopApp ------------------------------
(***************************************************************************)
(* The life of the desktop process (apps/desktop/src/main/main.ts): how it *)
(* boots, which windows it has, and how it quits.  Booting and shutting    *)
(* down are two chains of awaits that nothing keeps apart, and Electron    *)
(* ends the process the second time it is told to quit.                    *)
(*                                                                         *)
(* `mode` is how the process was launched: as the desktop or with          *)
(* --log-viewer.  What matters beyond the process is the database and the  *)
(* tunnel's child, which is a process of its own.                          *)
(***************************************************************************)
EXTENDS Naturals, FiniteSets

CONSTANT MaxLaunches   \* bound: further launches while this one runs

VARIABLES
    mode,       \* "desktop" or "viewer"
    boot,       \* how far bootstrapDesktop or bootstrapLogViewerOnly has come
    mainWin,    \* mainWindow
    viewerWin,  \* logViewerWindow
    tray,
    quitting,   \* quitRequested, shutdownStarted and closeDesktopRuntimeAndQuit
    up,         \* what runs: dashboard, mcp, tunnel, database
    starting,   \* a startTunnel request of a page is at work
    launches,   \* second instances so far
    asked,      \* history: the user, the system or the updater told it to quit
    spoiled     \* history: a close failed, or something came in between

appVars == <<mode, boot, mainWin, viewerWin, tray, quitting, up, starting, launches, asked, spoiled>>

Phases == {"none", "dashboard", "mcp", "tunnel", "rest", "again", "exited"}
Resources == {"dashboard", "mcp", "tunnel", "database"}

AppTypeOK ==
    /\ mode \in {"desktop", "viewer"}
    /\ boot \in {"ready", "dashboard", "mcp", "done", "failed"}
    /\ mainWin \in {"none", "shown", "hidden"} /\ viewerWin \in {"none", "shown"}
    /\ quitting \in [requested : BOOLEAN, phase : Phases]
    /\ up \subseteq Resources
    /\ launches \in 0..MaxLaunches
    /\ tray => mode = "desktop" /\ boot = "done"

AppInit ==
    /\ mode \in {"desktop", "viewer"}
    /\ boot = "ready"
    /\ mainWin = "none" /\ viewerWin = "none" /\ tray = FALSE
    /\ quitting = [requested |-> FALSE, phase |-> "none"]
    /\ up = {} /\ starting = FALSE /\ launches = 0
    /\ asked = FALSE /\ spoiled = FALSE

Running == quitting.phase # "exited"

-----------------------------------------------------------------------------
(* app.quit(): 'before-quit', every window is closed, and if none resisted *)
(* 'will-quit', which holds the process the first time only.               *)
BeforeQuit == IF mode = "desktop" THEN [quitting EXCEPT !.requested = TRUE] ELSE quitting

(* The main window hides instead of closing (shouldHideMainWindowOnClose). *)
HidesOnClose(requested) == mode = "desktop" /\ ~requested

WillQuit(q) == [q EXCEPT !.phase = IF @ = "none" THEN "dashboard" ELSE "exited"]

AppQuit ==
    LET q == BeforeQuit
        resists == mainWin # "none" /\ HidesOnClose(q.requested)
    IN  /\ tray' = (tray /\ mode # "desktop")
        /\ viewerWin' = "none"
        /\ mainWin' = IF resists THEN "hidden" ELSE "none"
        /\ quitting' = IF resists THEN q ELSE WillQuit(q)

(* Once it shuts down, what comes next may come too late or in between.    *)
Overtakes == spoiled' = (spoiled \/ quitting.phase # "none")

(* The tray, the system or the updater.                                    *)
Ask ==
    /\ Running
    /\ AppQuit
    /\ asked' = TRUE
    /\ Overtakes
    /\ UNCHANGED <<mode, boot, up, starting, launches>>

-----------------------------------------------------------------------------
(* Booting, one action per await.  Nothing catches a failure of the        *)
(* runtime or of the dashboard: the process stays, with nothing to show.   *)
BootFails ==
    /\ Running /\ boot \in {"ready", "dashboard"}
    /\ boot' = "failed"
    /\ UNCHANGED <<mode, mainWin, viewerWin, tray, quitting, up, starting, launches, asked, spoiled>>

RuntimeCreated ==
    /\ Running /\ boot = "ready"
    /\ boot' = "dashboard"
    /\ up' = up \union {"database"}
    /\ Overtakes
    /\ UNCHANGED <<mode, mainWin, viewerWin, tray, quitting, starting, launches, asked>>

(* startDashboard, which listens even if the process is shutting down.     *)
DashboardListens ==
    /\ Running /\ boot = "dashboard"
    /\ up' = up \union {"dashboard"}
    /\ IF mode = "desktop"
       THEN boot' = "mcp" /\ UNCHANGED <<mainWin, viewerWin>>
       ELSE boot' = "done" /\ viewerWin' = "shown" /\ mainWin' = "shown"
    /\ Overtakes
    /\ UNCHANGED <<mode, tray, quitting, starting, launches, asked>>

(* autoStartMcp ends or fails, which is caught; then the window and, if an *)
(* icon is found, the tray.                                                *)
AutoStarted ==
    /\ Running /\ boot = "mcp"
    /\ boot' = "done"
    /\ \/ up' = up
       \/ "database" \in up /\ up' = up \union {"mcp"}
    /\ mainWin' = "shown" /\ tray' \in BOOLEAN
    /\ Overtakes
    /\ UNCHANGED <<mode, viewerWin, quitting, starting, launches, asked>>

-----------------------------------------------------------------------------
(* The user closes a window; without any the application quits.            *)
LastWindowGone(main, viewer) == main = "none" /\ viewer = "none"

CloseMain ==
    /\ Running /\ mainWin # "none" /\ mode = "desktop"
    /\ IF HidesOnClose(quitting.requested)
       THEN mainWin' = "hidden" /\ UNCHANGED <<viewerWin, tray, quitting, spoiled>>
       ELSE IF LastWindowGone("none", viewerWin)
            THEN AppQuit /\ Overtakes
            ELSE mainWin' = "none" /\ UNCHANGED <<viewerWin, tray, quitting, spoiled>>
    /\ UNCHANGED <<mode, boot, up, starting, launches, asked>>

(* In the viewer's process the viewer is the main window, too.             *)
CloseViewer ==
    /\ Running /\ viewerWin # "none"
    /\ LET main == IF mode = "viewer" THEN "none" ELSE mainWin
       IN  IF LastWindowGone(main, "none")
           THEN AppQuit /\ Overtakes
           ELSE mainWin' = main /\ viewerWin' = "none" /\ UNCHANGED <<tray, quitting, spoiled>>
    /\ UNCHANGED <<mode, boot, up, starting, launches, asked>>

(* openLogViewerWindow, from a page or for another launch; a second launch *)
(* without --log-viewer shows the window there is.                         *)
OpensViewer == viewerWin' = IF "dashboard" \in up THEN "shown" ELSE viewerWin
RevealViewer ==
    /\ Running /\ mainWin = "shown" /\ "dashboard" \in up
    /\ OpensViewer
    /\ UNCHANGED <<mode, boot, mainWin, tray, quitting, up, starting, launches, asked, spoiled>>

SecondInstance(viewer) ==
    /\ Running /\ launches < MaxLaunches
    /\ launches' = launches + 1
    /\ IF viewerWin = "shown" THEN UNCHANGED <<mainWin, viewerWin>>
       ELSE IF viewer THEN OpensViewer /\ UNCHANGED mainWin
       ELSE mainWin' = (IF mainWin = "hidden" THEN "shown" ELSE mainWin) /\ UNCHANGED viewerWin
    /\ UNCHANGED <<mode, boot, tray, quitting, up, starting, asked, spoiled>>

(* revealMainWindow, from the tray.                                        *)
RevealMain ==
    /\ Running /\ tray
    /\ mainWin' = IF mainWin = "none" /\ "dashboard" \notin up THEN "none" ELSE "shown"
    /\ UNCHANGED <<mode, boot, viewerWin, tray, quitting, up, starting, launches, asked, spoiled>>

-----------------------------------------------------------------------------
(* A page starts the tunnel; the request outlives its page.                *)
TunnelAsked ==
    /\ Running /\ mainWin = "shown" /\ "dashboard" \in up /\ "database" \in up
    /\ starting = FALSE /\ starting' = TRUE
    /\ UNCHANGED <<mode, boot, mainWin, viewerWin, tray, quitting, up, launches, asked, spoiled>>

TunnelAnswered ==
    /\ Running /\ starting
    /\ starting' = FALSE
    /\ \/ up' = up \union {"tunnel"} /\ spoiled' = (spoiled \/ quitting.phase \in {"rest", "again"})
       \/ UNCHANGED <<up, spoiled>>
    /\ UNCHANGED <<mode, boot, mainWin, viewerWin, tray, quitting, launches, asked>>

-----------------------------------------------------------------------------
(* closeDesktopRuntimeAndQuit: the dashboard, then the runtime's close in  *)
(* its order; a step that fails skips those the code lets it skip.         *)
Phase(p) == quitting' = [quitting EXCEPT !.phase = p]
HasRuntime == "database" \in up

StopDashboard ==
    /\ quitting.phase = "dashboard"
    /\ \/ up' = up \ {"dashboard"} /\ Phase(IF HasRuntime THEN "mcp" ELSE "again") /\ UNCHANGED spoiled
       \/ "dashboard" \in up /\ Phase("again") /\ spoiled' = TRUE /\ UNCHANGED up
    /\ UNCHANGED <<mode, boot, mainWin, viewerWin, tray, starting, launches, asked>>

CloseMcp ==
    /\ quitting.phase = "mcp"
    /\ \/ up' = up \ {"mcp"} /\ Phase("tunnel") /\ UNCHANGED spoiled
       \/ Phase("rest") /\ spoiled' = TRUE /\ UNCHANGED up
    /\ UNCHANGED <<mode, boot, mainWin, viewerWin, tray, starting, launches, asked>>

Mut_StopOwned ==
    /\ quitting.phase = "tunnel"
    /\ Phase("rest")
    /\ UNCHANGED <<mode, boot, mainWin, viewerWin, tray, starting, launches, asked, spoiled, up>>
StopOwned ==
    /\ quitting.phase = "tunnel"
    /\ up' = up \ {"tunnel"} /\ Phase("rest")
    /\ UNCHANGED <<mode, boot, mainWin, viewerWin, tray, starting, launches, asked, spoiled>>

CloseRest ==
    /\ quitting.phase = "rest"
    /\ up' = up \ {"database"} /\ Phase("again")
    /\ UNCHANGED <<mode, boot, mainWin, viewerWin, tray, starting, launches, asked, spoiled>>

QuitAgain ==
    /\ quitting.phase = "again"
    /\ AppQuit
    /\ UNCHANGED <<mode, boot, up, starting, launches, asked, spoiled>>

Shutdown == StopDashboard \/ CloseMcp \/ StopOwned \/ CloseRest \/ QuitAgain

AppNext ==
    \/ Ask \/ BootFails \/ RuntimeCreated \/ DashboardListens \/ AutoStarted
    \/ CloseMain \/ CloseViewer \/ RevealViewer \/ RevealMain
    \/ \E viewer \in BOOLEAN : SecondInstance(viewer)
    \/ TunnelAsked \/ TunnelAnswered
    \/ Shutdown

AppFairness == WF_appVars(Shutdown)
AppSpec == AppInit /\ [][AppNext]_appVars

-----------------------------------------------------------------------------
(* README.md:264: closing the main window does not shut the desktop down.  *)
(* A desktop that has booted keeps its window, shown or hidden, until it   *)
(* is told to quit.                                                        *)
KeepsWindow ==
    mode = "desktop" /\ boot = "done" /\ ~asked /\ quitting.phase = "none" => mainWin # "none"

(* A process that exits leaves no tunnel behind and its database closed,   *)
(* unless a close failed, a start of the tunnel was still at work, another *)
(* quit came during the shutdown, or the boot went on during it.           *)
CleanExit ==
    quitting.phase = "exited" /\ ~spoiled /\ ~starting
        => up \intersect {"tunnel", "mcp", "database"} = {}

AppSound == KeepsWindow /\ CleanExit

(* A process that has been told to quit does.                              *)
QuitEnds == asked ~> quitting.phase = "exited"
=============================================================================
