--------------------------- MODULE TunnelReconnect --------------------------
(***************************************************************************)
(* The automatic reconnect of TunnelController                             *)
(* (apps/desktop/src/main/tunnel-controller.ts) against the clock: how the *)
(* backoff of scheduleRestart, the counting window of applyUnexpectedExit  *)
(* and the stable timer combine.  One child at a time and one caller; the  *)
(* overlapping calls are the subject of TunnelController.                  *)
(*                                                                         *)
(* Time advances in ticks.  Timers count down; an age counts up and stops  *)
(* growing one past Window, where the code no longer tells it apart.       *)
(***************************************************************************)
EXTENDS Integers

CONSTANTS Delay,         \* RESTART_DELAY_MS, in ticks
          MaxDelay,      \* the cap of the backoff (30_000 ms), in ticks
          Window,        \* RESTART_WINDOW_MS, in ticks
          MaxRestarts,   \* MAX_AUTO_RESTARTS
          LaunchErrors,  \* whether a spawn may fail with an 'error' event
          MayExit     \* whether a running child may exit

ASSUME TimingAssumption ==
    /\ Delay \in Nat \ {0} /\ MaxDelay \in Nat \ {0} /\ Window \in Nat \ {0}
    /\ MaxRestarts \in Nat
    /\ LaunchErrors \in BOOLEAN /\ MayExit \in BOOLEAN

VARIABLES
    state,      \* "stopped", "running" or "error"
    attempts,   \* restartAttempts
    windowAge,  \* now - restartWindowStartedAt, Off when that is 0
    restartIn,  \* the restart timer, Off when not armed
    stableIn,   \* the stable timer, Off when not armed
    childAge,   \* how long the child has been up, Off when there is none
    chain       \* history: automatic restarts since Start or since a child
                \* last stayed up for a whole Window

vars == <<state, attempts, windowAge, restartIn, stableIn, childAge, chain>>

Off == -1
ChainBound == MaxRestarts + 1   \* chain is not counted any further

TypeOK ==
    /\ state \in {"stopped", "running", "error"}
    /\ attempts \in Nat
    /\ windowAge \in {Off} \union 0..(Window + 1)
    /\ restartIn \in {Off} \union 0..MaxDelay
    /\ stableIn \in {Off} \union 0..Window
    /\ childAge \in {Off} \union 0..Window
    /\ chain \in 0..ChainBound

Init ==
    /\ state = "stopped"
    /\ attempts = 0
    /\ windowAge = Off /\ restartIn = Off /\ stableIn = Off /\ childAge = Off
    /\ chain = 0

-----------------------------------------------------------------------------
(* Math.min(RESTART_DELAY_MS * 2 ** Math.max(0, attempts - 1), 30_000).    *)
Mut_BackoffFlat(k) == Delay
Backoff(k) ==
    LET raw == CASE k <= 1 -> Delay
                 [] k = 2  -> 2 * Delay
                 [] k = 3  -> 4 * Delay
                 [] k = 4  -> 8 * Delay
                 [] OTHER  -> 16 * Delay
    IN  IF raw < MaxDelay THEN raw ELSE MaxDelay

(* spawnRun: the child comes up, or its 'error' event puts the controller  *)
(* in error and schedules a restart that nobody counts.                    *)
SpawnRun ==
    \/ /\ state' = "running" /\ childAge' = 0 /\ restartIn' = Off
    \/ /\ LaunchErrors
       /\ state' = "error" /\ childAge' = Off /\ restartIn' = Backoff(attempts')

(* start() when no child is up: it passes its checks and spawns, or stops  *)
(* at one of them: a client, key or profile is missing, or a tunnel outside*)
(* the controller is found running.  The polls of status() are left out:   *)
(* they arm and clear no timer.                                            *)
Start ==
    /\ childAge = Off
    /\ attempts' = 0 /\ windowAge' = Off /\ chain' = 0
    /\ \/ state # "running" /\ SpawnRun /\ stableIn' = Window
       \/ /\ state' \in (IF state = "running" THEN {"running"} ELSE {"running", "error"})
          /\ restartIn' = Off /\ stableIn' = Off /\ UNCHANGED childAge

(* start() when a child is up only resets the counters.                    *)
StartAgain ==
    /\ childAge # Off
    /\ attempts' = 0 /\ windowAge' = Off /\ chain' = 0
    /\ restartIn' = Off /\ stableIn' = Off
    /\ UNCHANGED <<state, childAge>>

(* stop(): the window is left as it is.                                    *)
Stop ==
    /\ state' = "stopped" /\ childAge' = Off
    /\ attempts' = 0 /\ restartIn' = Off /\ stableIn' = Off /\ chain' = 0
    /\ UNCHANGED windowAge

(* An unexpected exit: applyUnexpectedExit.  The window is opened afresh   *)
(* when there is none or when it is over.                                  *)
WindowOver == windowAge = Off \/ windowAge > Window

Mut_UnexpectedExitGivesUp ==
    /\ MayExit /\ childAge # Off
    /\ state' = "error" /\ childAge' = Off
    /\ windowAge' = IF WindowOver THEN 0 ELSE windowAge
    /\ attempts' = (IF WindowOver THEN 0 ELSE attempts) + 1
    /\ restartIn' = IF attempts' > 1 THEN Off ELSE Backoff(attempts')
    /\ UNCHANGED <<stableIn, chain>>
UnexpectedExit ==
    /\ MayExit /\ childAge # Off
    /\ state' = "error" /\ childAge' = Off
    /\ windowAge' = IF WindowOver THEN 0 ELSE windowAge
    /\ attempts' = (IF WindowOver THEN 0 ELSE attempts) + 1
    /\ restartIn' = IF attempts' > MaxRestarts THEN Off ELSE Backoff(attempts')
    /\ UNCHANGED <<stableIn, chain>>

(* The restart timer: the child is spawned again and the stable timer      *)
(* re-armed, also when the spawn will turn out to have failed.             *)
RestartFires ==
    /\ restartIn = 0
    /\ UNCHANGED attempts /\ SpawnRun
    /\ stableIn' = Window
    /\ chain' = IF chain < ChainBound THEN chain + 1 ELSE chain
    /\ UNCHANGED windowAge

(* The stable timer: nothing cancelled it if the child has exited since.   *)
StableFires ==
    /\ stableIn = 0
    /\ stableIn' = Off /\ attempts' = 0 /\ windowAge' = Off
    /\ UNCHANGED <<state, restartIn, childAge, chain>>

Down(t) == IF t = Off THEN Off ELSE t - 1
Up(a, most) == IF a = Off \/ a = most THEN a ELSE a + 1

(* A tick passes when no timer is due.                                     *)
Tick ==
    /\ restartIn # 0 /\ stableIn # 0
    /\ restartIn' = Down(restartIn) /\ stableIn' = Down(stableIn)
    /\ windowAge' = Up(windowAge, Window + 1)
    /\ childAge' = Up(childAge, Window)
    /\ chain' = IF childAge' = Window THEN 0 ELSE chain
    /\ UNCHANGED <<state, attempts>>

-----------------------------------------------------------------------------
Next == Start \/ StartAgain \/ Stop \/ UnexpectedExit \/ RestartFires \/ StableFires \/ Tick

(* Time passes and due timers fire.                                        *)
Spec == Init /\ [][Next]_vars
FairSpec == Spec /\ WF_vars(Tick) /\ WF_vars(RestartFires) /\ WF_vars(StableFires)

-----------------------------------------------------------------------------
(* The controller "bounds automatic reconnect attempts so a bad MCP child  *)
(* cannot create an endless connect/disconnect loop": at most MaxRestarts  *)
(* automatic restarts in a row.                                            *)
ReconnectsBounded == chain <= MaxRestarts

(* What the code does instead.  The fifth exit cannot fall into the window *)
(* of the first, because the delays before it already outlast the window:  *)
(* the count is started afresh and never gets past four, so the branch that*)
(* pauses the reconnect is never taken.                                    *)
PauseNeverReached == attempts <= 4 /\ (state = "error" /\ chain > 0 => restartIn # Off)

(* The delays that precede the fifth exit, 1 + 2 + 4 + 8 times Delay, add  *)
(* up to more than the window; so they do with 3 s and 30 s.               *)
BackoffOutlastsWindow ==
    15 * Delay > Window /\ 8 * Delay <= MaxDelay /\ MaxRestarts >= 4

(* After an unexpected exit the child is always spawned again, which arms  *)
(* the stable timer, unless the user stops or starts the tunnel before (or *)
(* the child had been stable and its timer clears the count first).        *)
ExitLeadsToRestart ==
    (state = "error" /\ attempts > 0) ~> (stableIn = Window \/ (attempts = 0 /\ chain = 0))

(* Once the user has stopped the tunnel, no reconnect is pending.          *)
StopCancelsReconnect == state = "stopped" => restartIn = Off

(* Both: the reconnect goes on until the user ends it, and no longer.      *)
ReconnectUntilStopped == PauseNeverReached /\ StopCancelsReconnect
=============================================================================
