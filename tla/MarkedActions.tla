----------------------------- MODULE MarkedActions -----------------------------
(***************************************************************************)
(* SetOfMarksService (packages/mcp-server/src/set-of-marks-service.ts):    *)
(* capture() numbers the controls that Accessibility lists, and act() sends*)
(* an action to the control that bears the name, or else the automation id, *)
(* of a number, as long as the observation lives.  Every step of either is *)
(* a call of its own to the capabilities (windows-capability-bridge.ps1),  *)
(* and the screen may change between any two.                              *)
(***************************************************************************)
EXTENDS Naturals, Sequences, FiniteSets, Selections

CONSTANTS Calls,       \* requests that may be under way at a time
          Workspaces,
          Screens,     \* what the screen may show: the window and the controls in it, in tree order
          MaxMarks,    \* max_marks
          Ttl,         \* ttl_seconds, in ticks
          MaxTime,     \* bound: ticks in a behaviour
          MaxObserved, \* bound: observations in a behaviour
          MaxActs      \* bound: acts in a behaviour

VARIABLES screen,       \* what the screen shows now
          observations, \* the map of stored observations, as records
          call,         \* what each request waits for
          time,
          used,         \* how many observation ids were given out
          acts,
          sent          \* history: the last action that was sent

vars == <<screen, observations, call, time, used, acts, sent>>

Nowhere == "no control"
Idle == [at |-> "idle"]
Neither == [is |-> FALSE]

(* The window and a control have a name and an automation id, which others *)
(* may bear as well and each of which may be "", and are enabled (and      *)
(* visible) or not.                                                        *)
Shown(s) == {s[i] : i \in DOMAIN s}

TypeOK ==
    /\ screen \in Screens
    /\ \A o \in observations : o.id \in 1..used /\ o.workspace \in Workspaces /\ Len(o.marks) <= MaxMarks
    /\ \A c \in Calls : call[c].at \in {"idle", "observing", "capturing", "annotating", "finding", "acting"}
    /\ time \in 0..MaxTime /\ used \in 0..MaxObserved

Init ==
    /\ screen \in Screens /\ observations = {} /\ time = 0 /\ used = 0 /\ acts = 0 /\ sent = Neither
    /\ call = [c \in Calls |-> Idle]

-----------------------------------------------------------------------------
Ends(c) == call' = [call EXCEPT ![c] = Idle]
Live(o) == time < o.expires

(* extractMarks: what can be acted on, the window itself too, up to the    *)
(* limit.                                                                  *)
ExtractMarks(list) ==
    LET usable == Selected(list, {e \in Shown(list) : e.enabled})
    IN  SubSeq(usable, 1, IF Len(usable) < MaxMarks THEN Len(usable) ELSE MaxMarks)

(* capture() up to its first await.                                        *)
Capture(c, workspace) ==
    /\ call[c] = Idle /\ used < MaxObserved
    /\ observations' = {o \in observations : Live(o)}
    /\ call' = [call EXCEPT ![c] = [at |-> "observing", workspace |-> workspace]]
    /\ UNCHANGED <<screen, time, used, acts, sent>>

Observed(c) ==
    /\ call[c].at = "observing"
    /\ call' = [call EXCEPT ![c] = [at |-> "capturing", workspace |-> @.workspace, marks |-> ExtractMarks(screen)]]
    /\ UNCHANGED <<screen, observations, time, used, acts, sent>>

(* The picture is taken, and then numbered; without numbers it will do too.*)
PictureTaken(c) ==
    /\ call[c].at = "capturing"
    /\ call' = [call EXCEPT ![c].at = "annotating"]
    /\ UNCHANGED <<screen, observations, time, used, acts, sent>>

Annotated(c) ==
    /\ call[c].at = "annotating" /\ used < MaxObserved
    /\ used' = used + 1
    /\ observations' = observations \union
          {[id |-> used + 1, workspace |-> call[c].workspace, marks |-> call[c].marks, expires |-> time + Ttl]}
    /\ Ends(c)
    /\ UNCHANGED <<screen, time, acts, sent>>

(* What a mark is looked for by: its name and its automation id.           *)
Target(m) == [name |-> m.name, id |-> m.id]

(* act() up to its first await: the request names an observation, a mark   *)
(* and an action.  What is refused or a dry run ends here; an expired      *)
(* observation is forgotten.                                               *)
Act(c, workspace, o, mark, mutating, confirmed) ==
    /\ call[c] = Idle /\ acts < MaxActs /\ acts' = acts + 1
    /\ IF Live(o) /\ o.workspace = workspace /\ mark \in DOMAIN o.marks /\ (mutating => confirmed)
       THEN call' = [call EXCEPT ![c] = [at |-> "finding", mark |-> mark, target |-> Target(o.marks[mark]),
                                         since |-> time, by |-> workspace, from |-> o, mutating |-> mutating, confirmed |-> confirmed]]
       ELSE UNCHANGED call
    /\ observations' = IF Live(o) THEN observations ELSE observations \ {o}
    /\ UNCHANGED <<screen, time, used, sent>>

(* Find-UiElement looks inside the window, not at the window itself: for   *)
(* the name, and where nothing bears it, for the automation id.            *)
Inside == DOMAIN screen \ {1}
Named(name) == {i \in Inside : name # "" /\ screen[i].name = name}
Identified(id) == {i \in Inside : id # "" /\ screen[i].id = id}
Find(target) == IF Named(target.name) # {} THEN Named(target.name) ELSE Identified(target.id)

(* find_element, and then the action: each finds the control anew.         *)
Found(c) ==
    /\ call[c].at = "finding"
    /\ IF Find(call[c].target) = {} THEN Ends(c) ELSE call' = [call EXCEPT ![c].at = "acting"]
    /\ UNCHANGED <<screen, observations, time, used, acts, sent>>

Acted(c) ==
    /\ call[c].at = "acting"
    /\ LET found == Find(call[c].target)
       IN  sent' = IF found = {} THEN sent
                   ELSE [is |-> TRUE, on |-> screen[CHOOSE i \in found : \A j \in found : i <= j], call |-> call[c]]
    /\ Ends(c)
    /\ UNCHANGED <<screen, observations, time, used, acts>>

(* Any call to the capabilities may fail and ends the request.             *)
CapabilityFails(c) ==
    /\ call[c].at \in {"observing", "capturing", "finding", "acting"}
    /\ Ends(c)
    /\ UNCHANGED <<screen, observations, time, used, acts, sent>>

ScreenChanges ==
    /\ screen' \in Screens
    /\ UNCHANGED <<observations, call, time, used, acts, sent>>

Tick ==
    /\ time < MaxTime /\ time' = time + 1
    /\ UNCHANGED <<screen, observations, call, used, acts, sent>>

-----------------------------------------------------------------------------
Work(c) == Observed(c) \/ PictureTaken(c) \/ Annotated(c) \/ Found(c) \/ Acted(c)
Next ==
    \/ \E c \in Calls :
          \/ \E w \in Workspaces :
                \/ Capture(c, w)
                \/ \E o \in observations, mark \in 1..MaxMarks, mutating, confirmed \in BOOLEAN :
                      Act(c, w, o, mark, mutating, confirmed)
          \/ Work(c) \/ CapabilityFails(c)
    \/ ScreenChanges \/ Tick

Spec == Init /\ [][Next]_vars

-----------------------------------------------------------------------------
(* Whatever changes on the screen and whatever is captured in the meantime,*)
(* an action lands on a control that bears the name of the mark asked for  *)
(* or, as the bridge falls back on it, its automation id: not always on one*)
(* of that name.  The mark could be acted on when it was captured, it was  *)
(* asked for by the workspace of the capture while the observation lived,  *)
(* and confirmed if it changes anything (lines 114-137).                   *)
ActionsSound == sent.is =>
    LET a == sent.call
        m == a.from.marks[a.mark]
    IN  /\ m.enabled
        /\ \/ m.name # "" /\ sent.on.name = m.name
           \/ m.id # "" /\ sent.on.id = m.id
        /\ a.from.workspace = a.by /\ a.since < a.from.expires
        /\ a.mutating => a.confirmed
=============================================================================
