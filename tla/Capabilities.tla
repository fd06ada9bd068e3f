----------------------------- MODULE Capabilities -----------------------------
(***************************************************************************)
(* LocalCapabilityService (packages/capabilities/src) and the backends that*)
(* are one child process or one HTTP request per call: the PowerShell      *)
(* bridge of the native capabilities, the OCR helper, web_fetch, the task  *)
(* scheduler, and health, which asks the others.  The shell and the browser*)
(* are ShellTasks and BrowserSession.                                      *)
(*                                                                         *)
(* A child reports "error" (it could not be spawned, or could not be       *)
(* killed) and "close" as separate events; the timer of the call runs      *)
(* beside them.                                                            *)
(***************************************************************************)
EXTENDS Naturals, Sequences, FiniteSets

CONSTANTS Calls,     \* requests that may be under way at a time
          TaskNames, \* names of scheduled tasks
          MaxBytes,  \* max_bytes of a web request, in units
          MaxBody,   \* bound: the longest body a server sends
          MaxAsked   \* bound: requests in a behaviour

VARIABLES call,      \* what each request waits for
          scheduled, \* the tasks of the Windows scheduler: name, and the command it runs
          answer,    \* history: the last answer each request was given
          asked

vars == <<call, scheduled, answer, asked>>

Native == {"native", "ocr"}   \* bridge process, helper process
Kinds == Native \union {"web", "list", "create", "delete", "run", "health"}
Commands == {"short", "long", "cut"}   \* cut: the first 250 characters of a long one

Idle == [at |-> "idle", kind |-> "none", child |-> "none", timer |-> FALSE, timedOut |-> FALSE,
         body |-> 0, read |-> 0, name |-> "none", command |-> "none", confirmed |-> FALSE]

TypeOK ==
    /\ \A c \in Calls :
          /\ call[c].at \in {"idle", "roots", "child", "fetch", "body", "schtasks", "checking"}
          /\ call[c].child \in {"none", "spawning", "running", "killing", "dead"}
          /\ call[c].read \in 0..MaxBytes /\ call[c].body \in 0..MaxBody
    /\ \A t \in scheduled : t.name \in TaskNames /\ t.command \in Commands
    /\ asked \in 0..MaxAsked

Init ==
    /\ call = [c \in Calls |-> Idle] /\ scheduled = {} /\ asked = 0
    /\ answer = [c \in Calls |-> [is |-> "none"]]

-----------------------------------------------------------------------------
At(c, place) == call[c].at = place
Goes(c, place) == call' = [call EXCEPT ![c].at = place] /\ UNCHANGED answer

(* resolve(): the caller goes on with the answer.                          *)
Answers(c, value) ==
    /\ call' = [call EXCEPT ![c] = Idle]
    /\ answer' = [answer EXCEPT ![c] = value]

Failed == [is |-> "failed"]
TimedOut == [is |-> "timed_out"]
Done == [is |-> "ok"]
Fetched(length, truncated) == [is |-> "fetched", length |-> length, truncated |-> truncated]

(* execute and backendFor, up to the first await of the backend; a request *)
(* its parser refuses, a dry run and another platform than Windows answer  *)
(* at once and are left out.                                               *)
FirstAwait(kind) ==
    CASE kind \in Native -> "roots"
      [] kind = "web" -> "fetch"
      [] kind = "health" -> "checking"
      [] OTHER -> "schtasks"

Execute(c, kind, name, command, confirmed) ==
    /\ At(c, "idle") /\ asked < MaxAsked /\ asked' = asked + 1
    /\ call' = [call EXCEPT ![c] = [Idle EXCEPT !.at = FirstAwait(kind), !.kind = kind, !.name = name,
                                                !.command = command, !.confirmed = confirmed]]
    /\ UNCHANGED <<scheduled, answer>>

(* A native backend refuses paths outside the roots; OCR without package   *)
(* identity answers that it is unavailable, which is no failure.           *)
PathsRefused(c) == call[c].kind = "native" /\ Answers(c, Failed)
OcrUnavailable(c) == call[c].kind = "ocr" /\ Answers(c, Done)

(* The child is spawned and its timer armed.                               *)
Spawn(c) ==
    /\ At(c, "roots")
    /\ \/ call' = [call EXCEPT ![c] = [@ EXCEPT !.at = "child", !.child = "spawning", !.timer = TRUE]]
          /\ UNCHANGED answer
       \/ PathsRefused(c)
       \/ OcrUnavailable(c)
    /\ UNCHANGED <<scheduled, asked>>

ChildStarts(c) ==
    /\ At(c, "child") /\ call[c].child = "spawning"
    /\ call' = [call EXCEPT ![c].child = "running"]
    /\ UNCHANGED <<scheduled, answer, asked>>

(* 'error': settles the promise, and clears the timer.                     *)
ErrorEvent(c) ==
    /\ At(c, "child") /\ call[c].child \in {"spawning", "killing"}
    /\ Answers(c, Failed)
    /\ UNCHANGED <<scheduled, asked>>

ChildExits(c) ==
    /\ At(c, "child") /\ call[c].child \in {"running", "killing"}
    /\ call' = [call EXCEPT ![c].child = "dead"]
    /\ UNCHANGED <<scheduled, answer, asked>>

(* 'close': a call that timed out says so even if the child has answered.  *)
Mut_CloseEvent(c) ==
    /\ At(c, "child") /\ call[c].child = "dead"
    /\ \E value \in {Done, Failed} : Answers(c, value)
    /\ UNCHANGED <<scheduled, asked>>
CloseEvent(c) ==
    /\ At(c, "child") /\ call[c].child = "dead"
    /\ IF call[c].timedOut THEN Answers(c, TimedOut) ELSE \E value \in {Done, Failed} : Answers(c, value)
    /\ UNCHANGED <<scheduled, asked>>

(* The timer kills, and leaves the answer to the close event.              *)
TimerFires(c) ==
    /\ At(c, "child") /\ call[c].timer
    /\ call' = [call EXCEPT ![c] = [call[c] EXCEPT !.timer = FALSE, !.timedOut = TRUE,
                                 !.child = IF call[c].child = "dead" THEN "dead" ELSE "killing"]]
    /\ UNCHANGED <<scheduled, answer, asked>>

-----------------------------------------------------------------------------
(* web_fetch: one signal bounds the request and the reading of its body.   *)
FetchAnswers(c) ==
    /\ At(c, "fetch")
    /\ \/ \E n \in 0..MaxBody : call' = [call EXCEPT ![c] = [@ EXCEPT !.at = "body", !.body = n]]
          /\ UNCHANGED answer
       \/ Answers(c, Failed)
    /\ UNCHANGED <<scheduled, asked>>

(* A chunk of the body, or its end: `remaining` is looked at after the     *)
(* chunk is there, so a body of exactly max_bytes is not truncated.        *)
Mut_ReadChunk(c) ==
    /\ At(c, "body")
    /\ \/ call[c].body = 0 /\ Answers(c, Fetched(call[c].read, call[c].read > MaxBytes))
       \/ \E n \in 1..call[c].body :
             /\ call' = [call EXCEPT ![c] = [call[c] EXCEPT !.body = call[c].body - n, !.read = call[c].read + n]]
             /\ UNCHANGED answer
    /\ UNCHANGED <<scheduled, asked>>
ReadChunk(c) ==
    /\ At(c, "body")
    /\ LET got == call[c].read
           remaining == MaxBytes - got
       IN  \/ call[c].body = 0 /\ Answers(c, Fetched(got, FALSE))
           \/ \E n \in 1..call[c].body :
                 IF n > remaining THEN Answers(c, Fetched(MaxBytes, TRUE))
                 ELSE /\ call' = [call EXCEPT ![c] = [call[c] EXCEPT !.body = call[c].body - n, !.read = got + n]]
                      /\ UNCHANGED answer
    /\ UNCHANGED <<scheduled, asked>>

(* The signal, or the connection, ends the reading.                        *)
FetchFails(c) ==
    /\ At(c, "body")
    /\ Answers(c, Failed)
    /\ UNCHANGED <<scheduled, asked>>

-----------------------------------------------------------------------------
(* buildTaskRun cuts a command line at 250 characters.                     *)
Registered(command) == IF command = "long" THEN "cut" ELSE command

(* schtasks.exe; /F replaces a task of the same name.                      *)
Others(c) == {t \in scheduled : t.name # call[c].name}
Schtasks(c) ==
    /\ At(c, "schtasks")
    /\ \/ call[c].kind = "create"
          /\ scheduled' = Others(c) \union {[name |-> call[c].name, command |-> Registered(call[c].command)]}
          /\ Answers(c, Done)
       \/ call[c].kind = "delete" /\ call[c].confirmed /\ scheduled' = Others(c) /\ Answers(c, Done)
       \/ call[c].kind \in {"list", "run"} /\ Answers(c, Done) /\ UNCHANGED scheduled
       \/ Answers(c, Failed) /\ UNCHANGED scheduled
    /\ UNCHANGED asked

(* check_all awaits one backend after another.                             *)
HealthChecks(c) ==
    /\ At(c, "checking")
    /\ Answers(c, Done)
    /\ UNCHANGED <<scheduled, asked>>

-----------------------------------------------------------------------------
Work(c) == Spawn(c) \/ CloseEvent(c) \/ FetchAnswers(c) \/ ReadChunk(c) \/ Schtasks(c) \/ HealthChecks(c)
Next == \E c \in Calls :
    \/ \E kind \in Kinds, name \in TaskNames, command \in {"short", "long"}, confirmed \in BOOLEAN :
          /\ kind # "create" => command = "short"
          /\ kind \notin {"create", "delete"} => name = CHOOSE n \in TaskNames : TRUE
          /\ kind # "delete" => ~confirmed
          /\ Execute(c, kind, name, command, confirmed)
    \/ Work(c) \/ ChildStarts(c) \/ ErrorEvent(c) \/ ChildExits(c) \/ TimerFires(c) \/ FetchFails(c)

(* Paths resolve, timers fire, and the signal of a fetch bounds it.  No    *)
(* child owes its end, not even one that was killed (taskkill may fail, and*)
(* 'close' waits for whoever holds the pipes); schtasks has no time limit, *)
(* and check_all waits for such children.                                  *)
Fairness == \A c \in Calls :
    WF_vars(Spawn(c) \/ FetchAnswers(c) \/ ReadChunk(c)) /\ WF_vars(TimerFires(c))

Spec == Init /\ [][Next]_vars
FairSpec == Spec /\ Fairness

-----------------------------------------------------------------------------
(* A call whose timer has fired is not answered with what the child it     *)
(* killed had written (windows-bridge 88-102); a fetch never exceeds its   *)
(* limit, and says so exactly when something was left out (web 73-94).     *)
AnswerTrue(c) ==
    (~At(c, "idle") /\ call'[c].at = "idle") =>
        /\ answer'[c].is = "ok" => ~call[c].timedOut
        /\ answer'[c].is = "timed_out" => call[c].timedOut
        /\ answer'[c].is = "fetched" => answer'[c].truncated = (call[c].read + call[c].body > MaxBytes)
                                        /\ (answer'[c].truncated => answer'[c].length = MaxBytes)
CapabilityAnswersTrue == [][\A c \in Calls : AnswerTrue(c)]_vars

(* One name stands for one scheduled task (scheduler 93-100).              *)
OneTaskPerName == \A s, t \in scheduled : s.name = t.name => s = t

(* A call of the bridge, the helper or web_fetch is answered, or its child *)
(* was killed when its time was up (windows-bridge 60-65, ocr 100-103):    *)
(* only a child that outlives that keeps its caller waiting.               *)
CapabilitiesAnswer == \A c \in Calls :
    call[c].at \in {"roots", "child", "fetch", "body"} ~> At(c, "idle") \/ call[c].timedOut
=============================================================================
