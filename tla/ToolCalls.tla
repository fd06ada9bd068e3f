------------------------------- MODULE ToolCalls -------------------------------
(***************************************************************************)
(* One call of a tool, from the request to the answer: the HTTP server     *)
(* (packages/mcp-server/src/http.ts) or stdio hands it to the MCP server   *)
(* (server.ts), which keeps the client informed with a heartbeat           *)
(* (progress-heartbeat.ts) while the registry (tool-registry.ts) records   *)
(* it (activity-tracker.ts, activity-log-file.ts), asks the policies, and  *)
(* executes the tool.  A tool_batch calls the registry again.              *)
(*                                                                         *)
(* The profile is a setting the user may change at any moment.             *)
(***************************************************************************)
EXTENDS ToolCatalog

CONSTANTS Calls,
          Requests,   \* what clients ask: tool, input, validity, confirmation, child
          Settings,   \* the profiles the user switches between
          Sinks,      \* the activity sinks, in order
          MaxFailures, \* bound: how often a sink fails
          Nothing

VARIABLES
    profile,  \* what profileProvider answers
    call,     \* per call: at, request, parent, code
    inflight, \* the tracker's map
    log,      \* what every sink holds of every call
    beat,     \* the heartbeat's timers, per call
    failed,   \* history: the records a sink could not take
    under     \* history: the profile in force when a call was executed

callVars == <<profile, call, inflight, log, beat, failed, under>>

Idle == [at |-> "idle", request |-> Nothing, parent |-> Nothing, code |-> Nothing]
Stages == {"idle", "recorded", "executing", "ended", "written", "writing", "gone"}

CallsInit ==
    /\ profile \in Settings
    /\ call = [c \in Calls |-> Idle]
    /\ inflight = {}
    /\ log = [c \in Calls |-> [i \in DOMAIN Sinks |-> <<>>]]
    /\ beat = [c \in Calls |-> "off"]
    /\ failed = [c \in Calls |-> {}]
    /\ under = [c \in Calls |-> Nothing]

(* setPermissionProfile.                                                   *)
SwitchProfile ==
    /\ \E p \in Settings \ {profile} : profile' = p
    /\ UNCHANGED <<call, inflight, log, beat, failed, under>>

-----------------------------------------------------------------------------
(* composeActivitySinks: every sink is given the record, whichever fails.  *)
Recorded(held, phase, failing) ==
    [i \in DOMAIN Sinks |-> IF i \in failing THEN held[i] ELSE Append(held[i], phase)]
Failing ==
    IF Cardinality(UNION {failed[c] : c \in Calls}) < MaxFailures
    THEN {{}} \union {{i} : i \in DOMAIN Sinks} ELSE {{}}

Record(c, phase) ==
    \E failing \in Failing :
        /\ log' = [log EXCEPT ![c] = Recorded(@, phase, failing)]
        /\ failed' = [failed EXCEPT ![c] = @ \union {<<i, phase>> : i \in failing}]

(* begin, once the request has come through: listed, then recorded.        *)
Begin(c, r, parent) ==
    /\ call[c].at = "idle"
    /\ call' = [call EXCEPT ![c] = [Idle EXCEPT !.at = "recorded", !.request = r, !.parent = parent]]
    /\ inflight' = inflight \union {c}
    /\ Record(c, "started")

(* handleRequest turns it away before it reaches the MCP server: another   *)
(* path, a body too large, a host or an origin that is not allowed.        *)
Refuse(c) ==
    /\ call[c].at = "idle"
    /\ call' = [call EXCEPT ![c] = [Idle EXCEPT !.at = "writing", !.code = "REFUSED"]]
    /\ UNCHANGED <<profile, inflight, log, beat, failed, under>>

Receive(c, r) ==
    /\ Begin(c, r, Nothing)
    /\ beat' = [beat EXCEPT ![c] = "first"]
    /\ UNCHANGED <<profile, under>>

(* withProgressHeartbeat's timers: one timeout, then an interval.          *)
Heartbeat(c) ==
    /\ beat[c] = "first"
    /\ beat' = [beat EXCEPT ![c] = "interval"]
    /\ UNCHANGED <<profile, call, inflight, log, failed, under>>

-----------------------------------------------------------------------------
(* invoke, from the end of begin to the tool's execution or to the end.    *)
Confirmed(r) == r.confirmed
Mut_Verdict(r, now) ==
    CASE r.name \notin DOMAIN Catalog -> "INVALID_INPUT"
      [] r.name \in DOMAIN Catalog /\ ~r.valid -> "INVALID_INPUT"
      [] OTHER ->
           LET decision == Decide(now, "mcp", Catalog[r.name].level, Catalog[r.name].hint)
           IN  CASE decision = "DENY" -> "PERMISSION_DENIED"
                 [] decision = "ASK" -> "PERMISSION_REQUIRED"
                 [] OTHER -> "ALLOWED"
Verdict(r, now) ==
    CASE r.name \notin DOMAIN Catalog -> "INVALID_INPUT"
      [] r.name \in DOMAIN Catalog /\ ~r.valid -> "INVALID_INPUT"
      [] r.name \in DOMAIN Catalog /\ r.valid /\ Destructive(r.name, r.input) /\ ~Confirmed(r) ->
           "PERMISSION_REQUIRED"
      [] OTHER ->
           LET decision == Decide(now, "mcp", Catalog[r.name].level, Catalog[r.name].hint)
           IN  CASE decision = "DENY" -> "PERMISSION_DENIED"
                 [] decision = "ASK" -> "PERMISSION_REQUIRED"
                 [] OTHER -> "ALLOWED"

(* end: no longer listed, then recorded.                                   *)
End(c, code) ==
    /\ call' = [call EXCEPT ![c].at = "ended", ![c].code = code]
    /\ inflight' = inflight \ {c}
    /\ Record(c, "completed")

Examine(c) ==
    /\ call[c].at = "recorded"
    /\ LET verdict == Verdict(call[c].request, profile)
       IN  IF verdict = "ALLOWED"
           THEN /\ call' = [call EXCEPT ![c].at = "executing"]
                /\ under' = [under EXCEPT ![c] = profile]
                /\ UNCHANGED <<inflight, log, failed>>
           ELSE End(c, verdict) /\ UNCHANGED under
    /\ UNCHANGED <<profile, beat>>

(* The tool ends: with a result, with an error, or by throwing.  Starting  *)
(* a program asks the profile of now, and the command policy, once more.   *)
Codes(r) ==
    LET asked == {Decide(profile, "process_start", "EXECUTE", FALSE),
                  CommandDecision(profile, r.input.program, "client", TRUE)}
    IN  CASE r.name # "process_start" -> {"SUCCESS", "ERROR", "INTERNAL_ERROR"}
          [] r.name = "process_start" /\ "DENY" \in asked -> {"PERMISSION_DENIED"}
          [] r.name = "process_start" /\ "DENY" \notin asked /\ "ASK" \in asked -> {"PERMISSION_REQUIRED"}
          [] OTHER -> {"SUCCESS", "ERROR"}
Executed(c) ==
    /\ call[c].at = "executing" /\ call[c].request.name # "tool_batch"
    /\ \E code \in Codes(call[c].request) : End(c, code)
    /\ UNCHANGED <<profile, beat, under>>

(* tool_batch: its calls go through the same registry; a nested batch is   *)
(* turned down.  The batch answers when its call has answered, or without  *)
(* waiting for it when that timed out or was never started.                *)
StartsChild(c, d) ==
    /\ call[c].at = "executing" /\ call[c].request.name = "tool_batch"
    /\ \A e \in Calls : call[e].parent # c
    /\ \E r \in call[c].request.children :
          r.name # "tool_batch" /\ Begin(d, r, c)
    /\ UNCHANGED <<profile, beat, under>>

BatchEnds(c) ==
    /\ call[c].at = "executing" /\ call[c].request.name = "tool_batch"
    /\ \E code \in {"SUCCESS", "INVALID_INPUT"} : End(c, code)
    /\ UNCHANGED <<profile, beat, under>>

-----------------------------------------------------------------------------
(* The answer: the finally of the heartbeat, then the writing, which waits *)
(* for a slow client.                                                      *)
Quiet(c) == [beat EXCEPT ![c] = "off"]
Answer(c) ==
    /\ call[c].at = "ended"
    /\ call' = [call EXCEPT ![c].at = IF call[c].parent = Nothing THEN "writing" ELSE "written",
                            ![c].request = Nothing, ![c].code = Nothing]
    /\ beat' = Quiet(c)
    /\ under' = [under EXCEPT ![c] = Nothing]
    /\ UNCHANGED <<profile, inflight, log, failed>>

WriteAnswer(c) ==
    /\ call[c].at = "writing"
    /\ call' = [call EXCEPT ![c].at = "written"]
    /\ UNCHANGED <<profile, inflight, log, beat, failed, under>>

(* The client goes away while the answer waits for it: nothing wakes the   *)
(* writing, which listens for 'drain' only.                                *)
ClientLeaves(c) ==
    /\ call[c].at = "writing"
    /\ call' = [call EXCEPT ![c].at = "gone"]
    /\ UNCHANGED <<profile, inflight, log, beat, failed, under>>

Step(c) == Examine(c) \/ Executed(c) \/ BatchEnds(c) \/ Answer(c) \/ WriteAnswer(c)
CallsNext ==
    \/ SwitchProfile
    \/ \E c \in Calls :
        \/ Refuse(c) \/ Heartbeat(c) \/ Step(c) \/ ClientLeaves(c)
        \/ \E r \in Requests : Receive(c, r)
        \/ \E d \in Calls : StartsChild(c, d)

(* The registry and a batch, whose calls have timeouts (BatchExecutor), go *)
(* on; a tool and a client that is slow to read may take for ever.         *)
CallsFairness == \A c \in Calls : WF_callVars(Examine(c) \/ BatchEnds(c) \/ Answer(c))
CallsSpec == CallsInit /\ [][CallsNext]_callVars /\ CallsFairness

-----------------------------------------------------------------------------
CallsTypeOK ==
    /\ profile \in Settings /\ Settings \subseteq DOMAIN Profiles
    /\ \A c \in Calls :
        /\ call[c].at \in Stages /\ call[c].parent \in Calls \union {Nothing}
        /\ beat[c] \in {"off", "first", "interval"}
        /\ under[c] \in Settings \union {Nothing}

(* README.md:91, :98-102 and :1099: an operation the policy takes for      *)
(* destructive runs only if its own input confirms it, and so does every   *)
(* command that deletes or discards but for the forms that are overlooked; *)
(* any operation runs only under a profile that allows its level at the    *)
(* moment it starts, in a batch that was allowed earlier as well.          *)
Sanctioned ==
    \A c \in Calls : under[c] # Nothing =>
        LET r == call[c].request
        IN  /\ r.valid /\ Profiles[under[c]][Catalog[r.name].level] = "ALLOW"
            /\ Destructive(r.name, r.input) \/ Claimed(r.name, r.input) => r.confirmed

(* activity-tracker.test.ts, activity-log-file.test.ts: a call is listed   *)
(* from its begin to its end, and every sink is told of both, once and in  *)
(* this order, unless that sink itself failed.                             *)
Due(c) ==
    CASE call[c].at = "idle" \/ call[c].code = "REFUSED" -> {}
      [] call[c].at \in {"recorded", "executing"} -> {"started"}
      [] OTHER -> {"started", "completed"}
Heard(c, i, phase) ==
    IF phase \in Due(c) /\ <<i, phase>> \notin failed[c] THEN <<phase>> ELSE <<>>
Accounted ==
    \A c \in Calls :
        /\ c \in inflight <=> call[c].at \in {"recorded", "executing"}
        /\ \A i \in DOMAIN Sinks :
            log[c][i] = Heard(c, i, "started") \o Heard(c, i, "completed")

(* progress-heartbeat.test.ts:49: no timer is left once a call is answered. *)
Quieted == \A c \in Calls : call[c].at \in {"idle", "writing", "written", "gone"} => beat[c] = "off"

(* What a call was allowed, what the logs say of it and which timers it    *)
(* left, and the tables all this rests on (they do not change, and are     *)
(* looked at where nothing is under way).                                  *)
CallsSound == Sanctioned /\ Accounted /\ Quieted /\ (inflight = {} => CatalogSound)

(* Every call comes to its tool or to its answer, and from the end of its  *)
(* tool to its answer.                                                     *)
InItsTool(c) == call[c].at = "executing" /\ call[c].request.name # "tool_batch"
CallsAnswered ==
    \A c \in Calls : call[c].at # "idle" ~> InItsTool(c) \/ call[c].at \in {"writing", "written", "gone"}
=============================================================================
