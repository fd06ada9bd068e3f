--------------------------- MODULE MCBatchExecutor --------------------------
(* Plans for TLC: three calls in four layouts, each call with at most one  *)
(* dependency (on any call, itself included, or on an unknown id).         *)
EXTENDS BatchExecutor

Layout(s1, s2, s3, par) ==
    [set |-> <<s1, s2, s3>>, parallel |-> [s \in Sets |-> par]]

Layouts == {Layout(0, 0, 0, TRUE), Layout(0, 0, 0, FALSE),
            Layout(0, 1, 1, TRUE), Layout(1, 1, 2, TRUE)}

OneDep == {{}} \union {{d} : d \in PlanCalls \union {UnknownId}}

MCPlans ==
    {[set |-> l.set, parallel |-> l.parallel, deps |-> ds, unsafe |-> u, timed |-> t] :
        l \in Layouts, ds \in [PlanCalls -> OneDep], u \in {{}, {1, 2}, {2, 3}}, t \in {{}, PlanCalls}}

(* Three calls of which two have side effects and a timeout.               *)
TwoWrites ==
    {[set |-> l.set, parallel |-> l.parallel, deps |-> [c \in PlanCalls |-> {}],
      unsafe |-> {1, 2}, timed |-> {1, 2}] : l \in Layouts}
=============================================================================
