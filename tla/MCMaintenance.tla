---------------------------- MODULE MCMaintenance ----------------------------
(* Maintenance with two tasks: a one-shot update of all servers, and a      *)
(* weekly task that leaves one server to its user.  Both are due at 1.      *)
EXTENDS Maintenance

CONSTANTS once, weekly, i1,
    Due             \* the due times of the one-shot task, unless switched off

MCKind    == [t \in Tasks |-> IF t = once THEN "update" ELSE "manual"]
MCTargets == [t \in Tasks |-> IF t = once THEN Insts ELSE {i1}]
MCFires   == [t \in Tasks |-> IF t = once THEN Due ELSE {1}]
MCLists   == {[tasks |-> Tasks, active |-> Tasks],
              [tasks |-> {weekly}, active |-> {weekly}]}
=============================================================================
