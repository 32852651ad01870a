--------------------------- MODULE SystemRefinement ---------------------------
(***************************************************************************)
(* System, its updates serialised and without faults, implements Monitor:  *)
(* the documented discipline is enough to make each of the code's          *)
(* multi-step updates look like one step.                                  *)
(*                                                                         *)
(* A step of the worker takes effect, in Monitor's view, when Step has     *)
(* read the state: until its records and its copy are stored, Monitor sees *)
(* them as stored already.  A handler takes effect with its last write:    *)
(* until then Monitor sees the maintenance record as it was.               *)
(***************************************************************************)
EXTENDS System

(* The switch is the only setting that changes.                            *)
MonCfg == [Settings EXCEPT !.MonitoringOn = on]

(* A result is in force when Step has taken it into account.               *)
MonLastOK == IF worker.pc = "checked" THEN worker.was ELSE lastOK

Writing == worker.pc \in {"window", "put", "save"}

MonState == IF Writing THEN worker.st ELSE st

MonIncidents ==
    IF worker.pc \in {"window", "put", "sent"} /\ worker.id # None
    THEN [incidents EXCEPT ![worker.id] = worker.inc]
    ELSE incidents

(* The record as it was before the handler that is under way.              *)
MonMaintenances ==
    [m \in MaintenanceID |->
        IF \E a \in Request : handler[a].pc \in {"enter", "exit", "save"}
                           /\ handler[a].id = m
        THEN handler[CHOOSE a \in Request : handler[a].id = m].rec
        ELSE IF worker.pc = "window" /\ worker.window = m
        THEN Ended(maintenances[m])
        ELSE maintenances[m]]

MonPending ==
    IF worker.pc \in {"window", "put", "save", "deliver"}
    THEN [kind |-> worker.effect,
          id   |-> IF worker.effect \in Phase THEN worker.id ELSE None]
    ELSE [kind |-> "none", id |-> None]

Mon == INSTANCE Monitor
       WITH cfg <- MonCfg,
            Configs <- {[Settings EXCEPT !.MonitoringOn = b] : b \in BOOLEAN},
            MaxRestarts <- 0,
            restarts <- 0,
            st <- MonState,
            incidents <- MonIncidents,
            maintenances <- MonMaintenances,
            lastOK <- MonLastOK,
            pending <- MonPending

(* Every behaviour of the serialised system is one of Monitor.             *)
Refines == Mon!Spec
===============================================================================
