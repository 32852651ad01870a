------------------------------ MODULE MCSettings ------------------------------
(* Instances of Settings for TLC.                                          *)
EXTENDS Settings, TLC

TypedIn(interval, timeout, failures) ==
    [Preset |-> "custom", CheckIntervalSeconds |-> interval,
     TimeoutSeconds |-> timeout, FailureThreshold |-> failures,
     RecoveryThreshold |-> 1, StabilizationSeconds |-> 60,
     CooldownSeconds |-> NotANumber]

(* The least thresholds Validate admits, one below each of two bounds (the *)
(* timeout against the interval, the failure threshold), and a timeout     *)
(* against the interval that was there.                                    *)
TypedThresholds ==
    {TypedIn(10, 9, 2), TypedIn(10, 10, 2), TypedIn(10, 9, 1),
     TypedIn(NotANumber, 14, 2)}

Symmetry == Permutations(Request)
===============================================================================
