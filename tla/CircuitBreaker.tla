--------------------------- MODULE CircuitBreaker ---------------------------
(***************************************************************************)
(* router/breaker.py: the breaker of one backend as a value and the        *)
(* operators that read and change it.                                      *)
(*                                                                         *)
(* The code keeps a failure count and the time the breaker opened.  Only   *)
(* two things about them are ever tested: whether the count reaches the    *)
(* threshold, and whether the time since opening reaches the cooldown.  So *)
(* failures saturates at Threshold, and since is the time elapsed since    *)
(* opening, saturating at Cooldown, or Closed.                             *)
(***************************************************************************)
EXTENDS Integers

CONSTANTS
    Threshold,   \* failure_threshold
    Cooldown     \* cooldown_seconds, in ticks

ASSUME BreakerAssumption ==
    Threshold \in Nat \ {0} /\ Cooldown \in Nat \ {0}

Closed == -1

Breaker == [failures : 0 .. Threshold, since : {Closed} \cup 0 .. Cooldown]

NewBreaker == [failures |-> 0, since |-> Closed]

State(br) ==
    IF br.since = Closed THEN "closed"
    ELSE IF br.since >= Cooldown THEN "half_open" ELSE "open"

\* Every call passes unless the breaker is open: when half-open, any number do.
Allows(br) == State(br) # "open"

\* Fault: a success closes the breaker but the count stays.
RecordSuccessKeepsCount(br) == [br EXCEPT !.since = Closed]

RecordSuccess(br) == NewBreaker

\* A failure counts, also one of a call sent before the breaker opened; from
\* the threshold on, each failure opens the breaker anew.
RecordFailure(br) ==
    LET n == IF br.failures < Threshold THEN br.failures + 1 ELSE Threshold
    IN  [failures |-> n, since |-> IF n >= Threshold THEN 0 ELSE br.since]

\* One unit of time passes.
Age(br) ==
    IF br.since = Closed \/ br.since = Cooldown THEN br ELSE [br EXCEPT !.since = @ + 1]

=============================================================================
