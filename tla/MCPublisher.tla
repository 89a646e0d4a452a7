----------------------------- MODULE MCPublisher -----------------------------
(* Small instances of Publisher: two publishers of one thread, or one that  *)
(* publishes a batch of two.                                                *)
EXTENDS Publisher

CONSTANTS t1, t2, p1, p2

VARIABLE publishers   \* who runs agent publish in this behaviour

(* A thread that is not in play was published by an earlier command.        *)
MCInit ==
  \E batch \in BOOLEAN :
    LET open == IF batch THEN {t1, t2} ELSE {t1}
    IN  /\ publishers = IF batch THEN {p1} ELSE {p1, p2}
        /\ rows = [c \in Cmds |->
             IF c[1] \in open THEN [st |-> "none", owner |-> 0, attempts |-> 0]
             ELSE [st |-> "succeeded", owner |-> 0, attempts |-> 1]]
        /\ items = [t \in Threads |-> [closed |-> t \notin open, replied |-> t \notin open]]
        /\ gh = [t \in Threads |-> IF t \in open
             THEN [replies |-> 0, latest |-> FALSE, resolved |-> FALSE]
             ELSE [replies |-> 1, latest |-> FALSE, resolved |-> TRUE]]
        /\ lock = [c \in Cmds |-> Nobody]
        /\ pc = [p \in Procs |-> "idle"]
        /\ job = [p \in Procs |-> IdleJob]
        /\ fresh = {} /\ runs = 0 /\ crashes = 0

Step(p) == PublishStep(p) \/ PublishCommand(p) \/ Crash(p)
World == ForeignCommit \/ \E t \in Threads : Comment(t)
MCNext == ((\E p \in publishers : Step(p)) \/ World) /\ UNCHANGED publishers

MCSpec == MCInit /\ [][MCNext]_<<vars, publishers>> /\ Fairness
=============================================================================
