---------------------------- MODULE MCAgentLoop ----------------------------
(* Instances of AgentLoop for TLC. *)
EXTENDS AgentLoop

Bounds(user, toolTurns, throws, aborts, clears) ==
    [user |-> user, toolTurns |-> toolTurns, throws |-> throws,
     aborts |-> aborts, clears |-> clears]

\* Three messages on the queues and a tool turn without failures, or two with everything that
\* can go wrong once.
QueuesOrFailures == {Bounds(3, 1, 0, 0, 1), Bounds(2, 1, 1, 1, 1)}
=============================================================================
