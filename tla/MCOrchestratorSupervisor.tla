---------------------- MODULE MCOrchestratorSupervisor ----------------------
(* Instances of OrchestratorSupervisor for TLC. *)
EXTENDS OrchestratorSupervisor

With(enabled, requests, exits, failures, beats, machines, crashes, signals, starts) ==
    [radius |-> enabled,
     bound |-> [requests |-> requests, exits |-> exits, failures |-> failures,
                beats |-> beats, machines |-> machines, crashes |-> crashes,
                signals |-> signals, starts |-> starts]]

\* Requests that race with each other, with exits, failures, heartbeats and the
\* machine's registration, with the shutdown, and with the recovery after a crash.
Races ==
    {With(FALSE, 4, 1, 0, 0, 0, 0, 0, 1), With(FALSE, 3, 0, 0, 0, 0, 0, 1, 1),
     With(TRUE, 4, 1, 1, 0, 0, 0, 0, 1), With(TRUE, 3, 0, 1, 2, 0, 0, 0, 1),
     With(TRUE, 3, 1, 0, 0, 1, 0, 0, 1), With(TRUE, 2, 0, 1, 1, 1, 0, 0, 1),
     With(TRUE, 2, 1, 1, 0, 0, 0, 1, 1), With(TRUE, 3, 0, 1, 0, 0, 1, 0, 2)}
=============================================================================
