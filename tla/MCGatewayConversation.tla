----------------------- MODULE MCGatewayConversation -----------------------
(* Instances of GatewayConversation for TLC. *)
EXTENDS GatewayConversation

With(kind, msgs, nudges, errors, faults, crashes) ==
    [adapter |-> kind,
     bound |-> [msgs |-> msgs, nudges |-> nudges, errors |-> errors,
                faults |-> faults, crashes |-> crashes]]

\* Messages 1 and 2 ask for turns, 3 is a command.  Each adapter with the things
\* that can disturb it, one to three at a time.
AllAdapters ==
    UNION {{With(a, 2, 0, 1, 0, 0), With(a, 3, 0, 0, 0, 0)} : a \in {"serial", "concurrent", "web"}}
      \cup UNION {{With(a, 2, 1, 0, 0, 0), With(a, 2, 0, 0, 1, 0)} : a \in {"concurrent", "web"}}
      \cup {With("serial", 2, 1, 0, 1, 1), With("concurrent", 2, 0, 0, 0, 1)}
=============================================================================
