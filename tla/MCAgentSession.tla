--------------------------- MODULE MCAgentSession ---------------------------
(* Instances of AgentSession: two prompts at a time.                        *)
EXTENDS AgentSession, TLC

CONSTANTS c1, c2

One == [prompts |-> 1, steers |-> 0, errors |-> 2, tools |-> 0, bash |-> 0,
        custom |-> 0, thresholds |-> 0, compacts |-> 0, aborts |-> 0]
Two == [One EXCEPT !.prompts = 2]
Scenarios == {[Two EXCEPT !.errors = 1, !.bash = 1, !.tools = 1],
              [Two EXCEPT !.errors = 1, !.custom = 1],
              [Two EXCEPT !.thresholds = 1],
              [Two EXCEPT !.errors = 1, !.tools = 1, !.thresholds = 1],
              [Two EXCEPT !.errors = 1, !.aborts = 1],
              [Two EXCEPT !.errors = 1, !.compacts = 1],
              [One EXCEPT !.errors = 1, !.tools = 1, !.steers = 1, !.thresholds = 1],
              [One EXCEPT !.errors = 1, !.tools = 1, !.bash = 1, !.thresholds = 1],
              [One EXCEPT !.errors = 5, !.steers = 1],
              [One EXCEPT !.errors = 3, !.steers = 1, !.aborts = 1],
              [One EXCEPT !.errors = 1, !.tools = 1, !.bash = 1, !.compacts = 1, !.aborts = 1]}
=============================================================================
