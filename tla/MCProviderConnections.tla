----------------------- MODULE MCProviderConnections -----------------------
EXTENDS ProviderConnections

AllPlans == {<<"x">>, <<"x", "y">>}

\* One request at a time of the agent, and nothing that goes wrong.
Calm == [strategy |-> "fill-first", plans |-> {<<"x">>}, servers |-> {FALSE}, width |-> 1,
         requests |-> 2, failures |-> 0, aborts |-> 0, toggles |-> 0, clears |-> 0,
         crashes |-> 0, ticks |-> 0]

Accounts ==
    {[Calm EXCEPT !.strategy = "round-robin", !.requests = 5, !.toggles = 1],
     [Calm EXCEPT !.strategy = "round-robin", !.width = 2, !.failures = 1],
     [Calm EXCEPT !.servers = BOOLEAN, !.width = 2, !.failures = 2],
     [Calm EXCEPT !.servers = {TRUE}, !.plans = {<<"x", "y">>}, !.width = 2, !.failures = 1],
     [Calm EXCEPT !.failures = 2, !.clears = 1, !.ticks = 2],
     [Calm EXCEPT !.servers = {TRUE}, !.plans = AllPlans, !.failures = 1, !.toggles = 1],
     [Calm EXCEPT !.requests = 1, !.toggles = 2],
     [Calm EXCEPT !.plans = AllPlans, !.servers = BOOLEAN, !.requests = 1, !.failures = 1,
                  !.aborts = 1, !.crashes = 1, !.ticks = 1]}

OneClear == {[Calm EXCEPT !.failures = 2, !.clears = 1]}
=============================================================================
