--------------------------- MODULE MCHeadlessBatch ---------------------------
EXTENDS HeadlessBatch

MCResultSets == [pair |-> {<<"event", 0, 1>>, <<"cycle", 0, 1>>}]

Request(set, bank, policies, horizons, periods) ==
    [set |-> set, bank |-> bank, policies |-> policies, horizons |-> horizons, periods |-> periods,
     backend |-> "kinematic", clearances |-> <<1>>, trials |-> 1, expect |-> 0]

Loose == Request(NoSet, FALSE, {"once", "event"}, {0, 1}, <<1>>)
Paired == Request("pair", TRUE, {"once"}, {0}, <<1>>)
Frozen == [Request(OneShot, TRUE, {"once"}, {0}, <<1>>) EXCEPT !.clearances = <<1, 2>>]

MCRequests == {Loose, Paired, Frozen,
               Request(NoSet, TRUE, {"once"}, {1}, <<1, 2>>),
               [Request(NoSet, TRUE, {"once"}, {0}, <<1>>) EXCEPT !.trials = 2, !.clearances = <<1, 2>>],
               [Loose EXCEPT !.backend = "grsim"],
               [Loose EXCEPT !.policies = {"once"}, !.horizons = {0}, !.backend = "grsim"],
               [Loose EXCEPT !.horizons = {0, -1}], [Loose EXCEPT !.clearances = <<1, -1>>],
               [Loose EXCEPT !.clearances = <<-1>>], [Loose EXCEPT !.periods = <<0>>],
               [Paired EXCEPT !.expect = 3], [Paired EXCEPT !.policies = {"event"}]}

=============================================================================
