---------------------- MODULE MCMachineGroupController ----------------------
EXTENDS MachineGroupController

\* Machine ports 1, 2 and 5, links 3 and 4. Port 2 sorts before port 1, and
\* port 5 has the name of port 1: it can only be created once 1 is deleted.
\* Link 3 has the name of port 1, link 4 a name of its own that sorts first.
MCNameOf == [u \in {1, 2, 3, 4, 5} |-> IF u = 4 THEN 1 ELSE IF u = 2 THEN 2 ELSE 3]

MCOneName == [u \in {1} |-> 1]

Base == [start |-> 1, end |-> 2, exposure |-> "on", selectorOK |-> TRUE,
         provider |-> "aws"]
Noop == [Base EXCEPT !.provider = "noop"]

AwsSpecs == {Base, [Base EXCEPT !.start = 2]}

\* Specs that Reconcile refuses, in each of the ways it does.
AwsInvalidSpecs == {Base,
                    [Base EXCEPT !.start = 3],
                    [Base EXCEPT !.exposure = "invalid"],
                    [Base EXCEPT !.selectorOK = FALSE],
                    [Base EXCEPT !.provider = "unsupported"]}

NoopSpecs == {Noop, [Noop EXCEPT !.start = 2, !.exposure = "off"]}

=============================================================================
