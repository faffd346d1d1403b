--------------------------- MODULE MCMachineAgent ---------------------------
EXTENDS MachineAgent

Link(name, cluster, pds) ==
    [namespace |-> <<"ns">>, name |-> <<name>>, cluster |-> cluster, pds |-> pds,
     servers |-> "", port |-> 4000]

A == Link("a", <<>>, <<"pd-a", "">>)
B == Link("b", <<"pool">>, <<"pd-b">>)

First == [links |-> {A}, start |-> 4000, end |-> 4001, api |-> 0, image |-> NoImage,
          base |-> "", version |-> "", path |-> "tiproxy.toml"]

\* A second link, none, a link that takes the cluster name of the first, another
\* API port, another path, another version of the image.
AllGroups ==
    {First,
     [First EXCEPT !.links = {A, B}],
     [First EXCEPT !.links = {}],
     [First EXCEPT !.links = {A, [B EXCEPT !.cluster = <<"ns", "a">>]}],
     [First EXCEPT !.links = {A, B}, !.api = 3081],
     [First EXCEPT !.links = {A, B}, !.path = "other.toml"],
     [First EXCEPT !.links = {}, !.version = "v2"]}

Latest == <<"pingcap/tiproxy", "latest">>

=============================================================================
