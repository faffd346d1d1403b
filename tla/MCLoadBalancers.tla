-------------------------- MODULE MCLoadBalancers --------------------------
EXTENDS LoadBalancers

Item(name, scope) == [name |-> name, scope |-> scope, override |-> Unnamed]
Internal == <<"internal", 1>>
Public == <<"public", 1>>
Capital == <<"Public", 1>>
Edge == <<"edge", 1>>

\* Two of the names differ in the case of a letter.
InLowerCase(name) == IF name = Capital THEN Public ELSE name

Two == Listed(<<Item(Public, "external"), Item(Unnamed, "")>>)
FirstOnes == {Two}

\* The entry gets another name, which is the same to AWS.
Recased == Listed(<<Item(Capital, "external")>>)

\* The default; none; two load balancers, one unnamed; the default's name with
\* the other scheme; a list with a duplicate; one with an unknown scope; an
\* unnamed one with one that has the name made up for it; one of two renamed;
\* one with an override, which wants the target groups of the name overridden.
SomeExposures ==
    {Default,
     Listed(<<>>),
     Two,
     Listed(<<Item(Internal, "external")>>),
     Listed(<<Item(Public, ""), Item(Public, "external")>>),
     Listed(<<Item(Public, "intranet")>>),
     Listed(<<Item(Unnamed, ""), Item(Internal, "")>>),
     Recased,
     Listed(<<[Item(Public, "external") EXCEPT !.override = Edge]>>)}

FewExposures == {Two, Recased}

=============================================================================
