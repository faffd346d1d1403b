------------------------------ MODULE Exposure ------------------------------
(***************************************************************************)
(* spec.exposure of a machine group and its normalised form: the list of   *)
(* load balancers, each with a name, a scope and perhaps an override of    *)
(* the name that its cloud resource gets (loadBalancerName).               *)
(*                                                                         *)
(* A name is a pair: <<s, 1>> is the string s, and <<s, k>> the string     *)
(* "s-k" that the code makes with Sprintf. Leading and trailing space, and *)
(* the letter case of scopes, are left out.                                *)
(***************************************************************************)
EXTENDS Integers, Sequences, FiniteSets, Functions

Unnamed == <<"", 0>>

Scopes == {"internal", "external"}

\* exposure.loadBalancers is nil, or a list.
Listed(items) == [nil |-> FALSE, items |-> items]
Default == [nil |-> TRUE, items |-> <<>>]

EffectiveScope(item) == IF item.scope = "" THEN "internal" ELSE item.scope

\* usedNames counts an explicit name under itself and a name the loop makes up
\* under its scope, so it does not know the names that it made up.
Key(item) == IF item.name # Unnamed THEN item.name ELSE <<EffectiveScope(item), 1>>

\* usedNames[base] when the loop comes to item i.
UsedNames(items, i) == Cardinality({j \in 1 .. i - 1 : Key(items[j]) = Key(items[i])})

NameOf(items, i) ==
    IF items[i].name # Unnamed THEN items[i].name
    ELSE <<EffectiveScope(items[i]), UsedNames(items, i) + 1>>

\* usedExplicit: no explicit name comes twice.
ExplicitDiffer(items) ==
    \A i, j \in DOMAIN items :
        i # j /\ items[i].name = items[j].name => items[i].name = Unnamed

\* Out of the loop: a load balancer for every item.
NormalizedList(items) ==
    [i \in DOMAIN items |-> [name |-> NameOf(items, i), scope |-> EffectiveScope(items[i]),
                             override |-> items[i].override]]

TheDefault ==
    [ok |-> TRUE,
     list |-> <<[name |-> <<"internal", 1>>, scope |-> "internal", override |-> Unnamed]>>]

\* Mutant: the scope is not checked.
NormalizeAnyScope(exposure) ==
    IF exposure.nil THEN TheDefault
    ELSE [ok |-> ExplicitDiffer(exposure.items), list |-> NormalizedList(exposure.items)]

\* The normalised list, and whether the code returned it without an error.
NormalizeLoadBalancers(exposure) ==
    IF exposure.nil THEN TheDefault
    ELSE [ok |-> /\ ExplicitDiffer(exposure.items)
                 /\ \A i \in DOMAIN exposure.items :
                       EffectiveScope(exposure.items[i]) \in Scopes,
          list |-> NormalizedList(exposure.items)]

=============================================================================
