------------------------------ MODULE MCGraph ------------------------------
(***************************************************************************)
(* Small instances of module Graph: every history of a few commits, up to  *)
(* the names of the modules, and requests by ID, label and reference.      *)
(***************************************************************************)
EXTENDS Graph

CONSTANTS o1, MaxCommits

Names == <<"a", "b", "c">>
OneOwner == [m \in Modules |-> o1]

\* A module is named when it is first pushed, so "a" is pushed before "b".
InOrder(f) == \A c \in DOMAIN f : \A i \in 2 .. Len(Names) :
    f[c] = Names[i] => \E d \in 1 .. c - 1 : f[d] = Names[i - 1]

AllHistories ==
    { [c \in 1 .. MaxCommits |-> [mod |-> f[c], deps |-> g[c]]] :
        f \in {m \in [1 .. MaxCommits -> Modules] : InOrder(m)},
        g \in {s \in [1 .. MaxCommits -> SUBSET (1 .. MaxCommits)] :
                   \A c \in 1 .. MaxCommits : s[c] \subseteq 1 .. c - 1} }

ById(c) == [kind |-> "id", id |-> c]
ByLabel(m) == [kind |-> "label", mod |-> m, label |-> Main]
ByRef(m, c) == [kind |-> "ref", mod |-> m, id |-> c]

SomeAsks ==
    { <<ById(MaxCommits)>>, <<ById(MaxCommits - 2), ById(MaxCommits)>>,
      <<ByRef("a", 1), ByLabel("b")>> }
=============================================================================
