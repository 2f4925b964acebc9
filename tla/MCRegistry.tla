---------------------------- MODULE MCRegistry ----------------------------
(***************************************************************************)
(* Small instances of module Registry.  Module "b" imports a file of "a".  *)
(***************************************************************************)
EXTENDS Registry

CONSTANTS r1, r2, o1, o2, x, y

OneOwner == [m \in Modules |-> o1]

\* y imports the file of x.
YImportsX == [c \in Contents |-> IF c = y THEN {"x.proto"} ELSE {}]

X == {<<"x.proto", x>>}
Y == {<<"y.proto", y>>}
XY == X \cup Y

It(m, files, names, byId) ==
    [mod |-> m, files |-> files, labels |-> names, byId |-> byId]
Upload(items) == [kind |-> "upload", items |-> items]
Create(items) == [kind |-> "create", items |-> items]
Delete(items) == [kind |-> "delete", items |-> items]

\* A workspace push of both modules, and a push of "b" with an own label.
PushCalls ==
    { Upload(<<It("a", X, {}, FALSE), It("b", Y, {}, FALSE)>>),
      Upload(<<It("b", Y, {"main", "v1"}, FALSE)>>),
      Upload(<<It("b", X, {"v1"}, FALSE)>>),
      Create(<<It("a", {}, {}, FALSE), It("b", {}, {}, FALSE)>>) }

\* Two pushes of one module, one of them by ID, and its deletion.
FaultCalls ==
    { Upload(<<It("a", XY, {}, FALSE)>>),
      Upload(<<It("a", X, {"main", "v1"}, TRUE)>>),
      Delete(<<It("a", {}, {}, TRUE)>>) }

\* One version of one module.
SameCalls == { Upload(<<It("a", X, {}, FALSE)>>) }

\* Each module pushed on its own.
SeparateCalls ==
    { Upload(<<It("a", X, {}, FALSE)>>), Upload(<<It("b", Y, {}, FALSE)>>) }

AllStages == Stages \ {"idle"}
=============================================================================
