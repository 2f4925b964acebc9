----------------------------- MODULE MCReaders -----------------------------
(***************************************************************************)
(* A small instance of module Readers: one client pushes versions of one   *)
(* module while another reads.                                             *)
(***************************************************************************)
EXTENDS Readers

CONSTANTS r1, o1, a, b, x, y

OneOwner == [m \in Modules |-> o1]
NoImports == [c \in Contents |-> {}]

X == {<<"x.proto", x>>}
Y == {<<"y.proto", y>>}
It(m, files, names) == [mod |-> m, files |-> files, labels |-> names, byId |-> FALSE]
Upload(items) == [kind |-> "upload", items |-> items]

Versions ==
    { Upload(<<It(a, X, {})>>), Upload(<<It(b, Y, {})>>),
      Upload(<<It(a, X \cup Y, {})>>) }

Q(op, by, paths) ==
    [op |-> op, by |-> by, mod |-> a, label |-> Main, paths |-> paths]

SomeQueries ==
    { Q("files", "id", {}), Q("files", "name", {"x.proto"}), Q("files", "ref", {}),
      Q("commit", "id", {}), Q("commit", "name", {}), Q("pages", "name", {}),
      Q("module", "name", {}), Q("modules", "name", {}), Q("modules", "id", {}),
      Q("owner", "name", {}), Q("owner", "id", {}) }

Stored == Stages \ {"idle", "dedup"}
=============================================================================
