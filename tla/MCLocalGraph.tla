---------------------------- MODULE MCLocalGraph ----------------------------
(***************************************************************************)
(* Three files with a symbol each, and up to three edges between them: a   *)
(* way there may be shorter through calls than through imports, and a      *)
(* circle is closed.  The overlay is built of three files, of which one    *)
(* comes to define itself what it imports, one to lose what is imported,   *)
(* and one to be removed.                                                  *)
(***************************************************************************)
EXTENDS CodeGraph, FiniteSetsExt, TLC

SymbolFiles == "s1" :> "f1" @@ "s2" :> "f2" @@ "s3" :> "f3"

ModuleEdges ==
  {[from |-> e[1], to |-> e[2], kind |-> "IMPORTS"] :
     e \in {<<"f1", "f2">>, <<"f1", "f3">>}}
  \cup {[from |-> e[1], to |-> e[2], kind |-> "CALLS"] :
     e \in {<<"s1", "s2">>, <<"s2", "s3">>, <<"s3", "s1">>}}
  \cup {[from |-> "s1", to |-> "f3", kind |-> "REFERENCES"]}

SmallManifests == UNION {kSubset(k, ModuleEdges) : k \in 0 .. 3}

Holds(defines, members, imports, uses) ==
  [defines |-> defines, members |-> members, imports |-> imports, uses |-> uses]

Binds(file, names)    == [file |-> file, binds |-> names]
Uses(from, name, how) == [from |-> from, name |-> name, kind |-> how]

Importing == Holds({"a"}, {}, {Binds("f2", {"b"})}, {Uses("a", "b", "CALLS")})
Shadowing == Holds({"a", "b"}, {<<"a", "b">>}, {Binds("f2", {"b"})}, {Uses("a", "b", "CALLS")})
Defining  == Holds({"b"}, {}, {Binds("f3", {"c"})}, {Uses("b", "c", "CALLS")})
Emptied   == Holds({}, {}, {Binds("f3", {"c"})}, {})
Circling  == Holds({"c", "d"}, {<<"c", "d">>}, {Binds("f1", {"a"})}, {Uses("d", "a", "REFERENCES")})

FileVersions == "f1" :> {Importing, Shadowing} @@ "f2" :> {Defining, Emptied} @@ "f3" :> {Circling}
EmptyTree    == [f \in {} |-> Emptied]
Checkouts    == {EmptyTree, "f1" :> Importing @@ "f2" :> Defining @@ "f3" :> Circling}
=============================================================================
