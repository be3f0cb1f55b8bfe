------------------------------ MODULE MCAccept ------------------------------
(***************************************************************************)
(* Instances of Accept for TLC: packages foo (published at the start) and  *)
(* foo-bar, and pull requests that publish and replace them.  Version      *)
(* bar-1 of foo has the file name of version 1 of foo-bar.                 *)
(***************************************************************************)
EXTENDS Accept, TLC

MCNames == {"foo", "foo-bar"}
MCVersions == {"1", "2", "bar-1"}
MCLabels == {"a", "b"}
MCBlobs == {"foo1", "foo2", "foo2b", "bar1", "bar2"}

MCFileName == [d \in MCNames \X MCVersions |-> d[1] \o "-" \o d[2]]
MCFiles == {MCFileName[d] : d \in MCNames \X MCVersions}
MCStem ==
  ("foo-1" :> "foo") @@ ("foo-2" :> "foo") @@ ("foo-bar-1" :> "foo-bar")
  @@ ("foo-bar-2" :> "foo-bar") @@ ("foo-bar-bar-1" :> "foo-bar-bar")

\* foo2b, a second build of foo, has a file of bar1; bar2 no longer has it.
MCPaths ==
  [foo1 |-> {"bin/foo"}, foo2 |-> {"bin/foo"}, foo2b |-> {"bin/foo", "bin/bar"},
   bar1 |-> {"bin/bar"}, bar2 |-> {"bin/baz"}]

Package(n, v, b) == [name |-> n, version |-> v, sha |-> b]
Sent(n, v, l, b) == <<n, v, l>> :> [man |-> Package(n, v, b), blob |-> b]
Dir(n, v, b) == Sent(n, v, "a", b)
Wrong(n, v, l, b, c) == <<n, v, l>> :> [man |-> Package(n, v, b), blob |-> c]

\* Pull requests.  The author of rebuild gives it a second package, then two
\* manifests for one version of it, one of which has another tarball than it says.
\* The author of two sends version 1 of foo in two manifests, then version bar-1 in
\* its place, then two versions in one pull request.
AllHeads ==
  [new     |-> <<Dir("foo-bar", "1", "bar1")>>,
   update  |-> <<Dir("foo", "2", "foo2")>>,
   rebuild |-> <<Dir("foo", "1", "foo2") @@ Dir("foo-bar", "1", "bar1"),
                 Dir("foo-bar", "2", "bar1") @@ Wrong("foo-bar", "2", "b", "bar1", "bar2")>>,
   two     |-> <<Sent("foo", "1", "a", "foo1") @@ Sent("foo", "1", "b", "foo2"),
                 Dir("foo", "bar-1", "foo2b"),
                 Dir("foo", "1", "foo2b") @@ Dir("foo", "2", "foo2")>>,
   clash   |-> <<Dir("foo", "2", "foo2b")>>,
   smaller |-> <<Dir("foo-bar", "2", "bar2") @@ Dir("foo", "2", "foo2")>>]

MCHeads == [q \in PRs |-> AllHeads[q]]

MCIndex0 == {Package("foo", "1", "foo1")}
Index0Both == MCIndex0 \cup {Package("foo-bar", "1", "bar1")}

\* Every out/ has the tarballs of the release at the start, and their manifests.
RecordsWith(f) == {r \in Index0 : FileOf(r) = f}
MCOut0 ==
  [o \in Outs |-> [f \in Files |->
    IF RecordsWith(f) = {} THEN None ELSE (CHOOSE r \in RecordsWith(f) : TRUE).sha]]
MCMans0 ==
  [o \in Outs |-> [f \in Files |->
    IF RecordsWith(f) = {} THEN None ELSE (CHOOSE r \in RecordsWith(f) : TRUE).name]]

OneOut == [p \in Runs |-> CHOOSE o \in Outs : TRUE]
OwnOut == [p \in Runs |-> p]
=============================================================================
