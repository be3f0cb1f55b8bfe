------------------------------- MODULE Recipe -------------------------------
(***************************************************************************)
(* tools/recipe.py: building a package from its recipe.  Each run of the    *)
(* script fetches a source, builds it, copies the result to the staging     *)
(* root and packs it into out/.  Downloads, staging root and out/ outlive   *)
(* the run, which may fail or be killed at any step, and are shared with    *)
(* runs for other recipes on the same machine.                              *)
(*                                                                         *)
(* The content of a source is the address it genuinely comes from, or bad.  *)
(* A build is a number, and the size and sha256 of a tarball are that       *)
(* number: no two builds are equal (the archive holds times).               *)
(***************************************************************************)
EXTENDS Integers, FiniteSets

CONSTANTS
  Runs,        \* the runs of the script there may be at a time
  Names,       \* the recipes
  Urls,        \* the addresses of sources
  Source,      \* what each recipe says, at each version, of its source
  Basename,    \* the last part of each address
  MaxBuilds    \* bound: builds that succeed

\* <name>-<version>, as a pair: the tarball and manifest in out/.  No two pairs
\* give one name (no recipe's name is another's with the start of a version).
Files == DOMAIN Source

\* Its address, whether it is cloned from git (it has a revision, and is no
\* archive), and whether the recipe gives its sha256.
SourceFields == [url : Urls, git : BOOLEAN, sha256 : BOOLEAN]

ASSUME RecipeAssumption ==
  /\ Source \in [Files -> SourceFields]
  /\ Files \subseteq Names \X Nat /\ \A name \in Names : <<name, 1>> \in Files
  /\ DOMAIN Basename = Urls
  /\ MaxBuilds \in Nat

\* The file in dl/, which other recipes and versions may have too.
Local(f) == Basename[Source[f].url]
Downloads == {Basename[u] : u \in Urls}

\* What a file in dl/ may hold.
Contents == Urls \union {"bad", "none"}

Absent == 0    \* no such file
Torn == -1     \* a file whose writing was begun and not ended

VARIABLES
  version,    \* the version each recipe has in the checkout
  dl,         \* the content of each download
  part,       \* and of its .part, while curl writes it or after that died
  stage,      \* the build of each package in the staging root
  tarball,    \* out/: the build each tarball holds
  manifest,   \* out/: the build whose size and sha256 each manifest gives
  builds,     \* how many builds there were
  origin,     \* history: what each build was of, see OriginOf
  run         \* the state of each run

out == <<tarball, manifest>>
fetched == <<dl, part>>
kept == <<version, fetched, stage, out>>
vars == <<version, dl, part, stage, tarball, manifest, builds, origin, run>>

\* A run: `on` is where the file is that its curl writes, `met` is history, TRUE
\* if another run fetched a source of the same file name meanwhile.
Ended == [pc |-> "ended", file |-> <<>>, on |-> "none", met |-> FALSE, src |-> "none",
          build |-> 0, todo |-> {}, old |-> <<>>]

\* Run r goes on to pc, with its other fields as they are.
At(r, pc) == run[r].pc = pc
Goto(r, pc) == run' = [run EXCEPT ![r].pc = pc]
File(r) == run[r].file
Name(r) == run[r].file[1]
Fn(r) == Local(File(r))
Url(r) == Source[File(r)].url

-----------------------------------------------------------------------------
\* Runs that fetch, and those of them that do so to the same file name.
Fetching(r) ==
  run[r].pc \in {"fetch", "download", "curl", "rename", "check", "extract"}

Sharing(r, f) ==
  /\ Fetching(r) /\ ~Source[File(r)].git /\ ~Source[f].git
  /\ Fn(r) = Local(f)

\* main, up to fetch: the recipe is parsed, and the work directory is emptied.
\* Two runs for one recipe would share that directory: there is one at a time.
Start(r, name) ==
  /\ At(r, "ended")
  /\ name \notin {Name(other) : other \in {x \in Runs : ~At(x, "ended")}}
  /\ LET f == <<name, version[name]>>
         others == {s \in Runs : Sharing(s, f)}
     IN run' = [s \in Runs |->
          IF s = r THEN [Ended EXCEPT !.pc = "fetch", !.file = f, !.met = others # {}]
          ELSE IF s \in others THEN [run[s] EXCEPT !.met = TRUE]
          ELSE run[s]]
  /\ UNCHANGED <<kept, builds, origin>>

\* sys.exit, an exception, or the death of the run and of the command it waits
\* for, wherever it is.
Fail(r) ==
  /\ ~At(r, "ended")
  /\ run' = [run EXCEPT ![r] = Ended]
  /\ UNCHANGED <<kept, builds, origin>>

\* fetch: a branch or tag is cloned, and what it names may have changed.
Clone(r) ==
  /\ At(r, "fetch") /\ Source[File(r)].git
  /\ \E src \in {Url(r), "bad"} :
       run' = [run EXCEPT ![r].pc = "build", ![r].src = src]
  /\ UNCHANGED <<kept, builds, origin>>

\* fetch: an archive is downloaded, unless there is a file of its name.
Look(r) ==
  /\ At(r, "fetch") /\ ~Source[File(r)].git
  /\ Goto(r, IF dl[Fn(r)] = "none" THEN "download" ELSE "check")
  /\ UNCHANGED <<kept, builds, origin>>

\* curl empties the .part, one that is there too, ...
CurlBegins(r) ==
  /\ At(r, "download")
  /\ part' = [part EXCEPT ![Fn(r)] = "bad"]
  /\ run' = [run EXCEPT ![r].pc = "curl", ![r].on = "part"]
  /\ UNCHANGED <<version, dl, stage, out, builds, origin>>

\* ... and writes it, wherever another run may have moved it, until it ends.
Curl(r) ==
  /\ At(r, "curl")
  /\ \E src \in {Url(r), "bad"} :
       /\ dl' = IF run[r].on = "dl" THEN [dl EXCEPT ![Fn(r)] = src] ELSE dl
       /\ part' = IF run[r].on = "part" THEN [part EXCEPT ![Fn(r)] = src] ELSE part
  /\ \/ UNCHANGED run
     \/ run' = [run EXCEPT ![r].pc = "rename", ![r].on = "none"]
  /\ UNCHANGED <<version, stage, out, builds, origin>>

\* Where a file that is written is when the .part takes its new name.
Renamed(on) == IF on = "part" THEN "dl" ELSE IF on = "dl" THEN "gone" ELSE on

\* The .part takes its name; it must be there still.
Rename(r) ==
  /\ At(r, "rename") /\ part[Fn(r)] # "none"
  /\ dl' = [dl EXCEPT ![Fn(r)] = part[Fn(r)]]
  /\ part' = [part EXCEPT ![Fn(r)] = "none"]
  /\ run' = [s \in Runs |->
       IF s = r THEN [run[r] EXCEPT !.pc = "check"]
       ELSE IF Sharing(s, File(r)) THEN [run[s] EXCEPT !.on = Renamed(@)]
       ELSE run[s]]
  /\ UNCHANGED <<version, stage, out, builds, origin>>

\* Mutant: a file that was there before is used as it is.
AcceptedCached(f, src) == TRUE

\* The condition under which an archive is used.
Accepted(f, src) == Source[f].sha256 => src = Source[f].url

\* fetch: the file is read for its sha256, where the recipe has one, ...
Check(r) ==
  /\ At(r, "check")
  /\ Accepted(File(r), dl[Fn(r)])
  /\ Goto(r, "extract")
  /\ UNCHANGED <<kept, builds, origin>>

\* ... and again to be unpacked.
Extract(r) ==
  /\ At(r, "extract")
  /\ run' = [run EXCEPT ![r].pc = "build", ![r].src = dl[Fn(r)]]
  /\ UNCHANGED <<kept, builds, origin>>

\* What history keeps of a run's build: its file, and whether its source was the
\* genuine one, or the run met another.
OriginOf(r) == [file |-> File(r), genuine |-> run[r].src = Url(r) \/ run[r].met]

\* Patches, and the commands of the recipe.
Build(r) ==
  /\ At(r, "build")
  /\ builds < MaxBuilds
  /\ builds' = builds + 1
  /\ origin' = [origin EXCEPT ![builds + 1] = OriginOf(r)]
  /\ run' = [run EXCEPT ![r].pc = "stage", ![r].build = builds + 1,
                        ![r].src = "none", ![r].met = FALSE]
  /\ UNCHANGED kept

\* cp -a to the staging root, over what is there.
StageBegins(r) ==
  /\ At(r, "stage")
  /\ stage' = [stage EXCEPT ![File(r)] = Torn]
  /\ Goto(r, "copy")
  /\ UNCHANGED <<version, fetched, out, builds, origin>>

StageEnds(r) ==
  /\ At(r, "copy")
  /\ stage' = [stage EXCEPT ![File(r)] = run[r].build]
  /\ Goto(r, "list")
  /\ UNCHANGED <<version, fetched, out, builds, origin>>

\* --no-pack: the run ends here.
NoPack(r) ==
  /\ At(r, "list")
  /\ run' = [run EXCEPT ![r] = Ended]
  /\ UNCHANGED <<kept, builds, origin>>

-----------------------------------------------------------------------------
\* pack.

\* os.listdir: the manifests there are.
ListOut(r) ==
  /\ At(r, "list")
  /\ run' = [run EXCEPT ![r].pc = "older",
                        ![r].todo = {f \in Files : manifest[f] # Absent}]
  /\ UNCHANGED <<kept, builds, origin>>

\* Mutant: manifests of the same name are left where they are.
OlderNone(r, f) == FALSE

\* A manifest of the same name, with its name line, that is not of this file.
Older(r, f) == f[1] = Name(r) /\ f # File(r) /\ manifest[f] # Torn

\* One manifest of the list: it must still be there to be read, and goes if it
\* is an older one.
ReadManifest(r) ==
  /\ At(r, "older") /\ run[r].old = <<>>
  /\ \E f \in run[r].todo :
       /\ manifest[f] # Absent
       /\ manifest' = IF Older(r, f) THEN [manifest EXCEPT ![f] = Absent] ELSE manifest
       /\ run' = [run EXCEPT ![r].todo = @ \ {f},
                             ![r].old = IF Older(r, f) THEN f ELSE <<>>]
  /\ UNCHANGED <<version, fetched, stage, tarball, builds, origin>>

\* Its tarball goes after it.
RemoveTarball(r) ==
  /\ At(r, "older") /\ run[r].old # <<>>
  /\ tarball' = [tarball EXCEPT ![run[r].old] = Absent]
  /\ run' = [run EXCEPT ![r].old = <<>>]
  /\ UNCHANGED <<version, fetched, stage, manifest, builds, origin>>

\* Mutant: the tarball of the same version is removed first.
TarRemoves(r) ==
  /\ At(r, "older") /\ run[r].todo = {} /\ run[r].old = <<>>
  /\ tarball' = [tarball EXCEPT ![File(r)] = Absent]
  /\ Goto(r, "tar")
  /\ UNCHANGED <<version, fetched, stage, manifest, builds, origin>>

\* tar, over a tarball of the same version.
TarBegins(r) ==
  /\ At(r, "older") /\ run[r].todo = {} /\ run[r].old = <<>>
  /\ tarball' = [tarball EXCEPT ![File(r)] = Torn]
  /\ Goto(r, "tar")
  /\ UNCHANGED <<version, fetched, stage, manifest, builds, origin>>

TarEnds(r) ==
  /\ At(r, "tar")
  /\ tarball' = [tarball EXCEPT ![File(r)] = run[r].build]
  /\ Goto(r, "describe")
  /\ UNCHANGED <<version, fetched, stage, manifest, builds, origin>>

\* The manifest is opened, which empties it, and written.
ManifestBegins(r) ==
  /\ At(r, "describe")
  /\ manifest' = [manifest EXCEPT ![File(r)] = Torn]
  /\ Goto(r, "write")
  /\ UNCHANGED <<version, fetched, stage, tarball, builds, origin>>

ManifestEnds(r) ==
  /\ At(r, "write")
  /\ manifest' = [manifest EXCEPT ![File(r)] = run[r].build]
  /\ run' = [run EXCEPT ![r] = Ended]
  /\ UNCHANGED <<version, fetched, stage, tarball, builds, origin>>

-----------------------------------------------------------------------------
\* A maintainer updates the checkout.
Bump(name) ==
  /\ <<name, version[name] + 1>> \in Files
  /\ version' = [version EXCEPT ![name] = @ + 1]
  /\ UNCHANGED <<fetched, stage, out, builds, origin, run>>

Init ==
  /\ version = [name \in Names |-> 1]
  /\ dl = [d \in Downloads |-> "none"]
  /\ part = [d \in Downloads |-> "none"]
  /\ stage = [f \in Files |-> Absent]
  /\ tarball = [f \in Files |-> Absent]
  /\ manifest = [f \in Files |-> Absent]
  /\ builds = 0
  /\ origin = [b \in 1 .. MaxBuilds |-> <<>>]
  /\ run = [r \in Runs |-> Ended]

Fetch(r) ==
  Clone(r) \/ Look(r) \/ CurlBegins(r) \/ Curl(r) \/ Rename(r) \/ Check(r) \/ Extract(r)
Pack(r) ==
  \/ NoPack(r) \/ ListOut(r) \/ ReadManifest(r) \/ RemoveTarball(r)
  \/ TarBegins(r) \/ TarEnds(r) \/ ManifestBegins(r) \/ ManifestEnds(r)

Next ==
  \/ \E r \in Runs :
       \/ \E name \in Names : Start(r, name)
       \/ Fail(r) \/ Fetch(r) \/ Build(r)
       \/ StageBegins(r) \/ StageEnds(r) \/ Pack(r)
  \/ \E name \in Names : Bump(name)

Spec == Init /\ [][Next]_vars

-----------------------------------------------------------------------------
\* Properties.

RunState ==
  [pc : {"ended", "fetch", "download", "curl", "rename", "check", "extract", "build",
         "stage", "copy", "list", "older", "tar", "describe", "write"},
   file : Files \union {<<>>}, on : {"none", "part", "dl", "gone"}, met : BOOLEAN,
   src : Contents, build : Nat,
   todo : SUBSET Files, old : Files \union {<<>>}]

\* The type invariant.
TypeOK ==
  /\ version \in [Names -> Nat] /\ \A name \in Names : <<name, version[name]>> \in Files
  /\ dl \in [Downloads -> Contents] /\ part \in [Downloads -> Contents]
  /\ builds \in 0 .. MaxBuilds
  /\ stage \in [Files -> Torn .. builds] /\ tarball \in [Files -> Torn .. builds]
  /\ manifest \in [Files -> Torn .. builds]
  /\ origin = [b \in 1 .. MaxBuilds |-> origin[b]]
  /\ run \in [Runs -> RunState]

\* An archive with its sha256.
Summed(f) == ~Source[f].git /\ Source[f].sha256

\* What a manifest describes was built from that recipe at that version, and,
\* where the recipe gives the sha256 of an archive, from that archive: whatever
\* earlier runs and other recipes left in dl/ under its file name, and whatever
\* other runs are doing, unless one of them was fetching to that name meanwhile
\* (it could change the file between the sum's reading and the unpacking).
PackedIsChecked ==
  \A f \in Files : manifest[f] > 0 =>
    /\ origin[manifest[f]].file = f
    /\ Summed(f) => origin[manifest[f]].genuine

\* A manifest never describes more than there is, at whatever step earlier runs
\* died: its tarball, and the staging root other recipes are built against, have
\* the build it gives or a later one, or one being written over it.
NeverAhead ==
  \A f \in Files : manifest[f] > 0 =>
    \A made \in {tarball[f], stage[f]} : made = Torn \/ made >= manifest[f]

\* A recipe is listed in one version: the next one takes the place of the last
\* even if its run dies half way.
OneVersionListed ==
  \A f, g \in Files : manifest[f] > 0 /\ manifest[g] > 0 /\ f[1] = g[1] => f = g

\* README.md, "`size` and `sha256` must match the tarball exactly": when no run
\* is at work, each manifest in out/ gives those of the tarball beside it.
ManifestMatches ==
  (\A r \in Runs : At(r, "ended")) =>
    \A f \in Files : manifest[f] > 0 => tarball[f] = manifest[f]

\* README.md, recipe.py "fetches the source of `recipes/<name>`, checks its
\* sha256": what is packed by a recipe that gives a sha256 was built from the
\* source it is the sum of.
SourceChecked ==
  \A f \in Files :
    manifest[f] > 0 /\ Source[f].sha256 => origin[manifest[f]].genuine

-----------------------------------------------------------------------------
\* Why the first three hold: what a run has built and put where, up to its step.
Same(r) == {f \in Files : f[1] = Name(r) /\ f # File(r)}

\* What is unpacked is what the recipe gives the sum of, unless a run met another.
Genuine(f, met, src) == Summed(f) /\ ~met => src = Source[f].url

RunInv(r) ==
  /\ ~At(r, "ended") => File(r) \in Files
  /\ run[r].pc \in {"download", "curl", "rename", "check", "extract"} => ~Source[File(r)].git
  /\ At(r, "extract") => Genuine(File(r), run[r].met, dl[Fn(r)])
  /\ At(r, "build") => Genuine(File(r), run[r].met, run[r].src)
  /\ run[r].pc \in {"stage", "copy", "list", "older", "tar", "describe", "write"} =>
       /\ run[r].build \in 1 .. builds /\ manifest[File(r)] <= run[r].build
       /\ origin[run[r].build].file = File(r)
       /\ Summed(File(r)) => origin[run[r].build].genuine
  /\ run[r].pc \in {"list", "older", "tar", "describe", "write"} =>
       stage[File(r)] = run[r].build
  /\ run[r].old # <<>> =>
       At(r, "older") /\ run[r].old \in Same(r) /\ manifest[run[r].old] = Absent
  /\ run[r].pc = "older" => \A g \in Same(r) : manifest[g] > 0 => g \in run[r].todo
  /\ run[r].pc \in {"tar", "describe", "write"} => \A g \in Same(r) : manifest[g] <= 0
  /\ run[r].pc \in {"describe", "write"} => tarball[File(r)] = run[r].build

\* No two runs are for one recipe, and two that fetch to one name have met.
Alone ==
  \A r, s \in Runs : r # s /\ ~At(r, "ended") /\ ~At(s, "ended") =>
    /\ Name(r) # Name(s)
    /\ Fetching(s) /\ Sharing(r, File(s)) => run[r].met

=============================================================================
