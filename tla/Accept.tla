------------------------------- MODULE Accept -------------------------------
(***************************************************************************)
(* tools/accept: a maintainer takes a submitted pull request, checks the   *)
(* packages in it, and publishes them in the `index` release on GitHub     *)
(* (the tarballs, INDEX and INDEX.sig), closing the pull request at the    *)
(* end.  A run is one invocation of the script; it works in its own        *)
(* temporary directory and in an out/ directory that outlives it.          *)
(*                                                                         *)
(* NAME and VERSION may both have a '-' in them, so that one file name     *)
(* NAME-VERSION-x86_64.tar.gz may belong to two packages: FileName says    *)
(* which.  A tarball is identified with its sha256, and the signature of a *)
(* listing with the listing it signs (ed25519 verifies nothing else).      *)
(***************************************************************************)
EXTENDS Naturals, Sequences

CONSTANTS
  Runs,        \* concurrent invocations of the script
  Outs,        \* out/ directories
  OutOf,       \* the out/ directory each run uses ($HERD_OUT)
  PRs,         \* pull requests
  Heads,       \* the heads its author gives each pull request, in order
  Names, Versions, Blobs,
  Labels,      \* what else is in the path of a manifest below NAME/VERSION
  Files,       \* the names of tarballs
  FileName,    \* the file name that NAME and VERSION make
  Stem,        \* a file name without its last '-' part, the architecture's apart
  Paths,       \* the files in each tarball; {} when it is no valid archive
  Index0,      \* the listing published at the start
  Out0,        \* the tarballs in each out/ at the start ...
  Mans0,       \* ... and the name in the manifest beside each
  MaxTries,    \* attempts at one upload before giving up: 8 in the script
  MaxFaults,   \* bound: GitHub requests that fail
  MaxCrashes,  \* bound: runs that are killed
  None         \* no such file

VARIABLES
  run,         \* the state of each run: where it is and its shell variables
  pulls,       \* per pull request: open or closed, and its current head
  live,        \* the assets of the release, None when there is none
  out,         \* the files of each out/ directory ...
  mans,        \* ... and the name in the manifest beside each tarball
  faults, crashes,
  reviewed,    \* history: records the maintainer said y to, or in Index0
  served,      \* history: the last listing whose signature verified
  promised,    \* history: records the authors were told are published
  torn,        \* history: tarballs uploaded for a listing not yet published
  doubled      \* history: names that a published listing had twice

release == <<live, served, promised, torn, doubled>>
store == <<out, mans>>
vars == <<run, pulls, live, out, mans, faults, crashes, reviewed, served, promised, torn,
          doubled>>

INDEX == "INDEX"
SIG == "INDEX.sig"
Asset == Files \cup {INDEX, SIG}
Record == [name : Names, version : Versions, sha : Blobs]
FileOf(r) == FileName[<<r.name, r.version>>]

\* A listing may have the record of a package more than once.
Listing == [records : SUBSET Record, twice : SUBSET Names]
Plain(I) == [records |-> I, twice |-> {}]

\* What a pull request's head holds: any number of manifests below each
\* submissions/NAME/VERSION, each with the record it declares and its tarball.
Manifest == Names \X Versions \X Labels
IsHead(h) ==
  DOMAIN h \subseteq Manifest /\ \A m \in DOMAIN h : h[m] \in [man : Record, blob : Blobs]

Registry == INSTANCE Registry WITH
  Listing0 <- Index0, listing <- served, announced <- promised
NamesOf(R) == Registry!NamesOf(R)
Replace(I, R) == Registry!Replace(I, R)

ASSUME OutAssumption == OutOf \in [Runs -> Outs]
ASSUME HeadAssumption ==
  \A q \in PRs : /\ Len(Heads[q]) \in Nat \ {0}
                  /\ \A i \in 1..Len(Heads[q]) : IsHead(Heads[q][i])
ASSUME FileAssumption == FileName \in [Names \X Versions -> Files]
ASSUME NameAssumption == INDEX \notin Files /\ SIG \notin Files
ASSUME NoneAssumption ==
  /\ None \notin Blobs /\ None \notin PRs /\ None \notin Names
  /\ None \notin Manifest /\ None \notin Listing
ASSUME Index0Assumption ==
  /\ Index0 \subseteq Record
  /\ \A r, s \in Index0 : r.name = s.name => r = s
ASSUME Out0Assumption ==
  /\ Out0 \in [Outs -> [Files -> Blobs \cup {None}]]
  /\ Mans0 \in [Outs -> [Files -> Names \cup {None}]]
ASSUME BoundAssumption ==
  MaxTries \in Nat \ {0} /\ MaxFaults \in Nat /\ MaxCrashes \in Nat

Idle == [pc |-> "idle", pr |-> None, head |-> 0, dirs |-> {}, dir |-> None,
         cur |-> Plain({}), acc |-> {}, again |-> {}, todo |-> <<>>, stale |-> {},
         tries |-> 0]

\* The pair of files herd and the script verify before they use the listing.
Verifies(l) == l[INDEX] # None /\ l[INDEX] = l[SIG]

Init ==
  /\ run = [p \in Runs |-> Idle]
  /\ pulls = [q \in PRs |-> [state |-> "OPEN", head |-> 1]]
  /\ live = [a \in Asset |->
               IF a \in {INDEX, SIG} THEN Plain(Index0)
               ELSE IF \E r \in Index0 : FileOf(r) = a
                    THEN (CHOOSE r \in Index0 : FileOf(r) = a).sha
                    ELSE None]
  /\ out = [o \in Outs |-> [a \in Asset |-> IF a \in Files THEN Out0[o][a] ELSE None]]
  /\ mans = Mans0
  /\ faults = 0 /\ crashes = 0
  /\ reviewed = Index0 /\ served = Index0 /\ promised = {} /\ torn = {} /\ doubled = {}
-----------------------------------------------------------------------------
Submitted(q) == Heads[q][pulls[q].head]   \* what the pull request has now

Pinned(p) == Heads[run[p].pr][run[p].head] \* what the run fetched
OutDir(p) == out[OutOf[p]]

Becomes(p, r) == run' = [run EXCEPT ![p] = r]

\* exit: the temporary directory goes, out/ and the release stay as they are.
Die(p) == Becomes(p, Idle)

\* Only an open pull request with a manifest is looked at; its file list is
\* read before its head is fetched.
Start(p, q) ==
  /\ run[p].pc = "idle" /\ pulls[q].state = "OPEN" /\ DOMAIN Submitted(q) # {}
  /\ Becomes(p, [Idle EXCEPT !.pc = "fetch", !.pr = q, !.dirs = DOMAIN Submitted(q)])
  /\ UNCHANGED <<pulls, store, faults, crashes, reviewed, release>>

Fetch(p) ==
  /\ run[p].pc = "fetch"
  /\ Becomes(p, [run[p] EXCEPT !.pc = "download", !.head = pulls[run[p].pr].head])
  /\ UNCHANGED <<pulls, store, faults, crashes, reviewed, release>>

Download(p) ==
  /\ run[p].pc = "download"
  /\ \/ live[INDEX] = None /\ Die(p)
     \/ /\ live[INDEX] # None
        /\ Becomes(p, [run[p] EXCEPT !.pc = "verify", !.cur = live[INDEX]])
  /\ UNCHANGED <<pulls, store, faults, crashes, reviewed, release>>

\* Mutant: the signature is not looked at.
VerifyNothing(p) ==
  /\ run[p].pc = "verify" /\ Becomes(p, [run[p] EXCEPT !.pc = "review"])
  /\ UNCHANGED <<pulls, store, faults, crashes, reviewed, release>>

Verify(p) ==
  /\ run[p].pc = "verify"
  /\ \/ live[SIG] # run[p].cur /\ Die(p)
     \/ live[SIG] = run[p].cur /\ Becomes(p, [run[p] EXCEPT !.pc = "review"])
  /\ UNCHANGED <<pulls, store, faults, crashes, reviewed, release>>

\* Mutant: the lists of files are compared as wholes.
ClashWholeList(o, n, blob) ==
  \E f \in Files : out[o][f] # None /\ Stem[f] # n /\ Paths[out[o][f]] = Paths[blob]

\* Another package than n is told by its tarball's stem, which is its name only
\* when its version has no '-'; it is looked for in out/, not in the release.
Clash(o, n, blob) ==
  \E f \in Files : out[o][f] # None /\ Stem[f] # n /\ Paths[out[o][f]] \cap Paths[blob] # {}

\* Mutant: the sha256 is not compared.
PassesUnhashed(p, m) ==
  LET h == Pinned(p) IN
  /\ m \in DOMAIN h /\ h[m].man.name = m[1] /\ h[m].man.version = m[2]
  /\ Paths[h[m].blob] # {} /\ ~Clash(OutOf[p], m[1], h[m].blob)

Passes(p, m) ==
  LET h == Pinned(p) IN
  /\ m \in DOMAIN h /\ h[m].man.name = m[1] /\ h[m].man.version = m[2]
  /\ h[m].man.sha = h[m].blob /\ Paths[h[m].blob] # {}
  /\ ~Clash(OutOf[p], m[1], h[m].blob)

\* The manifests are taken one after another, in any order.
Review(p) ==
  /\ run[p].pc = "review"
  /\ \E m \in run[p].dirs :
       \/ ~Passes(p, m) /\ Die(p)
       \/ Passes(p, m) /\ Becomes(p, [run[p] EXCEPT !.pc = "prompt", !.dir = m])
  /\ UNCHANGED <<pulls, store, faults, crashes, reviewed, release>>

RecordsOf(l, n) == {r \in l.records : r.name = n}

\* Mutant: the new file is stale too.
OldOrSame(l, man) == {FileOf(r) : r \in RecordsOf(l, man.name)}

\* The file names the listing has for this package, unless that is one line with
\* the file name it keeps: of a record that is there twice, two lines are read.
Old(l, man) ==
  {FileOf(r) : r \in {c \in RecordsOf(l, man.name) :
                        FileOf(c) # FileOf(man) \/ man.name \in l.twice}}

\* y: the tarballs whose manifest in out/ has that name leave it ...
Confirm(p) ==
  LET man == Pinned(p)[run[p].dir].man
      o == OutOf[p]
      gone == {f \in Files : mans[o][f] = man.name} IN
  /\ run[p].pc = "prompt"
  /\ out' = [out EXCEPT ![o] = [a \in Asset |-> IF a \in gone THEN None ELSE @[a]]]
  /\ mans' = [mans EXCEPT ![o] = [f \in Files |-> IF f \in gone THEN None ELSE @[f]]]
  /\ Becomes(p, [run[p] EXCEPT !.pc = "copy", !.stale = @ \cup Old(run[p].cur, man)])
  /\ reviewed' = reviewed \cup {man}
  /\ UNCHANGED <<pulls, faults, crashes, release>>

\* ... and this one enters it.  A run keeps one manifest of each name (accept:68),
\* the last, and lists it once for each time the name came up.
Copy(p) ==
  LET h == Pinned(p)[run[p].dir]
      f == FileOf(h.man) IN
  /\ run[p].pc = "copy"
  /\ out' = [out EXCEPT ![OutOf[p]][f] = h.blob]
  /\ mans' = [mans EXCEPT ![OutOf[p]][f] = h.man.name]
  /\ Becomes(p, [run[p] EXCEPT !.pc = "review", !.dirs = @ \ {run[p].dir}, !.dir = None,
                           !.again = @ \cup ({h.man.name} \cap NamesOf(run[p].acc)),
                           !.acc = Replace(@, {h.man}), !.todo = Append(@, f)])
  /\ UNCHANGED <<pulls, faults, crashes, reviewed, release>>

\* Anything else: "nothing was published".
Decline(p) ==
  /\ run[p].pc = "prompt" /\ Die(p)
  /\ UNCHANGED <<pulls, store, faults, crashes, reviewed, release>>

\* Mutants: the old records are not dropped; they all are.
NewIndexAppended(l, acc, again) == [records |-> l.records \cup acc, twice |-> l.twice \cup again]
NewIndexAlone(l, acc, again) == [records |-> acc, twice |-> again]

\* The listing downloaded, without the accepted names, then the accepted records.
NewIndex(l, acc, again) ==
  [records |-> Replace(l.records, acc), twice |-> (l.twice \ NamesOf(acc)) \cup again]

Build(p) ==
  /\ run[p].pc = "review" /\ run[p].dirs = {}
  /\ out' = [out EXCEPT ![OutOf[p]][INDEX] = NewIndex(run[p].cur, run[p].acc, run[p].again)]
  /\ Becomes(p, [run[p] EXCEPT !.pc = "sign"])
  /\ UNCHANGED <<pulls, mans, faults, crashes, reviewed, release>>

Sign(p) ==
  /\ run[p].pc = "sign"
  /\ out' = [out EXCEPT ![OutOf[p]][SIG] = OutDir(p)[INDEX]]
  /\ Becomes(p, [run[p] EXCEPT !.pc = "clobber", !.todo = @ \o <<INDEX, SIG>>])
  /\ UNCHANGED <<pulls, mans, faults, crashes, reviewed, release>>
-----------------------------------------------------------------------------
\* `gh release upload --clobber` deletes the asset of that name, then uploads.
Clobber(p) ==
  LET a == Head(run[p].todo) IN
  /\ run[p].pc = "clobber" /\ OutDir(p)[a] # None
  /\ live' = [live EXCEPT ![a] = None]
  /\ torn' = torn \cup ({a} \cap Files)
  /\ Becomes(p, [run[p] EXCEPT !.pc = "put"])
  /\ UNCHANGED <<pulls, store, faults, crashes, reviewed, served, promised, doubled>>

\* GitHub has the file.  It is a publication when INDEX and INDEX.sig now verify.
Store(p) ==
  LET a == Head(run[p].todo)
      l == [live EXCEPT ![a] = OutDir(p)[a]]
      R == run[p].acc IN
  /\ run[p].pc = "put" /\ OutDir(p)[a] # None
  /\ live' = l
  /\ IF a \in {INDEX, SIG} /\ Verifies(l)
     THEN /\ served' = l[INDEX].records
          /\ promised' = {r \in promised : r.name \in NamesOf(R) => r \in R}
          /\ torn' = torn \ {FileOf(r) : r \in R}
          /\ doubled' = doubled \cup l[INDEX].twice
     ELSE UNCHANGED <<served, promised, torn, doubled>>

Put(p) ==
  /\ Store(p)
  /\ Becomes(p, [run[p] EXCEPT !.pc = IF Len(run[p].todo) = 1 THEN "prune" ELSE "clobber",
                           !.todo = Tail(@), !.tries = 0])
  /\ UNCHANGED <<pulls, store, faults, crashes, reviewed>>

\* Mutants: one attempt too many, and one too few.
RetryTooMany(p) ==
  IF run[p].tries + 1 > MaxTries THEN Die(p)
  ELSE Becomes(p, [run[p] EXCEPT !.pc = "clobber", !.tries = @ + 1])
RetryTooFew(p) ==
  IF run[p].tries + 2 >= MaxTries THEN Die(p)
  ELSE Becomes(p, [run[p] EXCEPT !.pc = "clobber", !.tries = @ + 1])

\* Try again, or give up after MaxTries.
Retry(p) ==
  IF run[p].tries + 1 >= MaxTries THEN Die(p)
  ELSE Becomes(p, [run[p] EXCEPT !.pc = "clobber", !.tries = @ + 1])

UploadFails(p) ==
  /\ run[p].pc \in {"clobber", "put"}
  /\ \/ OutDir(p)[Head(run[p].todo)] = None /\ UNCHANGED faults
     \/ faults < MaxFaults /\ faults' = faults + 1
  /\ Retry(p)
  /\ UNCHANGED <<pulls, store, crashes, reviewed, release>>

\* The upload was made but gh did not hear so.
ReplyLost(p) ==
  /\ Store(p) /\ Retry(p)
  /\ faults < MaxFaults /\ faults' = faults + 1
  /\ UNCHANGED <<pulls, store, crashes, reviewed>>

\* A stale tarball is deleted; when that fails nobody is told.
Prune(p) ==
  /\ run[p].pc = "prune"
  /\ \E f \in run[p].stale :
       /\ Becomes(p, [run[p] EXCEPT !.stale = @ \ {f}])
       /\ live' \in {live, [live EXCEPT ![f] = None]}
  /\ UNCHANGED <<pulls, store, faults, crashes, reviewed, served, promised, torn, doubled>>

Close(p) ==
  /\ run[p].pc = "prune" /\ run[p].stale = {}
  /\ pulls' = [pulls EXCEPT ![run[p].pr].state = "CLOSED"]
  /\ promised' = Replace(promised, run[p].acc)
  /\ Die(p)
  /\ UNCHANGED <<live, store, faults, crashes, reviewed, served, torn, doubled>>

CloseFails(p) ==
  /\ run[p].pc = "prune" /\ run[p].stale = {}
  /\ faults < MaxFaults /\ faults' = faults + 1
  /\ Die(p)
  /\ UNCHANGED <<pulls, store, crashes, reviewed, release>>

\* The run is killed between two steps.
Crash(p) ==
  /\ run[p].pc # "idle" /\ crashes < MaxCrashes
  /\ crashes' = crashes + 1
  /\ Die(p)
  /\ UNCHANGED <<pulls, store, faults, reviewed, release>>

\* The author pushes to the branch of an open pull request.
Push(q) ==
  /\ pulls[q].state = "OPEN" /\ pulls[q].head < Len(Heads[q])
  /\ pulls' = [pulls EXCEPT ![q].head = @ + 1]
  /\ UNCHANGED <<run, store, faults, crashes, reviewed, release>>
-----------------------------------------------------------------------------
\* What the script does by itself once the last manifest is confirmed.
Proceed(p) == Build(p) \/ Sign(p) \/ Clobber(p) \/ Put(p) \/ Prune(p) \/ Close(p)

Step(p) ==
  \/ \E q \in PRs : Start(p, q)
  \/ Fetch(p) \/ Download(p) \/ Verify(p) \/ Review(p) \/ Confirm(p) \/ Copy(p) \/ Decline(p)
  \/ Proceed(p)
  \/ UploadFails(p) \/ ReplyLost(p) \/ CloseFails(p) \/ Crash(p)

Next == (\E p \in Runs : Step(p)) \/ (\E q \in PRs : Push(q))

Spec == Init /\ [][Next]_vars

FairSpec == Spec /\ \A p \in Runs : WF_vars(Proceed(p))
-----------------------------------------------------------------------------
RunState ==
  [pc : {"idle", "fetch", "download", "verify", "review", "prompt", "copy", "sign",
         "clobber", "put", "prune"},
   pr : PRs \cup {None}, head : Nat, dirs : SUBSET Manifest, dir : Manifest \cup {None},
   cur : Listing, acc : SUBSET Record, again : SUBSET Names, todo : Seq(Asset),
   stale : SUBSET Files, tries : 0..MaxTries - 1]

\* What a directory or the release can hold: INDEX is a listing, INDEX.sig
\* signs one, and every other file is a tarball.
IsStore(s) ==
  /\ s = [a \in Asset |-> s[a]]
  /\ \A f \in Files : s[f] \in Blobs \cup {None}
  /\ \A a \in {INDEX, SIG} : s[a] \in Listing \cup {None}

\* The type invariant.
TypeOK ==
  /\ run \in [Runs -> RunState]
  /\ pulls \in [PRs -> [state : {"OPEN", "CLOSED"}, head : Nat \ {0}]]
  /\ \A q \in PRs : pulls[q].head <= Len(Heads[q])
  /\ IsStore(live) /\ out = [o \in Outs |-> out[o]] /\ \A o \in Outs : IsStore(out[o])
  /\ mans \in [Outs -> [Files -> Names \cup {None}]]
  /\ faults \in Nat /\ crashes \in Nat
  /\ reviewed \subseteq Record /\ served \subseteq Record /\ promised \subseteq Record
  /\ torn \subseteq Files /\ doubled \subseteq Names

\* Whatever pushes, failures, crashes and other runs come between, the release
\* never lists or signs a record the maintainer did not confirm, and never has
\* a tarball other than the one whose sha256 such a record with that file name
\* has (accept:64-127 reads manifest, tarball and prompt answer at different times).
OnlyReviewedReleased ==
  /\ \A a \in {INDEX, SIG} : live[a] # None => live[a].records \subseteq reviewed
  /\ \A f \in Files :
       live[f] # None => \E r \in reviewed : FileOf(r) = f /\ r.sha = live[f]

\* Two packages the maintainer confirmed have one file name, foo 'bar-1' and
\* foo-bar '1': each takes the other's place in the release (accept:73-74, 143).
Shared(f) ==
  \E r, s \in reviewed : FileOf(r) = f /\ FileOf(s) = f /\ r.name # s.name

\* While INDEX and INDEX.sig verify, every record listed has its tarball in the
\* release, with the sha256 it declares: tarballs go up before the pair and stale
\* ones go after it (accept:141-152).  It may fail of a tarball that an upload was
\* begun for by a run that has not replaced the pair, of one that two packages
\* share, and of a package some listing had twice, whose next publication deletes
\* what it has just uploaded (accept:112-115) -- and only of those.
VerifiedListingIsWhole ==
  Verifies(live) => \A r \in live[INDEX].records :
    \/ live[FileOf(r)] = r.sha
    \/ FileOf(r) \in torn \/ Shared(FileOf(r)) \/ r.name \in doubled

\* "Published: ... herd update, then herd install" (accept:155) stays true: a
\* listing that verifies has every record an author was told is published.
PromiseKept == Verifies(live) => promised \subseteq live[INDEX].records

\* The clash check keeps out/ free of two packages with a file in common, also
\* after a run that died between two manifests (accept:88-97, 117-123) -- unless
\* the stem of one, whose version has a '-', is the name of the other: the script
\* takes those two for one package (accept:91-92).
OutPackagesDisjoint ==
  \A o \in Outs : \A f, g \in Files :
    (f # g /\ out[o][f] # None /\ out[o][g] # None)
      => \/ Paths[out[o][f]] \cap Paths[out[o][g]] = {}
         \/ Stem[f] = mans[o][g] \/ Stem[g] = mans[o][f]

\* "It refuses ... a package that would overwrite files of another package"
\* (README.md:307-310): no two packages of a listing share a file.
ListedPackagesDisjoint ==
  Verifies(live) => \A r, s \in live[INDEX].records :
                      r.name # s.name => Paths[r.sha] \cap Paths[s.sha] = {}

\* "the published INDEX does not match its signature -- stopping" (accept:57):
\* once a run has died between INDEX and INDEX.sig, no later run changes the
\* release or gets past its check of the pair; only the owner can repair it.
Stopped == ~Verifies(live) /\ \A p \in Runs : run[p].pc \in {"idle", "fetch", "download", "verify"}
StaysStopped == [][Stopped => Stopped' /\ live' = live]_vars

\* The release implements the abstract registry: what verifies changes one whole
\* publication at a time, and only listed records are announced.
ImplementsRegistry == Registry!Spec

\* Every record that some head of some pull request declares.
Offered ==
  UNION {{h[m].man : m \in DOMAIN h} :
           h \in UNION {{Heads[q][i] : i \in 1..Len(Heads[q])} : q \in PRs}}

\* With fewer failed requests than one upload has attempts and nobody killing
\* the run, a signed listing is served (accept:139-149) -- provided no two of its
\* manifests are of two versions of one package: confirming the second takes the
\* first's tarball out of out/ (accept:120) but not off the list of uploads, so
\* that the run signs and then gives up on a file that is not there.
OneOfEach(p) ==
  \A d, e \in DOMAIN Pinned(p) :
    d[1] = e[1] => FileOf(Pinned(p)[d].man) = FileOf(Pinned(p)[e].man)
SignedIsServed ==
  [](crashes = 0 /\ faults < MaxTries) => \A p \in Runs : \A r \in Offered :
    (run[p].pc = "sign" /\ r \in run[p].acc /\ OneOfEach(p)) ~> r \in served
-----------------------------------------------------------------------------
\* Why OnlyReviewedReleased holds: f, where s has it, is a tarball of a record
\* the maintainer confirmed for it ...
Backed(s, f) == s[f] # None => \E r \in reviewed : FileOf(r) = f /\ r.sha = s[f]
ListsReviewed(s) == \A a \in {INDEX, SIG} : s[a] # None => s[a].records \subseteq reviewed

\* ... what a run has pinned, checked and put in out/ stays so until it is uploaded ...
RunReviewed(p) ==
  /\ run[p].pc # "idle" => run[p].pr \in PRs
  /\ run[p].pc \notin {"idle", "fetch"} => run[p].head \in 1..Len(Heads[run[p].pr])
  /\ run[p].pc \in {"prompt", "copy"} =>
       LET m == run[p].dir IN
       /\ m \in DOMAIN Pinned(p)
       /\ Pinned(p)[m].man.sha = Pinned(p)[m].blob
       /\ run[p].pc = "copy" => Pinned(p)[m].man \in reviewed
  /\ run[p].pc \in {"clobber", "put"} => run[p].todo # <<>>
  /\ run[p].cur.records \cup run[p].acc \subseteq reviewed
  /\ \A i \in 1..Len(run[p].todo) : run[p].todo[i] \in Files => Backed(OutDir(p), run[p].todo[i])

\* ... and so does what out/ and the release list.
ReviewedInv ==
  /\ \A p \in Runs : RunReviewed(p)
  /\ \A o \in Outs : ListsReviewed(out[o])
  /\ ListsReviewed(live) /\ \A f \in Files : Backed(live, f)
=============================================================================
