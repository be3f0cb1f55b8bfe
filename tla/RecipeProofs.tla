---------------------------- MODULE RecipeProofs ----------------------------
(***************************************************************************)
(* recipe.py: what it packs was checked, is there, and is one version, for  *)
(* any number of runs side by side, recipes, versions and builds.           *)
(***************************************************************************)
EXTENDS Recipe, TLAPS

Inv ==
  /\ TypeOK /\ Alone /\ \A r \in Runs : RunInv(r)
  /\ PackedIsChecked /\ NeverAhead /\ OneVersionListed

LEMMA InvInit == Init => Inv
  <1> SUFFICES ASSUME Init PROVE Inv
    OBVIOUS
  <1> USE RecipeAssumption DEF Init
  <1>1. TypeOK
    BY DEF TypeOK, RunState, Ended, Absent, Torn, Contents
  <1>2. Alone /\ \A r \in Runs : RunInv(r)
    BY DEF Alone, RunInv, At, Ended, Fetching
  <1>3. PackedIsChecked /\ NeverAhead /\ OneVersionListed
    BY DEF PackedIsChecked, NeverAhead, OneVersionListed, Absent
  <1> QED
    BY <1>1, <1>2, <1>3 DEF Inv
-----------------------------------------------------------------------------
\* All of run s but where its curl writes.
SameRun(s) ==
  /\ run'[s].pc = run[s].pc /\ run'[s].file = run[s].file /\ run'[s].met = run[s].met
  /\ run'[s].src = run[s].src /\ run'[s].build = run[s].build
  /\ run'[s].todo = run[s].todo /\ run'[s].old = run[s].old

\* What one run changes: itself, files of its own recipe, and a download of the
\* name it fetches to.
OnlyOwn(r) ==
  /\ \A s \in Runs : s # r => SameRun(s)
  /\ \A s \in Runs : s # r /\ At(s, "extract") /\ ~Sharing(r, File(s)) =>
       dl'[Fn(s)] = dl[Fn(s)]
  /\ \A f \in Files : f[1] # Name(r) =>
       stage'[f] = stage[f] /\ tarball'[f] = tarball[f] /\ manifest'[f] = manifest[f]
  /\ builds' \in Nat /\ builds <= builds'
  /\ \A b \in 1 .. builds : origin'[b] = origin[b]

\* It ends, or stays at its recipe, and does not fetch again.
Stays(r) ==
  \/ run'[r].pc = "ended"
  \/ /\ run'[r].file = run[r].file
     /\ Fetching(r)' => Fetching(r) /\ run'[r].met = run[r].met

\* It changes nothing that another run relies on: what shares its download has met it.
LEMMA OthersKept ==
  ASSUME Inv, NEW r \in Runs, ~At(r, "ended"), OnlyOwn(r)
  PROVE  \A s \in Runs : s # r => RunInv(s)'
  <1> SUFFICES ASSUME NEW s \in Runs, s # r PROVE RunInv(s)'
    OBVIOUS
  <1>1. SameRun(s) /\ RunInv(s)
    BY DEF OnlyOwn, Inv
  <1>2. CASE At(s, "ended")
    BY <1>1, <1>2 DEF RunInv, At, SameRun
  <1>3. CASE ~At(s, "ended")
    <2>1. File(s) \in Files /\ Name(s) # Name(r)
      BY <1>1, <1>3 DEF RunInv, Inv, Alone
    <2>2. File(s)[1] # Name(r)
      BY <2>1 DEF File, Name
    <2>3. /\ stage'[File(s)] = stage[File(s)] /\ tarball'[File(s)] = tarball[File(s)]
          /\ manifest'[File(s)] = manifest[File(s)]
          /\ \A g \in Same(s) : g \in Files /\ manifest'[g] = manifest[g]
      BY <2>1, <2>2 DEF OnlyOwn, Same
    <2>4. /\ File(s)' = File(s) /\ Name(s)' = Name(s) /\ Same(s)' = Same(s)
          /\ Fn(s)' = Fn(s) /\ \A pc : At(s, pc)' = At(s, pc)
      BY <1>1 DEF File, Name, Same, At, SameRun, Fn, Local
    <2>5. run[s].build \in 1 .. builds =>
            run'[s].build \in 1 .. builds' /\ origin'[run[s].build] = origin[run[s].build]
      <3>1. builds \in Nat
        BY RecipeAssumption DEF Inv, TypeOK
      <3> QED
        BY <1>1, <3>1 DEF OnlyOwn, SameRun
    <2>6. At(s, "extract") => Genuine(File(s), run[s].met, dl'[Fn(s)])
      <3>1. CASE ~Sharing(r, File(s))
        BY <1>1, <3>1 DEF OnlyOwn, RunInv, Genuine
      <3>2. CASE At(s, "extract") /\ Sharing(r, File(s))
        <4>1. Fetching(r) /\ Sharing(s, File(r))
          BY <3>2 DEF Sharing, Fetching, At, Fn
        <4>2. run[s].met
          BY <4>1, <1>3 DEF Inv, Alone
        <4> QED
          BY <4>2 DEF Genuine
      <3> QED
        BY <3>1, <3>2
    <2> QED
      BY <1>1, <2>1, <2>3, <2>4, <2>5, <2>6 DEF RunInv, SameRun, Genuine, Summed
  <1> QED
    BY <1>2, <1>3

\* A run that stays at its recipe stays alone.
LEMMA AloneKept ==
  ASSUME Inv, NEW r \in Runs, ~At(r, "ended"), OnlyOwn(r), Stays(r)
  PROVE  Alone'
  <1>1. \A s \in Runs :
          /\ At(s, "ended")' \/ (run'[s].file = run[s].file /\ ~At(s, "ended"))
          /\ Fetching(s)' /\ ~At(s, "ended")' => Fetching(s) /\ run'[s].met = run[s].met
    BY DEF OnlyOwn, SameRun, Stays, At, Fetching
  <1> QED
    BY <1>1 DEF Inv, Alone, Name, Sharing, File, Fn, Local

\* What out/ lists stays true while nothing there or in the staging root changes.
LEMMA ListedKept ==
  ASSUME Inv, stage' = stage, tarball' = tarball, manifest' = manifest,
         \A b \in 1 .. builds : origin'[b] = origin[b]
  PROVE  PackedIsChecked' /\ NeverAhead' /\ OneVersionListed'
  <1>1. \A f \in Files : manifest[f] > 0 => manifest[f] \in 1 .. builds
    BY DEF Inv, TypeOK, Torn
  <1>2. PackedIsChecked'
    BY <1>1 DEF Inv, PackedIsChecked
  <1>3. NeverAhead' /\ OneVersionListed'
    BY DEF Inv, NeverAhead, OneVersionListed
  <1> QED
    BY <1>2, <1>3
-----------------------------------------------------------------------------
\* Up to the build, a run changes nothing of what others use.

LEMMA StartKeeps ==
  ASSUME Inv, NEW r \in Runs, NEW name \in Names, Start(r, name)
  PROVE  Inv'
  <1> DEFINE f == <<name, version[name]>>
             others == {s \in Runs : Sharing(s, f)}
  <1>1. /\ At(r, "ended") /\ name \notin {Name(s) : s \in {x \in Runs : ~At(x, "ended")}}
        /\ run' = [s \in Runs |->
             IF s = r THEN [Ended EXCEPT !.pc = "fetch", !.file = f, !.met = others # {}]
             ELSE IF s \in others THEN [run[s] EXCEPT !.met = TRUE]
             ELSE run[s]]
    BY DEF Start
  <1>0. UNCHANGED <<version, dl, part, stage, tarball, manifest, builds, origin>>
    BY DEF Start, kept, fetched, out
  <1>2. f \in Files /\ run \in [Runs -> RunState]
    BY DEF Inv, TypeOK
  <1>3. \A s \in Runs : s # r =>
          /\ run'[s] \in RunState /\ run'[s].pc = run[s].pc /\ run'[s].file = run[s].file
          /\ run'[s].src = run[s].src /\ run'[s].build = run[s].build
          /\ run'[s].todo = run[s].todo /\ run'[s].old = run[s].old
          /\ run'[s].met = (run[s].met \/ s \in others)
    <2> SUFFICES ASSUME NEW s \in Runs, s # r
                 PROVE  /\ run'[s] \in RunState /\ run'[s].pc = run[s].pc
                        /\ run'[s].file = run[s].file
                        /\ run'[s].src = run[s].src /\ run'[s].build = run[s].build
                        /\ run'[s].todo = run[s].todo /\ run'[s].old = run[s].old
                        /\ run'[s].met = (run[s].met \/ s \in others)
      OBVIOUS
    <2>1. run[s] \in RunState
      BY <1>2
    <2>2. CASE s \in others
      BY <1>1, <2>1, <2>2 DEF RunState
    <2>3. CASE s \notin others
      BY <1>1, <2>1, <2>3 DEF RunState
    <2> QED
      BY <2>2, <2>3
  <1>4. /\ run'[r] \in RunState /\ run'[r].pc = "fetch" /\ run'[r].file = f
        /\ run'[r].met = (others # {}) /\ run'[r].old = <<>>
    <2>1. Ended \in RunState
      BY DEF RunState, Ended, Contents
    <2>2. PICK met \in BOOLEAN : met = (others # {})
      OBVIOUS
    <2>4. run'[r] = [Ended EXCEPT !.pc = "fetch", !.file = f, !.met = met]
      BY <1>1, <2>2
    <2> HIDE DEF f, others
    <2>5. /\ run'[r] \in RunState /\ run'[r].pc = "fetch" /\ run'[r].file = f
          /\ run'[r].met = met /\ run'[r].old = <<>>
      <3>1. f \in Files /\ met \in BOOLEAN
        BY <1>2, <2>2
      <3> QED
        BY <2>1, <2>4, <3>1 DEF RunState, Ended
    <2> QED
      BY <2>2, <2>5
  <1>5. TypeOK'
    <2>1. run' \in [Runs -> RunState]
      BY <1>1, <1>3, <1>4
    <2> HIDE DEF f, others
    <2> QED
      BY <1>0, <2>1 DEF Inv, TypeOK
  <1>6. Alone'
    <2> SUFFICES ASSUME NEW p \in Runs, NEW q \in Runs, p # q,
                        ~At(p, "ended")', ~At(q, "ended")'
                 PROVE  /\ Name(p)' # Name(q)'
                        /\ (Fetching(q) /\ Sharing(p, File(q)))' => run'[p].met
      BY DEF Alone
    <2>1. CASE p # r /\ q # r
      <3>1. /\ run'[p].pc = run[p].pc /\ run'[p].file = run[p].file
            /\ run'[q].pc = run[q].pc /\ run'[q].file = run[q].file
            /\ run[p].met => run'[p].met
        BY <2>1, <1>3
      <3>2. /\ ~At(p, "ended") /\ ~At(q, "ended")
            /\ Name(p)' = Name(p) /\ Name(q)' = Name(q)
            /\ (Fetching(q) /\ Sharing(p, File(q)))' = (Fetching(q) /\ Sharing(p, File(q)))
        BY <3>1 DEF At, Name, File, Fetching, Sharing, Fn, Local
      <3> QED
        BY <3>1, <3>2 DEF Inv, Alone
    <2>2. CASE p = r
      <3>1. ~At(q, "ended") /\ Name(q)' = Name(q) /\ Name(p)' = name
        BY <2>2, <1>3, <1>4 DEF At, Name
      <3>2. Name(q) # name
        BY <1>1, <3>1
      <3>3. (Fetching(q) /\ Sharing(p, File(q)))' => Sharing(q, f)
        BY <2>2, <1>3, <1>4 DEF Sharing, Fetching, File, Fn
      <3> QED
        BY <1>4, <2>2, <3>1, <3>2, <3>3
    <2>3. CASE q = r
      <3>1. p # r /\ ~At(p, "ended") /\ Name(p)' = Name(p) /\ Name(q)' = name
        BY <2>3, <1>3, <1>4 DEF At, Name
      <3>2. Name(p) # name
        BY <1>1, <3>1
      <3>3. Sharing(p, File(q))' => Sharing(p, f)
        BY <2>3, <3>1, <1>3, <1>4 DEF Sharing, Fetching, File, Fn
      <3> QED
        BY <1>3, <3>1, <3>2, <3>3
    <2> QED
      BY <2>1, <2>2, <2>3
  <1>7. RunInv(r)'
    BY <1>2, <1>4 DEF RunInv, At, File
  <1>8. \A s \in Runs : s # r => RunInv(s)'
    <2> SUFFICES ASSUME NEW s \in Runs, s # r PROVE RunInv(s)'
      OBVIOUS
    <2>1. RunInv(s)
      BY DEF Inv
    <2>2. /\ run'[s].pc = run[s].pc /\ run'[s].file = run[s].file
          /\ run'[s].src = run[s].src /\ run'[s].build = run[s].build
          /\ run'[s].todo = run[s].todo /\ run'[s].old = run[s].old
          /\ run[s].met => run'[s].met
      BY <1>3
    <2>4. /\ File(s)' = File(s) /\ Name(s)' = Name(s) /\ Same(s)' = Same(s)
          /\ Fn(s)' = Fn(s) /\ \A pc : At(s, pc)' = At(s, pc)
      BY <2>2 DEF File, Name, Same, At, Fn, Local
    <2>5. /\ At(s, "extract") => Genuine(File(s), run'[s].met, dl[Fn(s)])
          /\ At(s, "build") => Genuine(File(s), run'[s].met, run[s].src)
      BY <2>1, <2>2 DEF RunInv, Genuine
    <2> HIDE DEF f, others
    <2> QED
      BY <1>0, <2>1, <2>2, <2>4, <2>5 DEF RunInv, Summed
  <1>9. PackedIsChecked' /\ NeverAhead' /\ OneVersionListed'
    BY <1>0, ListedKept
  <1> QED
    BY <1>5, <1>6, <1>7, <1>8, <1>9 DEF Inv

\* A step of a run that changes only the run itself, or the download it fetches.
LEMMA QuietKeeps ==
  ASSUME Inv, NEW r \in Runs, ~At(r, "ended"), run' \in [Runs -> RunState],
         \A s \in Runs : s # r => SameRun(s), Stays(r),
         version' = version,
         dl' \in [Downloads -> Contents], part' \in [Downloads -> Contents],
         \A s \in Runs : s # r /\ At(s, "extract") /\ ~Sharing(r, File(s)) =>
           dl'[Fn(s)] = dl[Fn(s)],
         UNCHANGED <<stage, out, builds, origin>>,
         RunInv(r)'
  PROVE  Inv'
  <1> USE DEF out
  <1>1. TypeOK'
    BY DEF Inv, TypeOK
  <1>2. OnlyOwn(r)
    BY DEF OnlyOwn, Inv, TypeOK
  <1>4. Alone'
    BY <1>2, AloneKept
  <1>5. \A s \in Runs : RunInv(s)'
    BY <1>2, OthersKept
  <1>6. PackedIsChecked' /\ NeverAhead' /\ OneVersionListed'
    BY ListedKept
  <1> QED
    BY <1>1, <1>4, <1>5, <1>6 DEF Inv

\* One that changes itself alone.
LEMMA SelfKeeps ==
  ASSUME Inv, NEW r \in Runs, ~At(r, "ended"), NEW R \in RunState,
         run' = [run EXCEPT ![r] = R], Stays(r), UNCHANGED <<kept, builds, origin>>,
         RunInv(r)'
  PROVE  Inv'
  <1>1. \A s \in Runs : s # r => SameRun(s)
    BY DEF SameRun, Inv, TypeOK
  <1>2. run' \in [Runs -> RunState]
    BY DEF Inv, TypeOK
  <1> QED
    BY <1>1, <1>2, QuietKeeps DEF kept, fetched, Inv, TypeOK

LEMMA FailKeeps ==
  ASSUME Inv, NEW r \in Runs, ~At(r, "ended"), run' = [run EXCEPT ![r] = Ended],
         UNCHANGED <<kept, builds, origin>>
  PROVE  Inv'
  <1>1. Ended \in RunState /\ Ended.pc = "ended" /\ Ended.old = <<>>
    BY DEF Ended, RunState, Contents
  <1>2. run'[r] = Ended
    BY DEF Inv, TypeOK
  <1>3. RunInv(r)' /\ Stays(r)
    BY <1>1, <1>2 DEF RunInv, At, Stays
  <1> QED
    BY <1>1, <1>3, SelfKeeps

\* What a fetching run finds out.
LEMMA AtFetch ==
  ASSUME Inv, NEW r \in Runs, Fetching(r)
  PROVE  /\ ~At(r, "ended") /\ run[r] \in RunState /\ RunInv(r) /\ run[r].old = <<>>
         /\ File(r) \in Files /\ Url(r) \in Urls /\ Fn(r) \in Downloads
         /\ run \in [Runs -> RunState]
         /\ dl \in [Downloads -> Contents] /\ part \in [Downloads -> Contents]
  <1>1. ~At(r, "ended") /\ run[r].pc # "older"
    BY DEF Fetching, At
  <1>2. run[r] \in RunState /\ RunInv(r)
    BY DEF Inv, TypeOK
  <1>3. File(r) \in Files /\ run[r].old = <<>>
    BY <1>1, <1>2 DEF RunInv, At
  <1>4. Url(r) \in Urls
    BY <1>3, RecipeAssumption DEF Url, SourceFields, Files
  <1>5. Fn(r) \in Downloads
    BY <1>4 DEF Url, Fn, Local, Downloads
  <1> QED
    BY <1>1, <1>2, <1>3, <1>4, <1>5 DEF Inv, TypeOK

LEMMA CloneKeeps ==
  ASSUME Inv, NEW r \in Runs, Clone(r)
  PROVE  Inv'
  <1>1. Fetching(r) /\ Source[File(r)].git
    BY DEF Clone, Fetching, At
  <1>2. PICK src \in {Url(r), "bad"} :
          run' = [run EXCEPT ![r] = [run[r] EXCEPT !.pc = "build", !.src = src]]
    BY <1>1, AtFetch DEF Clone
  <1> DEFINE R == [run[r] EXCEPT !.pc = "build", !.src = src]
  <1>3. run'[r] = R /\ R \in RunState /\ R.pc = "build" /\ R.file = run[r].file
        /\ R.old = run[r].old
    <2>1. src \in Contents
      BY <1>1, AtFetch DEF Contents
    <2>2. ASSUME NEW x \in RunState, NEW y \in Contents
          PROVE  /\ [x EXCEPT !.pc = "build", !.src = y] \in RunState
                 /\ [x EXCEPT !.pc = "build", !.src = y].pc = "build"
                 /\ [x EXCEPT !.pc = "build", !.src = y].file = x.file
                 /\ [x EXCEPT !.pc = "build", !.src = y].old = x.old
      BY DEF RunState
    <2>3. run[r] \in RunState /\ run'[r] = R
      BY <1>1, <1>2, AtFetch
    <2> QED
      BY <2>1, <2>2, <2>3
  <1>4. RunInv(r)'
    BY <1>1, <1>3, AtFetch DEF RunInv, At, File, Summed, Genuine
  <1>5. Stays(r)
    BY <1>3 DEF Stays, Fetching
  <1> QED
    BY <1>1, <1>2, <1>3, <1>4, <1>5, AtFetch, SelfKeeps DEF Clone

\* A run goes on fetching.
LEMMA FetchGoesOn ==
  ASSUME Inv, NEW r \in Runs, Fetching(r), NEW pc, Goto(r, pc),
         pc \in {"download", "check", "extract"}, ~Source[File(r)].git,
         pc = "extract" => Genuine(File(r), run[r].met, dl[Fn(r)]),
         UNCHANGED <<kept, builds, origin>>
  PROVE  Inv'
  <1> DEFINE R == [run[r] EXCEPT !.pc = pc]
  <1>1. run' = [run EXCEPT ![r] = R]
    BY AtFetch DEF Goto
  <1>2. run'[r] = R /\ R \in RunState /\ R.pc = pc /\ R.file = run[r].file
        /\ R.met = run[r].met /\ R.old = run[r].old
    BY <1>1, AtFetch DEF RunState
  <1>3. File(r)' = File(r) /\ Fn(r)' = Fn(r)
    BY <1>2 DEF File, Fn, Local
  <1>4. RunInv(r)'
    BY <1>2, <1>3, AtFetch DEF RunInv, At, Genuine, kept, fetched
  <1>5. Stays(r)
    BY <1>2 DEF Stays
  <1> QED
    BY <1>1, <1>2, <1>4, <1>5, AtFetch, SelfKeeps

LEMMA LookKeeps ==
  ASSUME Inv, NEW r \in Runs, Look(r)
  PROVE  Inv'
  <1>1. Fetching(r)
    BY DEF Look, Fetching, At
  <1> QED
    BY <1>1, FetchGoesOn DEF Look

LEMMA CheckKeeps ==
  ASSUME Inv, NEW r \in Runs, Check(r)
  PROVE  Inv'
  <1>1. Fetching(r)
    BY DEF Check, Fetching, At
  <1>2. ~Source[File(r)].git
    BY <1>1, AtFetch DEF Check, At, RunInv
  <1>3. Genuine(File(r), run[r].met, dl[Fn(r)])
    BY DEF Check, Accepted, Genuine, Summed
  <1> QED
    BY <1>1, <1>2, <1>3, FetchGoesOn DEF Check

LEMMA ExtractKeeps ==
  ASSUME Inv, NEW r \in Runs, Extract(r)
  PROVE  Inv'
  <1>1. Fetching(r)
    BY DEF Extract, Fetching, At
  <1> DEFINE R == [run[r] EXCEPT !.pc = "build", !.src = dl[Fn(r)]]
  <1>2. run' = [run EXCEPT ![r] = R] /\ UNCHANGED <<kept, builds, origin>>
    BY <1>1, AtFetch DEF Extract
  <1>3. /\ run'[r] = R /\ R \in RunState /\ R.pc = "build" /\ R.file = run[r].file
        /\ R.src = dl[Fn(r)] /\ R.met = run[r].met /\ R.old = run[r].old
    BY <1>1, <1>2, AtFetch DEF RunState
  <1>4. Genuine(File(r), run[r].met, dl[Fn(r)])
    BY <1>1, AtFetch DEF Extract, RunInv
  <1>5. File(r)' = File(r)
    BY <1>3 DEF File
  <1>6. RunInv(r)'
    BY <1>1, <1>3, <1>4, <1>5, AtFetch DEF RunInv, At, Genuine
  <1>7. Stays(r)
    BY <1>3 DEF Stays, Fetching
  <1> QED
    BY <1>1, <1>2, <1>3, <1>6, <1>7, AtFetch, SelfKeeps

\* A step of a run that changes the download it fetches.
LEMMA DownloadKeeps ==
  ASSUME Inv, NEW r \in Runs, Fetching(r), ~Source[File(r)].git,
         run' \in [Runs -> RunState],
         \A s \in Runs : s # r => SameRun(s),
         run'[r].pc \in {"curl", "rename", "check"},
         run'[r].file = run[r].file, run'[r].met = run[r].met, run'[r].old = run[r].old,
         NEW x \in Contents, NEW y \in Contents,
         dl' = [dl EXCEPT ![Fn(r)] = x], part' = [part EXCEPT ![Fn(r)] = y],
         UNCHANGED <<version, stage, out, builds, origin>>
  PROVE  Inv'
  <1>1. dl' \in [Downloads -> Contents] /\ part' \in [Downloads -> Contents]
    BY AtFetch
  <1>2. ASSUME NEW s \in Runs, s # r, At(s, "extract"), ~Sharing(r, File(s))
        PROVE  dl'[Fn(s)] = dl[Fn(s)]
    <2>1. ~Source[File(s)].git
      BY <1>2 DEF Inv, RunInv, At
    <2>2. Fn(s) # Fn(r)
      BY <1>2, <2>1 DEF Sharing, Fn
    <2> QED
      BY <2>2, AtFetch
  <1>3. RunInv(r)' /\ Stays(r)
    BY AtFetch DEF RunInv, At, File, Stays
  <1> QED
    BY <1>1, <1>2, <1>3, AtFetch, QuietKeeps

LEMMA CurlKeeps ==
  ASSUME Inv, NEW r \in Runs, CurlBegins(r) \/ Curl(r)
  PROVE  Inv'
  <1>1. Fetching(r) /\ ~Source[File(r)].git
    <2>1. Fetching(r) /\ run[r].pc \in {"download", "curl"}
      BY DEF CurlBegins, Curl, Fetching, At
    <2> QED
      BY <2>1, AtFetch DEF RunInv
  <1>2. {dl[Fn(r)], part[Fn(r)], Url(r), "bad"} \subseteq Contents
    BY <1>1, AtFetch DEF Contents
  <1>3. dl = [dl EXCEPT ![Fn(r)] = dl[Fn(r)]] /\ part = [part EXCEPT ![Fn(r)] = part[Fn(r)]]
    BY <1>1, AtFetch
  <1>4. ASSUME NEW pc \in {"curl", "rename"}, NEW on \in {"part", "none"},
               run' = [run EXCEPT ![r].pc = pc, ![r].on = on]
        PROVE  /\ run' \in [Runs -> RunState]
               /\ \A s \in Runs : s # r => SameRun(s)
               /\ run'[r].pc \in {"curl", "rename", "check"}
               /\ run'[r].file = run[r].file /\ run'[r].met = run[r].met
               /\ run'[r].old = run[r].old
    <2> DEFINE R == [run[r] EXCEPT !.pc = pc, !.on = on]
    <2>1. run' = [run EXCEPT ![r] = R]
      BY <1>1, <1>4, AtFetch
    <2>2. R \in RunState /\ R.pc = pc /\ R.file = run[r].file /\ R.met = run[r].met
          /\ R.old = run[r].old
      BY <1>1, <1>4, AtFetch DEF RunState
    <2> QED
      BY <1>1, <2>1, <2>2, AtFetch DEF SameRun
  <1>5. CASE CurlBegins(r)
    BY <1>1, <1>2, <1>3, <1>4, <1>5, DownloadKeeps DEF CurlBegins
  <1>6. CASE Curl(r)
    <2>1. PICK src \in {Url(r), "bad"} :
            /\ dl' = IF run[r].on = "dl" THEN [dl EXCEPT ![Fn(r)] = src] ELSE dl
            /\ part' = IF run[r].on = "part" THEN [part EXCEPT ![Fn(r)] = src] ELSE part
      BY <1>6 DEF Curl
    <2>2. PICK x \in Contents, y \in Contents :
            dl' = [dl EXCEPT ![Fn(r)] = x] /\ part' = [part EXCEPT ![Fn(r)] = y]
      BY <1>2, <1>3, <2>1
    <2>3. CASE UNCHANGED run
      <3>1. /\ \A s \in Runs : s # r => SameRun(s)
            /\ run'[r].pc \in {"curl", "rename", "check"}
        BY <1>6, <2>3 DEF SameRun, Curl, At
      <3> QED
        BY <1>1, <1>6, <2>2, <2>3, <3>1, AtFetch, DownloadKeeps DEF Curl
    <2>4. CASE run' = [run EXCEPT ![r].pc = "rename", ![r].on = "none"]
      BY <1>1, <1>4, <1>6, <2>2, <2>4, DownloadKeeps DEF Curl
    <2> QED
      BY <1>6, <2>3, <2>4 DEF Curl
  <1> QED
    BY <1>5, <1>6

LEMMA RenameKeeps ==
  ASSUME Inv, NEW r \in Runs, Rename(r)
  PROVE  Inv'
  <1>1. Fetching(r) /\ ~Source[File(r)].git
    <2>1. Fetching(r) /\ run[r].pc = "rename"
      BY DEF Rename, Fetching, At
    <2> QED
      BY <2>1, AtFetch DEF RunInv
  <1>2. part[Fn(r)] \in Contents /\ "none" \in Contents
    BY <1>1, AtFetch DEF Contents
  <1>3. ASSUME NEW s \in Runs, s # r
        PROVE  run'[s] \in RunState /\ SameRun(s)
    <2>1. run[s] \in RunState
      BY <1>3 DEF Inv, TypeOK
    <2>2. Renamed(run[s].on) \in {"none", "part", "dl", "gone"}
      BY <2>1 DEF Renamed, RunState
    <2>3. run'[s] = run[s] \/ run'[s] = [run[s] EXCEPT !.on = Renamed(@)]
      BY <1>3 DEF Rename
    <2> QED
      BY <2>1, <2>2, <2>3 DEF RunState, SameRun
  <1>4. run'[r] = [run[r] EXCEPT !.pc = "check"]
    BY DEF Rename
  <1>5. /\ run'[r] \in RunState /\ run'[r].pc = "check" /\ run'[r].file = run[r].file
        /\ run'[r].met = run[r].met /\ run'[r].old = run[r].old
    BY <1>1, <1>4, AtFetch DEF RunState
  <1>6. run' \in [Runs -> RunState]
    BY <1>3, <1>5 DEF Rename
  <1> QED
    BY <1>1, <1>2, <1>3, <1>5, <1>6, DownloadKeeps DEF Rename

LEMMA FetchKeeps ==
  ASSUME Inv, NEW r \in Runs, Fetch(r)
  PROVE  Inv'
  BY CloneKeeps, LookKeeps, CurlKeeps, RenameKeeps, CheckKeeps, ExtractKeeps DEF Fetch
-----------------------------------------------------------------------------
\* A build is newer than all there were.
LEMMA BuildKeeps ==
  ASSUME Inv, NEW r \in Runs, Build(r)
  PROVE  Inv'
  <1> USE DEF kept, fetched, out
  <1> DEFINE R == [run[r] EXCEPT !.pc = "stage", !.build = builds + 1, !.src = "none",
                                 !.met = FALSE]
  <1>0. RunInv(r) /\ run[r] \in RunState /\ At(r, "build") /\ ~At(r, "ended")
    BY DEF Inv, TypeOK, At, Build
  <1>1. run' = [run EXCEPT ![r] = R] /\ File(r) \in Files
    BY <1>0 DEF Inv, TypeOK, RunInv, At, Build
  <1>2. builds \in Nat /\ MaxBuilds \in Nat /\ builds + 1 \in 1 .. MaxBuilds
        /\ builds' = builds + 1 /\ UNCHANGED kept
    BY RecipeAssumption DEF Inv, TypeOK, Build
  <1>3. run'[r] = R /\ R \in RunState
    <2>1. run'[r] = R
      BY <1>1 DEF Inv, TypeOK
    <2>2. builds + 1 \in Nat
      BY <1>2
    <2> QED
      BY <1>0, <2>1, <2>2 DEF RunState, Contents
  <1>4. R.pc = "stage" /\ R.file = run[r].file /\ R.build = builds + 1 /\ R.old = run[r].old
    BY <1>0 DEF RunState
  <1>5. /\ origin'[builds + 1] = OriginOf(r)
        /\ \A b \in 1 .. builds : origin'[b] = origin[b]
    <2>1. origin' = [origin EXCEPT ![builds + 1] = OriginOf(r)]
      BY DEF Build
    <2>2. DOMAIN origin = 1 .. MaxBuilds
      BY DEF Inv, TypeOK
    <2> QED
      BY <1>2, <2>1, <2>2
  <1>6. TypeOK'
    <2>1. origin' = [b \in 1 .. MaxBuilds |-> origin'[b]]
      BY DEF Inv, TypeOK, Build
    <2>2. run' \in [Runs -> RunState]
      BY <1>1, <1>3 DEF Inv, TypeOK
    <2>3. Torn .. builds \subseteq Torn .. builds'
      BY <1>2 DEF Torn
    <2> QED
      BY <1>2, <2>1, <2>2, <2>3 DEF Inv, TypeOK
  <1>7. OnlyOwn(r) /\ Stays(r)
    <2>1. \A s \in Runs : s # r => SameRun(s)
      BY <1>1 DEF SameRun, Inv, TypeOK
    <2>2. Stays(r)
      BY <1>3, <1>4 DEF Stays, Fetching
    <2> QED
      BY <1>2, <1>5, <2>1, <2>2 DEF OnlyOwn
  <1>8. manifest[File(r)] <= builds + 1
    BY <1>1, <1>2 DEF Inv, TypeOK, Torn
  <1>9. Summed(File(r)) => OriginOf(r).genuine
    BY <1>0 DEF RunInv, Genuine, OriginOf, Url
  <1>10. RunInv(r)'
    <2>1. File(r)' = File(r) /\ run'[r].pc = "stage" /\ run'[r].build = builds + 1
      BY <1>3, <1>4 DEF File
    <2>2. run'[r].old = <<>>
      BY <1>0, <1>3, <1>4 DEF RunInv, At
    <2>3. builds + 1 \in 1 .. builds'
      BY <1>2
    <2> QED
      BY <1>1, <1>2, <1>5, <1>8, <1>9, <2>1, <2>2, <2>3 DEF RunInv, At, OriginOf, Summed
  <1>11. PackedIsChecked' /\ NeverAhead' /\ OneVersionListed'
    BY <1>2, <1>5, ListedKept
  <1> QED
    BY <1>0, <1>6, <1>7, <1>10, <1>11, OthersKept, AloneKept DEF Inv
-----------------------------------------------------------------------------
\* A step after the build, that changes a file of the run's own recipe.
LEMMA OwnKeeps ==
  ASSUME Inv, NEW r \in Runs, ~At(r, "ended"), NEW R \in RunState,
         run' = [run EXCEPT ![r] = R],
         R.pc = "ended" \/ (R.file = run[r].file
           /\ R.pc \in {"copy", "list", "older", "tar", "describe", "write"}),
         NEW f \in Files, f[1] = Name(r), NEW x \in Torn .. builds,
         \/ stage' = [stage EXCEPT ![f] = x] /\ UNCHANGED out
         \/ tarball' = [tarball EXCEPT ![f] = x] /\ UNCHANGED <<stage, manifest>>
         \/ manifest' = [manifest EXCEPT ![f] = x] /\ UNCHANGED <<stage, tarball>>,
         UNCHANGED <<version, fetched, builds, origin>>,
         RunInv(r)', PackedIsChecked', NeverAhead', OneVersionListed'
  PROVE  Inv'
  <1> USE DEF out, fetched
  <1>1. TypeOK'
    BY DEF Inv, TypeOK
  <1>2. run'[r] = R /\ \A s \in Runs : s # r => run'[s] = run[s]
    BY DEF Inv, TypeOK
  <1>3. Stays(r)
    BY <1>2 DEF Stays, Fetching
  <1>4. OnlyOwn(r)
    BY <1>2 DEF OnlyOwn, SameRun, Inv, TypeOK
  <1>5. Alone'
    BY <1>3, <1>4, AloneKept
  <1>6. \A s \in Runs : RunInv(s)'
    BY <1>4, OthersKept
  <1> QED
    BY <1>1, <1>5, <1>6 DEF Inv

\* Other manifests to look at, and another tarball to remove, leave a run a run.
LEMMA ListRun ==
  ASSUME NEW x \in RunState, NEW todo \in SUBSET Files, NEW old \in Files \union {<<>>}
  PROVE  [x EXCEPT !.todo = todo, !.old = old] \in RunState
  BY DEF RunState

\* What a later step finds out about its run.
LEMMA AtStep ==
  ASSUME Inv, NEW r \in Runs, ~At(r, "ended")
  PROVE  /\ RunInv(r) /\ run[r] \in RunState /\ File(r) \in Files /\ File(r)[1] = Name(r)
         /\ builds \in Nat /\ Absent \in Torn .. builds /\ Torn \in Torn .. builds
         /\ \A f \in Files : {stage[f], tarball[f], manifest[f]} \subseteq Torn .. builds
  <1>1. builds \in Nat
    BY RecipeAssumption DEF Inv, TypeOK
  <1>2. RunInv(r) /\ run[r] \in RunState
    BY DEF Inv, TypeOK
  <1>3. File(r) \in Files /\ File(r)[1] = Name(r)
    BY <1>2, RecipeAssumption DEF RunInv, File, Name
  <1>4. \A f \in Files : {stage[f], tarball[f], manifest[f]} \subseteq Torn .. builds
    BY DEF Inv, TypeOK
  <1> QED
    BY <1>1, <1>2, <1>3, <1>4 DEF Absent, Torn

\* A run goes on to another step as it is.
LEMMA GoesOn ==
  ASSUME Inv, NEW r \in Runs, ~At(r, "ended"), NEW pc, Goto(r, pc),
         pc \in {"stage", "copy", "list", "older", "tar", "describe", "write"}
  PROVE  \E R \in RunState :
           /\ run' = [run EXCEPT ![r] = R] /\ run'[r] = R
           /\ R.pc = pc /\ R.file = run[r].file /\ R.src = run[r].src
           /\ R.build = run[r].build /\ R.todo = run[r].todo /\ R.old = run[r].old
  <1> DEFINE R == [run[r] EXCEPT !.pc = pc]
  <1>1. run \in [Runs -> RunState] /\ run[r] \in RunState
    BY DEF Inv, TypeOK
  <1>2. run' = [run EXCEPT ![r] = R]
    BY <1>1 DEF Goto
  <1>3. R \in RunState /\ run'[r] = R
    BY <1>1, <1>2 DEF RunState
  <1>4. /\ R.pc = pc /\ R.file = run[r].file /\ R.src = run[r].src
        /\ R.build = run[r].build /\ R.todo = run[r].todo /\ R.old = run[r].old
    BY <1>1 DEF RunState
  <1> QED
    BY <1>2, <1>3, <1>4

\* The staging root gets the build, which is no older than what is listed.
LEMMA StageKeeps ==
  ASSUME Inv, NEW r \in Runs, StageBegins(r) \/ StageEnds(r)
  PROVE  Inv'
  <1> USE DEF out
  <1>1. CASE StageBegins(r)
    <2>1. ~At(r, "ended") /\ Goto(r, "copy")
      BY <1>1 DEF StageBegins, At
    <2>2. PICK R \in RunState :
            /\ run' = [run EXCEPT ![r] = R] /\ run'[r] = R
            /\ R.pc = "copy" /\ R.file = run[r].file /\ R.src = run[r].src
            /\ R.build = run[r].build /\ R.old = run[r].old
      BY <2>1, GoesOn
    <2>3. RunInv(r)'
      <3>1. run[r].pc = "stage" /\ UNCHANGED <<tarball, manifest, builds, origin>>
        BY <1>1 DEF StageBegins, At
      <3>2. run'[r].old = <<>>
        BY <2>2, <3>1, AtStep, <2>1 DEF RunInv, At
      <3>3. File(r)' = File(r) /\ Name(r)' = Name(r)
        BY <2>2 DEF File, Name
      <3>4. /\ File(r) \in Files
            /\ run[r].build \in 1 .. builds /\ manifest[File(r)] <= run[r].build
            /\ origin[run[r].build].file = File(r)
            /\ Summed(File(r)) => origin[run[r].build].genuine
        BY <3>1, <2>1, AtStep DEF RunInv, At
      <3>5. /\ File(r)' \in Files
            /\ run'[r].build \in 1 .. builds' /\ manifest'[File(r)'] <= run'[r].build
            /\ origin'[run'[r].build].file = File(r)'
            /\ Summed(File(r)') => origin'[run'[r].build].genuine
        BY <2>2, <3>1, <3>3, <3>4
      <3>6. run'[r].pc = "copy"
        BY <2>2
      <3> QED
        BY <3>2, <3>3, <3>5, <3>6 DEF RunInv, At, Summed
    <2>4. PackedIsChecked' /\ OneVersionListed'
      BY <1>1 DEF StageBegins, Inv, PackedIsChecked, OneVersionListed, Summed
    <2>5. NeverAhead'
      BY <1>1, <2>1, AtStep DEF StageBegins, Inv, TypeOK, NeverAhead
    <2> QED
      BY <1>1, <2>1, <2>2, <2>3, <2>4, <2>5, AtStep, OwnKeeps DEF StageBegins
  <1>2. CASE StageEnds(r)
    <2>1. ~At(r, "ended") /\ Goto(r, "list")
      BY <1>2 DEF StageEnds, At
    <2>2. PICK R \in RunState :
            /\ run' = [run EXCEPT ![r] = R] /\ run'[r] = R
            /\ R.pc = "list" /\ R.file = run[r].file /\ R.src = run[r].src
            /\ R.build = run[r].build /\ R.old = run[r].old
      BY <2>1, GoesOn
    <2>3. run[r].build \in 1 .. builds /\ manifest[File(r)] <= run[r].build
      BY <1>2, <2>1, AtStep DEF StageEnds, At, RunInv
    <2>4. stage'[File(r)] = run[r].build
      BY <1>2, <2>1, AtStep DEF StageEnds, Inv, TypeOK
    <2>5. RunInv(r)'
      <3>1. run[r].pc = "copy" /\ UNCHANGED <<tarball, manifest, builds, origin>>
        BY <1>2 DEF StageEnds, At
      <3>2. run'[r].old = <<>>
        BY <2>2, <3>1, AtStep, <2>1 DEF RunInv, At
      <3>3. File(r)' = File(r) /\ Name(r)' = Name(r)
        BY <2>2 DEF File, Name
      <3>4. /\ File(r) \in Files
            /\ run[r].build \in 1 .. builds /\ manifest[File(r)] <= run[r].build
            /\ origin[run[r].build].file = File(r)
            /\ Summed(File(r)) => origin[run[r].build].genuine
        BY <3>1, <2>1, AtStep DEF RunInv, At
      <3>5. /\ File(r)' \in Files
            /\ run'[r].build \in 1 .. builds' /\ manifest'[File(r)'] <= run'[r].build
            /\ origin'[run'[r].build].file = File(r)'
            /\ Summed(File(r)') => origin'[run'[r].build].genuine
        BY <2>2, <3>1, <3>3, <3>4
      <3>6. run'[r].pc = "list"
        BY <2>2
      <3> QED
        BY <2>4, <3>2, <3>3, <3>5, <3>6, <2>2 DEF RunInv, At, Summed
    <2>6. PackedIsChecked' /\ OneVersionListed'
      BY <1>2 DEF StageEnds, Inv, PackedIsChecked, OneVersionListed, Summed
    <2>7. NeverAhead'
      BY <1>2, <2>1, <2>3, <2>4, AtStep DEF StageEnds, Inv, TypeOK, NeverAhead
    <2>8. run[r].build \in Torn .. builds
      BY <2>3 DEF Torn
    <2> QED
      BY <1>2, <2>1, <2>2, <2>5, <2>6, <2>7, <2>8, AtStep, OwnKeeps DEF StageEnds
  <1> QED
    BY <1>1, <1>2
-----------------------------------------------------------------------------
\* pack.

LEMMA ListKeeps ==
  ASSUME Inv, NEW r \in Runs, ListOut(r)
  PROVE  Inv'
  <1> DEFINE R == [run[r] EXCEPT !.pc = "older", !.todo = {f \in Files : manifest[f] # Absent}]
  <1>1. ~At(r, "ended") /\ At(r, "list") /\ run[r].pc = "list"
    BY DEF ListOut, At
  <1>2. run' = [run EXCEPT ![r] = R]
    BY DEF ListOut, Inv, TypeOK
  <1>3. run'[r] = R /\ R \in RunState
    <2>1. R \in RunState
      BY <1>1, AtStep DEF RunState
    <2> QED
      BY <1>1, <1>2, <2>1 DEF Inv, TypeOK
  <1>4. /\ R.pc = "older" /\ R.file = run[r].file /\ R.src = run[r].src
        /\ R.build = run[r].build /\ R.todo = {f \in Files : manifest[f] # Absent}
        /\ R.old = run[r].old
    BY <1>1, AtStep DEF RunState
  <1>5. \A g \in Same(r) : manifest[g] > 0 => g \in R.todo
    BY <1>4 DEF Same, Absent
  <1>6. RunInv(r)'
    <2>1. /\ File(r)' = File(r) /\ Name(r)' = Name(r) /\ Same(r)' = Same(r)
          /\ run'[r].pc = "older" /\ run'[r].src = run[r].src /\ run'[r].build = run[r].build
          /\ run'[r].old = run[r].old /\ run'[r].todo = R.todo
      BY <1>3, <1>4 DEF File, Name, Same
    <2>2. UNCHANGED <<stage, tarball, manifest, builds, origin>>
      BY DEF ListOut, kept, out
    <2> QED
      BY <1>1, <1>5, <2>1, <2>2, AtStep DEF RunInv, At, Summed
  <1>7. Stays(r)
    BY <1>3, <1>4 DEF Stays, Fetching
  <1> QED
    BY <1>1, <1>2, <1>3, <1>6, <1>7, SelfKeeps DEF ListOut

\* Another version goes, and what is left to look at becomes less.
LEMMA ReadKeeps ==
  ASSUME Inv, NEW r \in Runs, ReadManifest(r)
  PROVE  Inv'
  <1> USE DEF out
  <1>1. ~At(r, "ended") /\ run[r].pc = "older"
    BY DEF ReadManifest, At
  <1>2. PICK f \in run[r].todo :
          /\ manifest[f] # Absent
          /\ manifest' = IF Older(r, f) THEN [manifest EXCEPT ![f] = Absent] ELSE manifest
          /\ run' = [run EXCEPT ![r].todo = @ \ {f},
                                ![r].old = IF Older(r, f) THEN f ELSE <<>>]
    BY DEF ReadManifest
  <1> DEFINE R == [run[r] EXCEPT !.todo = @ \ {f}, !.old = IF Older(r, f) THEN f ELSE <<>>]
  <1>3. f \in Files
    BY <1>1, AtStep DEF RunState
  <1>4. run' = [run EXCEPT ![r] = R]
    BY <1>2 DEF Inv, TypeOK
  <1>5. run'[r] = R /\ R \in RunState
    <2>1. R \in RunState
      <3>1. run[r] \in RunState /\ run[r].todo \ {f} \in SUBSET Files
        BY <1>1, AtStep DEF RunState
      <3>2. (IF Older(r, f) THEN f ELSE <<>>) \in Files \union {<<>>}
        BY <1>3
      <3> QED
        BY <3>1, <3>2, ListRun
    <2> QED
      BY <1>1, <1>3, <1>4, <2>1 DEF Inv, TypeOK
  <1>6. /\ R.pc = "older" /\ R.file = run[r].file /\ R.src = run[r].src
        /\ R.build = run[r].build /\ R.todo = run[r].todo \ {f}
        /\ R.old = IF Older(r, f) THEN f ELSE <<>>
    BY <1>1, AtStep DEF RunState
  <1>7. \A g \in Same(r) : manifest[g] > 0 => g \in run[r].todo
    BY <1>1, AtStep DEF RunInv
  <1>8. CASE Older(r, f)
    <2>1. manifest' = [manifest EXCEPT ![f] = Absent] /\ f \in Same(r) /\ f # File(r)
      BY <1>2, <1>3, <1>8 DEF Older, Same
    <2>2. /\ manifest'[f] = Absent /\ R.old = f
          /\ \A g \in Files : g # f => manifest'[g] = manifest[g]
      BY <1>3, <1>6, <1>8, <2>1 DEF Inv, TypeOK
    <2>3. \A g \in Same(r) : manifest'[g] > 0 => g \in R.todo
      BY <1>6, <1>7, <2>2 DEF Same, Absent
    <2>4. /\ File(r)' = File(r) /\ Name(r)' = Name(r) /\ Same(r)' = Same(r)
          /\ run'[r].pc = "older" /\ manifest'[File(r)] = manifest[File(r)]
          /\ run'[r].src = run[r].src /\ run'[r].build = run[r].build
      BY <1>1, <1>5, <1>6, <2>1, <2>2, AtStep DEF File, Name, Same
    <2>5. UNCHANGED <<version, fetched, stage, tarball, builds, origin>>
      BY DEF ReadManifest
    <2>6. RunInv(r)'
      BY <1>1, <1>5, <2>1, <2>2, <2>3, <2>4, <2>5, AtStep DEF RunInv, At, Summed
    <2>7. \A g \in Files : manifest'[g] > 0 => manifest[g] > 0 /\ manifest'[g] = manifest[g]
      BY <2>2 DEF Absent
    <2>8. PackedIsChecked' /\ NeverAhead' /\ OneVersionListed'
      BY <2>5, <2>7 DEF Inv, PackedIsChecked, NeverAhead, OneVersionListed, Summed
    <2>9. f[1] = Name(r)
      BY <2>1 DEF Same
    <2> QED
      BY <1>1, <1>3, <1>4, <1>5, <1>6, <2>1, <2>5, <2>6, <2>8, <2>9, AtStep, OwnKeeps
  <1>9. CASE ~Older(r, f)
    <2>1. manifest' = manifest /\ R.old = <<>>
      BY <1>2, <1>6, <1>9
    <2>2. \A g \in Same(r) : manifest[g] > 0 => g # f
      BY <1>9 DEF Older, Same, Torn
    <2>3. \A g \in Same(r) : manifest[g] > 0 => g \in R.todo
      BY <1>6, <1>7, <2>2
    <2>4. /\ File(r)' = File(r) /\ Name(r)' = Name(r) /\ Same(r)' = Same(r)
          /\ run'[r].pc = "older"
          /\ run'[r].src = run[r].src /\ run'[r].build = run[r].build
      BY <1>1, <1>5, <1>6 DEF File, Name, Same
    <2>5. UNCHANGED <<version, fetched, stage, tarball, builds, origin>>
      BY DEF ReadManifest
    <2>6. RunInv(r)'
      BY <1>1, <1>5, <2>1, <2>3, <2>4, <2>5, AtStep DEF RunInv, At, Summed
    <2>7. Stays(r)
      BY <1>5, <1>6 DEF Stays, Fetching
    <2> QED
      BY <1>1, <1>4, <1>5, <2>1, <2>5, <2>6, <2>7, SelfKeeps DEF kept
  <1> QED
    BY <1>8, <1>9

\* A tarball goes whose manifest has gone.
LEMMA RemoveKeeps ==
  ASSUME Inv, NEW r \in Runs, RemoveTarball(r)
  PROVE  Inv'
  <1> USE DEF out
  <1> DEFINE R == [run[r] EXCEPT !.old = <<>>]
  <1> DEFINE f == run[r].old
  <1>1. ~At(r, "ended") /\ run[r].pc = "older" /\ f # <<>>
    BY DEF RemoveTarball, At
  <1>2. f \in Files /\ f[1] = Name(r) /\ manifest[f] = Absent
    BY <1>1, AtStep DEF RunInv, Same
  <1>3. run' = [run EXCEPT ![r] = R]
    BY DEF RemoveTarball, Inv, TypeOK
  <1>4. run'[r] = R /\ R \in RunState
    <2>1. R \in RunState
      <3>1. run[r] \in RunState /\ <<>> \in Files \union {<<>>}
        BY <1>1, AtStep
      <3> QED
        BY <3>1 DEF RunState
    <2> QED
      BY <1>1, <1>3, <2>1 DEF Inv, TypeOK
  <1>5. /\ R.pc = "older" /\ R.file = run[r].file /\ R.src = run[r].src
        /\ R.build = run[r].build /\ R.todo = run[r].todo /\ R.old = <<>>
    BY <1>1, AtStep DEF RunState
  <1>6. /\ tarball' = [tarball EXCEPT ![f] = Absent]
        /\ UNCHANGED <<version, fetched, stage, manifest, builds, origin>>
    BY DEF RemoveTarball
  <1>7. RunInv(r)'
    BY <1>1, <1>4, <1>5, <1>6, AtStep DEF RunInv, At, File, Name, Same, Summed
  <1>8. PackedIsChecked' /\ OneVersionListed'
    BY <1>6 DEF Inv, PackedIsChecked, OneVersionListed, Summed
  <1>9. NeverAhead'
    BY <1>2, <1>6 DEF Inv, TypeOK, NeverAhead, Absent
  <1> QED
    BY <1>1, <1>2, <1>3, <1>4, <1>5, <1>6, <1>7, <1>8, <1>9, AtStep, OwnKeeps

\* The tarball of this version is written once no other one is listed.
LEMMA TarKeeps ==
  ASSUME Inv, NEW r \in Runs, TarBegins(r) \/ TarEnds(r)
  PROVE  Inv'
  <1> USE DEF out
  <1>1. CASE TarBegins(r)
    <2>1. ~At(r, "ended") /\ run[r].pc = "older" /\ run[r].todo = {} /\ Goto(r, "tar")
          /\ run[r].old = <<>>
      BY <1>1 DEF TarBegins, At
    <2>2. PICK R \in RunState :
            /\ run' = [run EXCEPT ![r] = R] /\ run'[r] = R
            /\ R.pc = "tar" /\ R.file = run[r].file /\ R.src = run[r].src
            /\ R.build = run[r].build /\ R.old = run[r].old
      BY <2>1, GoesOn
    <2>3. UNCHANGED <<version, fetched, stage, manifest, builds, origin>>
          /\ tarball' = [tarball EXCEPT ![File(r)] = Torn]
      BY <1>1 DEF TarBegins
    <2>4. /\ File(r)' = File(r) /\ Name(r)' = Name(r) /\ Same(r)' = Same(r)
          /\ run'[r].pc = "tar" /\ run'[r].src = run[r].src /\ run'[r].build = run[r].build
          /\ run'[r].old = <<>>
      BY <2>1, <2>2 DEF File, Name, Same
    <2>5. \A g \in Same(r) : manifest[g] <= 0
      BY <2>1, AtStep DEF RunInv, Same, Torn
    <2>6. RunInv(r)'
      BY <2>1, <2>3, <2>4, <2>5, AtStep DEF RunInv, At, Summed
    <2>7. PackedIsChecked' /\ OneVersionListed'
      BY <2>3 DEF Inv, PackedIsChecked, OneVersionListed, Summed
    <2>8. NeverAhead'
      BY <2>1, <2>3, AtStep DEF Inv, TypeOK, NeverAhead
    <2> QED
      BY <2>1, <2>2, <2>3, <2>6, <2>7, <2>8, AtStep, OwnKeeps
  <1>2. CASE TarEnds(r)
    <2>1. ~At(r, "ended") /\ run[r].pc = "tar" /\ Goto(r, "describe")
      BY <1>2 DEF TarEnds, At
    <2>2. PICK R \in RunState :
            /\ run' = [run EXCEPT ![r] = R] /\ run'[r] = R
            /\ R.pc = "describe" /\ R.file = run[r].file /\ R.src = run[r].src
            /\ R.build = run[r].build /\ R.old = run[r].old
      BY <2>1, GoesOn
    <2>3. UNCHANGED <<version, fetched, stage, manifest, builds, origin>>
          /\ tarball' = [tarball EXCEPT ![File(r)] = run[r].build]
          /\ tarball'[File(r)] = run[r].build
      BY <1>2, <2>1, AtStep DEF TarEnds, Inv, TypeOK
    <2>4. run[r].old = <<>>
      BY <2>1, AtStep DEF RunInv, At
    <2>5. /\ File(r)' = File(r) /\ Name(r)' = Name(r) /\ Same(r)' = Same(r)
          /\ run'[r].pc = "describe" /\ run'[r].src = run[r].src
          /\ run'[r].build = run[r].build /\ run'[r].old = <<>>
      BY <2>2, <2>4 DEF File, Name, Same
    <2>6. run[r].build \in 1 .. builds /\ manifest[File(r)] <= run[r].build
      BY <2>1, AtStep DEF RunInv
    <2>7. RunInv(r)'
      BY <2>1, <2>3, <2>5, AtStep DEF RunInv, At, Summed
    <2>8. PackedIsChecked' /\ OneVersionListed'
      BY <2>3 DEF Inv, PackedIsChecked, OneVersionListed, Summed
    <2>9. NeverAhead'
      BY <2>1, <2>3, <2>6, AtStep DEF Inv, TypeOK, NeverAhead
    <2>10. run[r].build \in Torn .. builds
      BY <2>6 DEF Torn
    <2> QED
      BY <2>1, <2>2, <2>3, <2>7, <2>8, <2>9, <2>10, AtStep, OwnKeeps
  <1> QED
    BY <1>1, <1>2

\* The manifest comes last, when there is all that it describes.
LEMMA ManifestKeeps ==
  ASSUME Inv, NEW r \in Runs, ManifestBegins(r) \/ ManifestEnds(r)
  PROVE  Inv'
  <1> USE DEF out
  <1>1. CASE ManifestBegins(r)
    <2>1. ~At(r, "ended") /\ run[r].pc = "describe" /\ Goto(r, "write")
      BY <1>1 DEF ManifestBegins, At
    <2>2. PICK R \in RunState :
            /\ run' = [run EXCEPT ![r] = R] /\ run'[r] = R
            /\ R.pc = "write" /\ R.file = run[r].file /\ R.src = run[r].src
            /\ R.build = run[r].build /\ R.old = run[r].old
      BY <2>1, GoesOn
    <2>3. UNCHANGED <<version, fetched, stage, tarball, builds, origin>>
          /\ manifest' = [manifest EXCEPT ![File(r)] = Torn]
      BY <1>1 DEF ManifestBegins
    <2>4. run[r].old = <<>>
      BY <2>1, AtStep DEF RunInv, At
    <2>5. /\ File(r)' = File(r) /\ Name(r)' = Name(r) /\ Same(r)' = Same(r)
          /\ run'[r].pc = "write" /\ run'[r].src = run[r].src
          /\ run'[r].build = run[r].build /\ run'[r].old = <<>>
      BY <2>2, <2>4 DEF File, Name, Same
    <2>6. manifest'[File(r)] = Torn /\ \A g \in Files : g # File(r) => manifest'[g] = manifest[g]
      BY <2>1, <2>3, AtStep DEF Inv, TypeOK
    <2>7. manifest'[File(r)] <= run[r].build /\ \A g \in Same(r) : manifest'[g] <= 0
      BY <2>1, <2>6, AtStep DEF RunInv, Same, Torn
    <2>8. RunInv(r)'
      BY <2>1, <2>3, <2>5, <2>7, AtStep DEF RunInv, At, Summed
    <2>9. \A g \in Files : manifest'[g] > 0 => manifest[g] > 0 /\ manifest'[g] = manifest[g]
      BY <2>6 DEF Torn
    <2>10. PackedIsChecked' /\ NeverAhead' /\ OneVersionListed'
      BY <2>3, <2>9 DEF Inv, PackedIsChecked, NeverAhead, OneVersionListed, Summed
    <2> QED
      BY <2>1, <2>2, <2>3, <2>8, <2>10, AtStep, OwnKeeps
  <1>2. CASE ManifestEnds(r)
    <2> DEFINE f == File(r)
    <2>1. ~At(r, "ended") /\ run[r].pc = "write" /\ run' = [run EXCEPT ![r] = Ended]
      BY <1>2 DEF ManifestEnds, At
    <2>2. run'[r] = Ended /\ Ended \in RunState /\ Ended.pc = "ended" /\ Ended.old = <<>>
      BY <2>1 DEF Ended, RunState, Contents, Inv, TypeOK
    <2>3. UNCHANGED <<version, fetched, stage, tarball, builds, origin>>
          /\ manifest' = [manifest EXCEPT ![f] = run[r].build]
      BY <1>2 DEF ManifestEnds
    <2>4. f \in Files /\ f[1] = Name(r)
      BY <2>1, AtStep
    <2>5. /\ manifest'[f] = run[r].build
          /\ \A g \in Files : g # f => manifest'[g] = manifest[g]
      BY <2>3, <2>4 DEF Inv, TypeOK
    <2>6. /\ run[r].build \in 1 .. builds /\ stage[f] = run[r].build /\ tarball[f] = run[r].build
          /\ origin[run[r].build].file = f
          /\ Summed(f) => origin[run[r].build].genuine
          /\ \A g \in Same(r) : manifest[g] <= 0
      BY <2>1, AtStep DEF RunInv
    <2>7. RunInv(r)'
      BY <2>2 DEF RunInv, At
    <2>8. PackedIsChecked'
      BY <2>3, <2>4, <2>5, <2>6 DEF Inv, PackedIsChecked, Summed
    <2>9. NeverAhead'
      BY <2>3, <2>4, <2>5, <2>6 DEF Inv, NeverAhead
    <2>10. \A g \in Files : g # f /\ g[1] = f[1] => manifest'[g] <= 0
      BY <2>4, <2>5, <2>6 DEF Same
    <2>11. \A g \in Files : manifest'[g] \in Int
      BY <2>4, <2>5, <2>6 DEF Inv, TypeOK, Torn
    <2>12. OneVersionListed'
      BY <2>4, <2>5, <2>10, <2>11 DEF Inv, OneVersionListed
    <2>13. run[r].build \in Torn .. builds
      BY <2>6 DEF Torn
    <2> QED
      BY <2>1, <2>2, <2>3, <2>4, <2>7, <2>8, <2>9, <2>12, <2>13, OwnKeeps
  <1> QED
    BY <1>1, <1>2
-----------------------------------------------------------------------------
LEMMA BumpKeeps ==
  ASSUME Inv, NEW name \in Names, Bump(name)
  PROVE  Inv'
  <1>1. UNCHANGED <<dl, part, stage, tarball, manifest, builds, origin, run>>
    BY DEF Bump, fetched, out
  <1>2. version' \in [Names -> Nat] /\ \A n \in Names : <<n, version'[n]>> \in Files
    <2>1. /\ version \in [Names -> Nat] /\ \A n \in Names : <<n, version[n]>> \in Files
          /\ version' = [version EXCEPT ![name] = version[name] + 1]
          /\ <<name, version[name] + 1>> \in Files
      BY DEF Bump, Inv, TypeOK
    <2>2. version[name] + 1 \in Nat
      BY <2>1
    <2> QED
      BY <2>1, <2>2
  <1>3. TypeOK'
    BY <1>1, <1>2 DEF Inv, TypeOK
  <1>4. Alone' /\ \A r \in Runs : RunInv(r)'
    BY <1>1 DEF Inv, Alone, RunInv, At, Name, File, Same, Summed, Genuine, Fn, Local,
                Fetching, Sharing
  <1>5. PackedIsChecked' /\ NeverAhead' /\ OneVersionListed'
    BY <1>1, ListedKept
  <1> QED
    BY <1>3, <1>4, <1>5 DEF Inv

LEMMA InvStep == Inv /\ [Next]_vars => Inv'
  <1> SUFFICES ASSUME Inv, [Next]_vars PROVE Inv'
    OBVIOUS
  <1>1. CASE UNCHANGED vars
    <2>1. TypeOK' /\ PackedIsChecked' /\ NeverAhead' /\ OneVersionListed'
      BY <1>1, ListedKept DEF vars, Inv, TypeOK
    <2>2. Alone' /\ \A r \in Runs : RunInv(r)'
      BY <1>1 DEF vars, Inv, Alone, RunInv, At, Name, File, Same, Summed, Genuine, Fn, Local,
                  Fetching, Sharing
    <2> QED
      BY <2>1, <2>2 DEF Inv
  <1>2. ASSUME NEW r \in Runs, Fail(r) \/ NoPack(r) PROVE Inv'
    BY <1>2, FailKeeps DEF Fail, NoPack, At
  <1>3. ASSUME NEW r \in Runs, Pack(r) PROVE Inv'
    BY <1>2, <1>3, ListKeeps, ReadKeeps, RemoveKeeps, TarKeeps, ManifestKeeps DEF Pack
  <1> QED
    BY <1>1, <1>2, <1>3, StartKeeps, FetchKeeps, BuildKeeps, StageKeeps, BumpKeeps DEF Next

LEMMA InvAlways == Spec => []Inv
  BY InvInit, InvStep, PTL DEF Spec

\* What a manifest describes was built from that recipe and, where the recipe has
\* its sha256, from that archive: whatever other recipes and earlier runs left in
\* dl/, unless another run fetched to the same file name meanwhile.
THEOREM PackedIsAlwaysChecked == Spec => []PackedIsChecked
  <1>1. Inv => PackedIsChecked
    BY DEF Inv
  <1> QED
    BY <1>1, InvAlways, PTL

\* A manifest never describes more than out/ and the staging root have, at
\* whatever step runs die.
THEOREM ManifestNeverAhead == Spec => []NeverAhead
  <1>1. Inv => NeverAhead
    BY DEF Inv
  <1> QED
    BY <1>1, InvAlways, PTL

\* A recipe is listed in one version.
THEOREM OneVersionAlways == Spec => []OneVersionListed
  <1>1. Inv => OneVersionListed
    BY DEF Inv
  <1> QED
    BY <1>1, InvAlways, PTL
=============================================================================
