---------------------------- MODULE AcceptProofs ----------------------------
(***************************************************************************)
(* What holds of Accept for every set of runs, out/ directories, pull      *)
(* requests and packages, shared or not: first whatever runs meet, then    *)
(* while runs take turns, then while no two use one out/ at a time.        *)
(***************************************************************************)
EXTENDS Accept, SequenceTheorems, TLAPS

\* The two listings are files of their own, told apart from every tarball.
LEMMA AssetNames ==
  /\ INDEX \in Asset /\ SIG \in Asset /\ INDEX # SIG
  /\ INDEX \notin Files /\ SIG \notin Files
  /\ \A a \in Asset : a \in Files \/ a \in {INDEX, SIG}
<1>1. INDEX # SIG
  BY "INDEX" # "INDEX.sig" DEF INDEX, SIG
<1> QED
  BY <1>1, NameAssumption DEF Asset

\* Every record has a tarball's name ...
LEMMA FileOfType == \A r \in Record : FileOf(r) \in Files
BY FileAssumption DEF FileOf, Record

\* ... and so do the records of a listing, which are records.
LEMMA ListingType ==
  ASSUME NEW l \in Listing
  PROVE  /\ l = [records |-> l.records, twice |-> l.twice]
         /\ l.records \in SUBSET Record /\ l.twice \in SUBSET Names
BY DEF Listing

\* The elements of a sequence that grew at its end, or shrank at its front.
LEMMA AppendElements ==
  ASSUME NEW S, NEW s \in Seq(S), NEW e \in S
  PROVE  \A i \in 1..Len(Append(s, e)) :
           Append(s, e)[i] = e \/ (i \in 1..Len(s) /\ Append(s, e)[i] = s[i])
  <1>1. /\ Len(Append(s, e)) = Len(s) + 1 /\ Append(s, e)[Len(s) + 1] = e
        /\ \A i \in 1..Len(s) : Append(s, e)[i] = s[i]
    BY AppendProperties
  <1>2. Len(s) \in Nat
    BY LenProperties
  <1>3. \A i \in 1..Len(s) + 1 : i = Len(s) + 1 \/ i \in 1..Len(s)
    BY <1>2
  <1> QED
    BY <1>1, <1>3, Zenon

\* The elements of a sequence that INDEX and INDEX.sig were appended to (accept:141).
LEMMA PairElements ==
  ASSUME NEW S, NEW s \in Seq(S), NEW x \in S, NEW y \in S
  PROVE  /\ s \o <<x, y>> # <<>>
         /\ \A i \in 1..Len(s \o <<x, y>>) :
              \/ (s \o <<x, y>>)[i] \in {x, y}
              \/ i \in 1..Len(s) /\ (s \o <<x, y>>)[i] = s[i]
  <1>1. <<x, y>> \in Seq(S) /\ Len(<<x, y>>) = 2 /\ Len(s) \in Nat
    BY LenProperties
  <1>2. /\ Len(s \o <<x, y>>) = Len(s) + 2
        /\ \A i \in 1..Len(s) + 2 : (s \o <<x, y>>)[i] = IF i <= Len(s) THEN s[i] ELSE <<x, y>>[i - Len(s)]
    BY <1>1, ConcatProperties
  <1> QED
    BY <1>1, <1>2

\* The elements left when the first upload is done.
LEMMA TailElements ==
  ASSUME NEW S, NEW s \in Seq(S), s # <<>>
  PROVE  /\ Len(s) # 1 => Tail(s) # <<>>
         /\ \A i \in 1..Len(Tail(s)) : i + 1 \in 1..Len(s) /\ Tail(s)[i] = s[i + 1]
  <1>1. /\ Tail(s) \in Seq(S) /\ Len(Tail(s)) = Len(s) - 1
        /\ \A i \in 1..Len(Tail(s)) : Tail(s)[i] = s[i + 1]
    BY HeadTailProperties
  <1>2. Len(s) \in Nat
    BY LenProperties
  <1>3. Len(s) # 1 => Tail(s) # <<>>
    BY <1>1, <1>2
  <1>4. \A i \in 1..Len(s) - 1 : i + 1 \in 1..Len(s)
    BY <1>2
  <1> QED
    BY <1>1, <1>3, <1>4, Zenon

\* Replacing records by records gives records.
LEMMA ReplaceType ==
  ASSUME NEW S, NEW I \in SUBSET S, NEW R \in SUBSET S
  PROVE  Replace(I, R) \in SUBSET S
BY DEF Replace, Registry!Replace

\* A new listing is a listing.
LEMMA NewIndexType ==
  ASSUME NEW l \in Listing, NEW A \in SUBSET Record, NEW N \in SUBSET Names
  PROVE  NewIndex(l, A, N) \in Listing
  <1>1. Replace(l.records, A) \in SUBSET Record
    BY ListingType, ReplaceType
  <1>2. (l.twice \ NamesOf(A)) \cup N \in SUBSET Names
    BY ListingType
  <1> QED
    BY <1>1, <1>2 DEF NewIndex, Listing

\* The first attempt at an upload is one of those the script makes.
LEMMA FirstTry == 0 \in 0..MaxTries - 1
BY BoundAssumption

\* A run that dies has the state of a run that never began.
LEMMA IdleType == Idle \in RunState
  <1>1. Plain({}) \in Listing
    BY DEF Plain, Listing
  <1> QED
    BY <1>1, FirstTry DEF Idle, RunState

\* A run that ended is in its first state again.
LEMMA IdleRun ==
  ASSUME TypeOK, NEW p \in Runs, Die(p)
  PROVE  (run \in [Runs -> RunState])'
BY IdleType DEF TypeOK, Die, Becomes

\* The shell variables of a run, each with its type.
LEMMA RunOf ==
  ASSUME TypeOK, NEW p \in Runs
  PROVE  run[p] \in RunState
BY DEF TypeOK

\* What a run may become as it goes on.
LEMMA MovedType ==
  ASSUME NEW r \in RunState
  PROVE  /\ \A m \in Manifest \cup {None} : [r EXCEPT !.pc = "prompt", !.dir = m] \in RunState
         /\ \A l \in Listing : [r EXCEPT !.pc = "verify", !.cur = l] \in RunState
         /\ \A S \in SUBSET Files : [r EXCEPT !.pc = "copy", !.stale = S] \in RunState
         /\ \A f : [r EXCEPT !.stale = @ \ {f}] \in RunState
         /\ \A c \in {"prune", "clobber"}, t \in Seq(Asset), n \in 0..MaxTries - 1 :
              [r EXCEPT !.pc = c, !.todo = t, !.tries = n] \in RunState
         /\ \A D \in SUBSET Manifest, G \in SUBSET Names, A \in SUBSET Record, t \in Seq(Asset) :
              [r EXCEPT !.pc = "review", !.dirs = D, !.dir = None, !.again = G, !.acc = A,
                        !.todo = t] \in RunState
  <1> DEFINE T == Seq(Asset)
             M == Manifest
             P == PRs \cup {None}
             R == Record
             L == Listing
             N == 0..MaxTries - 1
  <1>1. RunState = [pc : {"idle", "fetch", "download", "verify", "review", "prompt", "copy", "sign",
                          "clobber", "put", "prune"},
                    pr : P, head : Nat, dirs : SUBSET M, dir : M \cup {None},
                    cur : L, acc : SUBSET R, again : SUBSET Names, todo : T,
                    stale : SUBSET Files, tries : N]
    BY DEF RunState
  <1> HIDE DEF T, M, P, R, L, N
  <1>2. ASSUME NEW m \in M \cup {None} PROVE [r EXCEPT !.pc = "prompt", !.dir = m] \in RunState
    BY <1>1
  <1>3. ASSUME NEW f PROVE [r EXCEPT !.stale = @ \ {f}] \in RunState
    BY <1>1
  <1>4. ASSUME NEW c \in {"prune", "clobber"}, NEW t \in T, NEW n \in N
        PROVE  [r EXCEPT !.pc = c, !.todo = t, !.tries = n] \in RunState
    BY <1>1
  <1>5. ASSUME NEW D \in SUBSET M, NEW G \in SUBSET Names, NEW A \in SUBSET R, NEW t \in T
        PROVE  [r EXCEPT !.pc = "review", !.dirs = D, !.dir = None, !.again = G, !.acc = A,
                         !.todo = t] \in RunState
    BY <1>1
  <1>6. ASSUME NEW l \in L PROVE [r EXCEPT !.pc = "verify", !.cur = l] \in RunState
    BY <1>1
  <1>7. ASSUME NEW S \in SUBSET Files PROVE [r EXCEPT !.pc = "copy", !.stale = S] \in RunState
    BY <1>1
  <1> QED
    BY <1>2, <1>3, <1>4, <1>5, <1>6, <1>7 DEF M, R, T, L, N

\* Only the run that steps changes its state.
LEMMA BecomesType ==
  ASSUME TypeOK, NEW p \in Runs, NEW r \in RunState, Becomes(p, r)
  PROVE  /\ (run \in [Runs -> RunState])'
         /\ run'[p] = r /\ \A q \in Runs \ {p} : run'[q] = run[q]
BY DEF TypeOK, Becomes

\* A store whose file a is written with what that file may hold is a store.
LEMMA StoreType ==
  ASSUME NEW s, IsStore(s), NEW a \in Asset, NEW x,
         a \in Files => x \in Blobs \cup {None},
         a \in {INDEX, SIG} => x \in Listing \cup {None}
  PROVE  IsStore([s EXCEPT ![a] = x])
BY AssetNames DEF IsStore

\* An out/ directory holds tarballs and listings.
LEMMA OutDirType ==
  ASSUME TypeOK, NEW p \in Runs
  PROVE  IsStore(OutDir(p))
BY OutAssumption DEF OutDir, TypeOK

\* All out/ directories keep their type when one of them changes.
LEMMA OutType ==
  ASSUME TypeOK, NEW o \in Outs, NEW s, IsStore(s), out' = [out EXCEPT ![o] = s]
  PROVE  (out = [d \in Outs |-> out[d]] /\ \A d \in Outs : IsStore(out[d]))'
  <1>1. out' = [d \in Outs |-> IF d = o THEN s ELSE out[d]]
    BY DEF TypeOK
  <1>2. \A d \in Outs : IsStore(out'[d])
    BY <1>1 DEF TypeOK
  <1> QED
    BY <1>1, <1>2 DEF IsStore

\* A step that writes one file of the run's directory.
Writes(p, a, x) == out' = [out EXCEPT ![OutOf[p]][a] = x]

LEMMA WriteOut ==
  ASSUME TypeOK, NEW p \in Runs, NEW a \in Asset, NEW x, Writes(p, a, x)
  PROVE  /\ out'[OutOf[p]][a] = x
         /\ \A o \in Outs : \A b \in Asset : out'[o][b] = out[o][b] \/ (o = OutOf[p] /\ b = a)
  <1>1. OutOf[p] \in Outs
    BY OutAssumption
  <1>2. out = [o \in Outs |-> out[o]] /\ OutDir(p) = [b \in Asset |-> OutDir(p)[b]]
    BY <1>1 DEF TypeOK, IsStore, OutDir
  <1>3. out'[OutOf[p]] = [OutDir(p) EXCEPT ![a] = x]
    BY <1>1, <1>2 DEF OutDir, Writes
  <1>4. \A o \in Outs : o # OutOf[p] => out'[o] = out[o]
    BY <1>2 DEF Writes
  <1>5. \A b \in Asset : [OutDir(p) EXCEPT ![a] = x][b] = IF b = a THEN x ELSE OutDir(p)[b]
    BY <1>2
  <1> QED
    BY <1>3, <1>4, <1>5 DEF OutDir

\* The initial states are well typed.
LEMMA TypeInit == Init => TypeOK
  <1> SUFFICES ASSUME Init PROVE TypeOK
    OBVIOUS
  <1>1. run \in [Runs -> RunState]
    BY IdleType DEF Init
  <1>2. IsStore(live)
    <2>1. \A f \in Files : live[f] \in Blobs \cup {None}
      BY AssetNames, Index0Assumption DEF Init, Record, Asset
    <2>2. live[INDEX] \in Listing /\ live[SIG] \in Listing
      BY AssetNames, Index0Assumption DEF Init, Plain, Listing
    <2> QED
      BY <2>1, <2>2 DEF IsStore, Init
  <1>3. out = [o \in Outs |-> out[o]] /\ \A o \in Outs : IsStore(out[o])
    BY AssetNames, Out0Assumption DEF Init, IsStore, Asset
  <1>4. /\ pulls \in [PRs -> [state : {"OPEN", "CLOSED"}, head : Nat \ {0}]]
        /\ \A q \in PRs : pulls[q].head <= Len(Heads[q])
    BY HeadAssumption DEF Init
  <1> QED
    BY <1>1, <1>2, <1>3, <1>4, Index0Assumption, Out0Assumption DEF Init, TypeOK

\* The package at the prompt is one of the pinned head.
LEMMA PinnedType ==
  ASSUME TypeOK, ReviewedInv, NEW p \in Runs, run[p].pc \in {"prompt", "copy"}
  PROVE  /\ run[p].dir \in Manifest /\ run[p].dir # None
         /\ Pinned(p)[run[p].dir].man \in Record /\ Pinned(p)[run[p].dir].blob \in Blobs
         /\ FileOf(Pinned(p)[run[p].dir].man) \in Files
         /\ Pinned(p)[run[p].dir].man.name \in Names
  <1>1. run[p].pr \in PRs /\ run[p].head \in 1..Len(Heads[run[p].pr])
    BY DEF ReviewedInv, RunReviewed
  <1>2. run[p].dir \in DOMAIN Pinned(p)
    BY DEF ReviewedInv, RunReviewed
  <1>3. IsHead(Pinned(p))
    BY <1>1, HeadAssumption DEF Pinned
  <1> QED
    BY <1>2, <1>3, FileOfType, NoneAssumption DEF IsHead, Record

\* A run that uploads has something left to upload.
LEMMA NextUpload ==
  ASSUME TypeOK, ReviewedInv, NEW p \in Runs, run[p].pc \in {"clobber", "put"}
  PROVE  /\ run[p].todo \in Seq(Asset) /\ run[p].todo # <<>>
         /\ Head(run[p].todo) \in Asset /\ Tail(run[p].todo) \in Seq(Asset)
  <1>1. run[p].todo \in Seq(Asset) /\ run[p].todo # <<>>
    BY RunOf DEF RunState, ReviewedInv, RunReviewed
  <1> QED
    BY <1>1

\* A run goes on with the rest of its uploads, or to what it will prune.
LEMMA PutType ==
  ASSUME TypeOK, ReviewedInv, NEW p \in Runs, Store(p)
  PROVE  [run[p] EXCEPT !.pc = IF Len(run[p].todo) = 1 THEN "prune" ELSE "clobber",
                        !.todo = Tail(@), !.tries = 0] \in RunState
  <1>1. Tail(run[p].todo) \in Seq(Asset) /\ run[p] \in RunState
    BY NextUpload, RunOf DEF Store
  <1>2. PICK c \in {"prune", "clobber"} : c = IF Len(run[p].todo) = 1 THEN "prune" ELSE "clobber"
    OBVIOUS
  <1>3. [run[p] EXCEPT !.pc = c, !.todo = Tail(run[p].todo), !.tries = 0] \in RunState
    BY <1>1, FirstTry, MovedType
  <1> QED
    BY <1>2, <1>3

\* What reaches the release has the type of what is in out/.
LEMMA StoredType ==
  ASSUME TypeOK, ReviewedInv, NEW p \in Runs, Store(p)
  PROVE  /\ IsStore(live')
         /\ served' \subseteq Record /\ promised' \subseteq Record
         /\ torn' \subseteq Files /\ doubled' \subseteq Names
  <1> DEFINE a == Head(run[p].todo)
             l == [live EXCEPT ![a] = OutDir(p)[a]]
  <1>1. a \in Asset
    BY NextUpload DEF Store
  <1>2. IsStore(OutDir(p))
    BY OutAssumption DEF OutDir, TypeOK
  <1>3. IsStore(l)
    <2>1. IsStore(live)
      BY DEF TypeOK
    <2>2. a \in Files => OutDir(p)[a] \in Blobs \cup {None}
      BY <1>2 DEF IsStore
    <2>3. a \in {INDEX, SIG} => OutDir(p)[a] \in Listing \cup {None}
      BY <1>2 DEF IsStore
    <2> QED
      BY <1>1, <2>1, <2>2, <2>3, StoreType
  <1>4. l[INDEX] # None => l[INDEX].records \subseteq Record /\ l[INDEX].twice \subseteq Names
    BY <1>3, ListingType DEF IsStore
  <1> QED
    BY <1>3, <1>4 DEF Store, TypeOK, Verifies

\* A failed upload leaves the run well typed, whether it retries or gives up.
LEMMA RetryType ==
  ASSUME TypeOK, NEW p \in Runs, Retry(p)
  PROVE  (run \in [Runs -> RunState])'
  <1>1. run[p].tries \in 0..MaxTries - 1
    BY RunOf DEF RunState
  <1>2. CASE run[p].tries + 1 >= MaxTries
    BY <1>2, IdleRun, BecomesType DEF Retry
  <1>3. CASE ~(run[p].tries + 1 >= MaxTries)
    <2>1. run[p].tries + 1 \in 0..MaxTries - 1
      BY <1>1, <1>3, BoundAssumption
    <2>2. [run[p] EXCEPT !.pc = "clobber", !.tries = @ + 1] \in RunState
      BY <2>1, RunOf DEF RunState
    <2> QED
      BY <1>3, <2>2, BecomesType DEF Retry
  <1> QED
    BY <1>2, <1>3

\* Every step keeps the type invariant.  What is pinned and confirmed is needed
\* for Fetch, Confirm and Copy, and that something is left to upload for Put.
LEMMA TypeStep == TypeOK /\ ReviewedInv /\ [Next]_vars => TypeOK'
  <1> SUFFICES ASSUME TypeOK, ReviewedInv, [Next]_vars PROVE TypeOK'
    OBVIOUS
  <1> DEFINE Rest == UNCHANGED <<pulls, live, out, mans, reviewed, served, promised, torn, doubled>>
  <1>b. ASSUME (run \in [Runs -> RunState])', Rest, faults' \in Nat, crashes' \in Nat
        PROVE  TypeOK'
    BY <1>b DEF TypeOK, IsStore
  <1>a. ASSUME (run \in [Runs -> RunState])', Rest, UNCHANGED <<faults, crashes>>
        PROVE  TypeOK'
    BY <1>a, <1>b DEF TypeOK
  <1>1. ASSUME NEW p \in Runs, NEW q \in PRs, Start(p, q) PROVE TypeOK'
    <2>1. DOMAIN Submitted(q) \subseteq Manifest
      BY HeadAssumption DEF TypeOK, Submitted, IsHead
    <2>2. [Idle EXCEPT !.pc = "fetch", !.pr = q, !.dirs = DOMAIN Submitted(q)] \in RunState
      BY <2>1, IdleType DEF RunState
    <2> QED
      BY <1>1, <1>a, <2>2, BecomesType DEF Start, release, store
  <1>2. ASSUME NEW p \in Runs, Fetch(p) PROVE TypeOK'
    <2>1. pulls[run[p].pr].head \in Nat
      BY <1>2 DEF Fetch, TypeOK, ReviewedInv, RunReviewed
    <2>2. [run[p] EXCEPT !.pc = "download", !.head = pulls[run[p].pr].head] \in RunState
      BY <2>1, RunOf DEF RunState
    <2> QED
      BY <1>2, <1>a, <2>2, BecomesType DEF Fetch, release, store
  <1>3. ASSUME NEW p \in Runs, Download(p) PROVE TypeOK'
    <2>1. CASE live[INDEX] # None
      <3>1. live[INDEX] \in Listing
        BY <2>1 DEF IsStore, TypeOK
      <3>2. [run[p] EXCEPT !.pc = "verify", !.cur = live[INDEX]] \in RunState
        BY <3>1, RunOf, MovedType
      <3> QED
        BY <1>3, <1>a, <2>1, <3>2, BecomesType DEF Download, release, store
    <2> QED
      BY <1>3, <1>a, <2>1, IdleRun DEF Download, release, store
  <1>4. ASSUME NEW p \in Runs, Verify(p) PROVE TypeOK'
    <2>1. [run[p] EXCEPT !.pc = "review"] \in RunState
      BY RunOf DEF RunState
    <2> QED
      BY <1>4, <1>a, <2>1, IdleRun, BecomesType DEF Verify, release, store
  <1>5. ASSUME NEW p \in Runs, Review(p) PROVE TypeOK'
    <2>1. run[p] \in RunState /\ \A m \in run[p].dirs : m \in Manifest \cup {None}
      BY RunOf DEF RunState
    <2>2. \A m \in run[p].dirs : [run[p] EXCEPT !.pc = "prompt", !.dir = m] \in RunState
      BY <2>1, MovedType
    <2> QED
      BY <1>5, <1>a, <2>2, IdleRun, BecomesType DEF Review, release, store
  <1>6. ASSUME NEW p \in Runs, Confirm(p) PROVE TypeOK'
    <2> DEFINE man == Pinned(p)[run[p].dir].man
               gone == {f \in Files : mans[OutOf[p]][f] = man.name}
               s == [a \in Asset |-> IF a \in gone THEN None ELSE OutDir(p)[a]]
               S == run[p].stale \cup Old(run[p].cur, man)
               r == [run[p] EXCEPT !.pc = "copy", !.stale = S]
    <2>1. S \in SUBSET Files
      <3>1. run[p].cur.records \in SUBSET Record /\ run[p].stale \in SUBSET Files
        BY RunOf, ListingType DEF RunState
      <3>2. Old(run[p].cur, man) \subseteq Files
        BY <3>1, FileOfType DEF Old, RecordsOf
      <3> QED
        BY <3>1, <3>2
    <2>2. r \in RunState
      BY <2>1, RunOf, MovedType
    <2>3. IsStore(s)
      <3>1. gone \subseteq Files
        OBVIOUS
      <3> HIDE DEF gone
      <3> QED
        BY <3>1, AssetNames, OutDirType DEF IsStore, Asset
    <2>4. man \in Record
      BY <1>6, PinnedType DEF Confirm
    <2>7. out' = [out EXCEPT ![OutOf[p]] = s]
      BY <1>6 DEF Confirm, OutDir
    <2>8. (mans \in [Outs -> [Files -> Names \cup {None}]])'
      <3>1. mans[OutOf[p]] \in [Files -> Names \cup {None}]
        BY OutAssumption DEF TypeOK
      <3>2. [f \in Files |-> IF f \in gone THEN None ELSE mans[OutOf[p]][f]]
              \in [Files -> Names \cup {None}]
        BY <3>1
      <3> QED
        BY <1>6, <3>2 DEF Confirm, TypeOK
    <2>9. Becomes(p, r)
      BY <1>6 DEF Confirm
    <2> HIDE DEF s, r
    <2>5. (out = [o \in Outs |-> out[o]] /\ \A o \in Outs : IsStore(out[o]))'
      BY <2>7, <2>3, OutType, OutAssumption
    <2>6. (run \in [Runs -> RunState])'
      BY <2>9, <2>2, BecomesType
    <2> QED
      BY <1>6, <2>4, <2>5, <2>6, <2>8 DEF Confirm, TypeOK, release, IsStore
  <1>7. ASSUME NEW p \in Runs, Copy(p) PROVE TypeOK'
    <2> DEFINE h == Pinned(p)[run[p].dir]
               f == FileOf(h.man)
               r == [run[p] EXCEPT !.pc = "review", !.dirs = @ \ {run[p].dir}, !.dir = None,
                                   !.again = @ \cup ({h.man.name} \cap NamesOf(run[p].acc)),
                                   !.acc = Replace(@, {h.man}), !.todo = Append(@, f)]
    <2>1. /\ f \in Files /\ f \in Asset /\ h.man \in Record /\ h.blob \in Blobs
          /\ h.man.name \in Names
      BY <1>7, PinnedType DEF Copy, Asset
    <2>2. r \in RunState
      <3>1. Replace(run[p].acc, {h.man}) \in SUBSET Record
        BY <2>1, ReplaceType, RunOf DEF RunState
      <3>2. Append(run[p].todo, f) \in Seq(Asset)
        BY <2>1, RunOf DEF RunState
      <3>3. run[p].dirs \ {run[p].dir} \in SUBSET Manifest
        BY RunOf DEF RunState
      <3>4. run[p].again \cup ({h.man.name} \cap NamesOf(run[p].acc)) \in SUBSET Names
        BY <2>1, RunOf DEF RunState
      <3> QED
        BY <3>1, <3>2, <3>3, <3>4, RunOf, MovedType
    <2>3. IsStore([out[OutOf[p]] EXCEPT ![f] = h.blob])
      BY <2>1, AssetNames, StoreType, OutAssumption DEF TypeOK
    <2>6. (mans \in [Outs -> [Files -> Names \cup {None}]])'
      BY <1>7, <2>1, OutAssumption DEF Copy, TypeOK
    <2>7. out' = [out EXCEPT ![OutOf[p]][f] = h.blob] /\ Becomes(p, r)
      BY <1>7 DEF Copy
    <2> HIDE DEF r, h, f
    <2>4. (out = [o \in Outs |-> out[o]] /\ \A o \in Outs : IsStore(out[o]))'
      BY <2>7, <2>3, OutType, OutAssumption
    <2>5. (run \in [Runs -> RunState])'
      BY <2>7, <2>2, BecomesType
    <2> QED
      BY <1>7, <2>4, <2>5, <2>6 DEF Copy, TypeOK, release, IsStore
  <1>8. ASSUME NEW p \in Runs, Decline(p) PROVE TypeOK'
    BY <1>8, <1>a, IdleRun DEF Decline, release, store
  <1>9. ASSUME NEW p \in Runs, Build(p) PROVE TypeOK'
    <2>1. [run[p] EXCEPT !.pc = "sign"] \in RunState
      BY RunOf DEF RunState
    <2>2. NewIndex(run[p].cur, run[p].acc, run[p].again) \in Listing
      BY NewIndexType, RunOf DEF RunState
    <2>3. IsStore([out[OutOf[p]] EXCEPT ![INDEX] = NewIndex(run[p].cur, run[p].acc, run[p].again)])
      BY <2>2, AssetNames, StoreType, OutAssumption DEF TypeOK
    <2>4. (out = [o \in Outs |-> out[o]] /\ \A o \in Outs : IsStore(out[o]))'
      BY <1>9, <2>3, OutType, OutAssumption DEF Build
    <2>5. (run \in [Runs -> RunState])'
      BY <1>9, <2>1, BecomesType DEF Build
    <2> QED
      BY <1>9, <2>4, <2>5 DEF Build, TypeOK, release, IsStore
  <1>10. ASSUME NEW p \in Runs, Sign(p) PROVE TypeOK'
    <2>a. run[p].todo \in Seq(Asset) /\ <<INDEX, SIG>> \in Seq(Asset)
      BY AssetNames, RunOf DEF RunState
    <2>b. run[p].todo \o <<INDEX, SIG>> \in Seq(Asset)
      BY <2>a
    <2>1. [run[p] EXCEPT !.pc = "clobber", !.todo = @ \o <<INDEX, SIG>>] \in RunState
      BY <2>b, RunOf DEF RunState
    <2>c. OutDir(p)[INDEX] \in Listing \cup {None}
      BY OutDirType DEF IsStore
    <2>2. IsStore([OutDir(p) EXCEPT ![SIG] = OutDir(p)[INDEX]])
      BY <2>c, AssetNames, StoreType, OutDirType
    <2>3. (out = [o \in Outs |-> out[o]] /\ \A o \in Outs : IsStore(out[o]))'
      BY <1>10, <2>2, OutType, OutAssumption DEF Sign, OutDir
    <2>4. (run \in [Runs -> RunState])'
      BY <1>10, <2>1, BecomesType DEF Sign
    <2> QED
      BY <1>10, <2>3, <2>4 DEF Sign, TypeOK, release, IsStore
  <1>11. ASSUME NEW p \in Runs, Clobber(p) PROVE TypeOK'
    <2>1. [run[p] EXCEPT !.pc = "put"] \in RunState
      BY RunOf DEF RunState
    <2>2. Head(run[p].todo) \in Asset
      BY <1>11, NextUpload DEF Clobber
    <2>3. IsStore([live EXCEPT ![Head(run[p].todo)] = None])
      BY <2>2, StoreType DEF TypeOK
    <2>4. (run \in [Runs -> RunState])'
      BY <1>11, <2>1, BecomesType DEF Clobber
    <2> QED
      BY <1>11, <2>3, <2>4 DEF Clobber, TypeOK, IsStore, store
  <1>12. ASSUME NEW p \in Runs, Put(p) PROVE TypeOK'
    <2>1. [run[p] EXCEPT !.pc = IF Len(run[p].todo) = 1 THEN "prune" ELSE "clobber",
                         !.todo = Tail(@), !.tries = 0] \in RunState
      BY <1>12, PutType DEF Put
    <2>2. (run \in [Runs -> RunState])'
      BY <1>12, <2>1, BecomesType DEF Put
    <2> QED
      BY <1>12, <2>2, StoredType DEF Put, TypeOK, IsStore, store
  <1>13. ASSUME NEW p \in Runs, UploadFails(p) PROVE TypeOK'
    <2>1. faults' \in Nat /\ crashes' \in Nat
      BY <1>13 DEF UploadFails, TypeOK
    <2> QED
      BY <1>13, <1>b, <2>1, RetryType DEF UploadFails, release, store
  <1>14. ASSUME NEW p \in Runs, ReplyLost(p) PROVE TypeOK'
    <2>1. faults' \in Nat
      BY <1>14 DEF ReplyLost, TypeOK
    <2>2. (run \in [Runs -> RunState])'
      BY <1>14, RetryType DEF ReplyLost
    <2>3. /\ IsStore(live')
          /\ served' \subseteq Record /\ promised' \subseteq Record
          /\ torn' \subseteq Files /\ doubled' \subseteq Names
      BY <1>14, StoredType DEF ReplyLost
    <2> QED
      BY <1>14, <2>1, <2>2, <2>3 DEF ReplyLost, TypeOK, IsStore, store
  <1>15. ASSUME NEW p \in Runs, Prune(p) PROVE TypeOK'
    <2> PICK f \in run[p].stale : /\ Becomes(p, [run[p] EXCEPT !.stale = @ \ {f}])
                                  /\ live' \in {live, [live EXCEPT ![f] = None]}
      BY <1>15 DEF Prune
    <2>1. f \in Asset
      BY RunOf DEF RunState, Asset
    <2>2. [run[p] EXCEPT !.stale = @ \ {f}] \in RunState
      BY RunOf, MovedType
    <2>3. IsStore([live EXCEPT ![f] = None])
      BY <2>1, StoreType DEF TypeOK
    <2>4. IsStore(live')
      BY <2>3 DEF TypeOK
    <2>5. (run \in [Runs -> RunState])'
      BY <2>2, BecomesType
    <2> QED
      BY <1>15, <2>4, <2>5 DEF Prune, TypeOK, IsStore, store
  <1>16. ASSUME NEW p \in Runs, Close(p) PROVE TypeOK'
    <2>1. Replace(promised, run[p].acc) \in SUBSET Record
      <3>1. run[p].acc \in SUBSET Record
        BY RunOf DEF RunState
      <3> QED
        BY <3>1, ReplaceType DEF TypeOK
    <2>2. run[p].pr \in PRs
      BY <1>16 DEF Close, ReviewedInv, RunReviewed
    <2>3. /\ (pulls \in [PRs -> [state : {"OPEN", "CLOSED"}, head : Nat \ {0}]])'
          /\ (\A q \in PRs : pulls[q].head <= Len(Heads[q]))'
      BY <1>16, <2>2 DEF Close, TypeOK
    <2> QED
      BY <1>16, <2>1, <2>3, IdleRun DEF Close, TypeOK, IsStore, store
  <1>17. ASSUME NEW p \in Runs, CloseFails(p) PROVE TypeOK'
    <2>1. faults' \in Nat /\ crashes' \in Nat
      BY <1>17 DEF CloseFails, TypeOK
    <2> QED
      BY <1>17, <1>b, <2>1, IdleRun DEF CloseFails, release, store
  <1>18. ASSUME NEW p \in Runs, Crash(p) PROVE TypeOK'
    <2>1. faults' \in Nat /\ crashes' \in Nat
      BY <1>18 DEF Crash, TypeOK
    <2> QED
      BY <1>18, <1>b, <2>1, IdleRun DEF Crash, release, store
  <1>19. ASSUME NEW q \in PRs, Push(q) PROVE TypeOK'
    <2>1. /\ (pulls \in [PRs -> [state : {"OPEN", "CLOSED"}, head : Nat \ {0}]])'
          /\ (\A i \in PRs : pulls[i].head <= Len(Heads[i]))'
      <3>1. pulls[q] \in [state : {"OPEN", "CLOSED"}, head : Nat \ {0}]
        BY DEF TypeOK
      <3>2. pulls[q].head + 1 \in Nat \ {0} /\ pulls[q].head + 1 <= Len(Heads[q])
        BY <1>19, <3>1, HeadAssumption DEF Push
      <3> QED
        BY <1>19, <3>1, <3>2 DEF Push, TypeOK
    <2> QED
      BY <1>19, <2>1 DEF Push, TypeOK, release, IsStore, store
  <1>20. CASE UNCHANGED vars
    BY <1>20, <1>a DEF vars, TypeOK
  <1> QED
    BY <1>1, <1>2, <1>3, <1>4, <1>5, <1>6, <1>7, <1>8, <1>9, <1>10, <1>11, <1>12, <1>13,
       <1>14, <1>15, <1>16, <1>17, <1>18, <1>19, <1>20 DEF Next, Step, Proceed

\* The records confirmed only grow, so what was backed by them in the release ...
LEMMA SameRelease ==
  ASSUME ReviewedInv, UNCHANGED live, reviewed \subseteq reviewed'
  PROVE  (ListsReviewed(live) /\ \A f \in Files : Backed(live, f))'
BY DEF ReviewedInv, ListsReviewed, Backed

\* ... and in out/ stays so.
LEMMA SameOut ==
  ASSUME ReviewedInv, UNCHANGED out, reviewed \subseteq reviewed'
  PROVE  /\ \A o \in Outs, f \in Files : Backed(out[o], f) => Backed(out[o], f)'
         /\ (\A o \in Outs : ListsReviewed(out[o]))'
BY DEF ReviewedInv, ListsReviewed, Backed

\* A step of run p keeps the invariant when it keeps it for p, for the release and
\* for the directories: the other runs' files stay backed where p wrote too.
LEMMA ReviewedKept ==
  ASSUME TypeOK, ReviewedInv, NEW p \in Runs, \A q \in Runs \ {p} : run'[q] = run[q],
         RunReviewed(p)', reviewed \subseteq reviewed',
         \A o \in Outs, f \in Files : Backed(out[o], f) => Backed(out[o], f)',
         (\A o \in Outs : ListsReviewed(out[o]))',
         (ListsReviewed(live) /\ \A f \in Files : Backed(live, f))'
  PROVE  ReviewedInv'
  <1>1. ASSUME NEW q \in Runs, q # p PROVE RunReviewed(q)'
    <2>1. run'[q] = run[q] /\ OutOf[q] \in Outs
      BY <1>1, OutAssumption
    <2>2. RunReviewed(q)
      BY DEF ReviewedInv
    <2>3. \A i \in 1..Len(run[q].todo) : run[q].todo[i] \in Files => Backed(OutDir(q), run[q].todo[i])'
      BY <2>1, <2>2 DEF RunReviewed, OutDir
    <2> QED
      BY <2>1, <2>2, <2>3 DEF RunReviewed, Pinned
  <1> QED
    BY <1>1 DEF ReviewedInv

\* A step of one run that changes neither release nor out/ keeps the invariant.
LEMMA KeptByRun ==
  ASSUME TypeOK, ReviewedInv, NEW p \in Runs, NEW r \in RunState, Becomes(p, r),
         RunReviewed(p)', UNCHANGED <<live, out, reviewed>>
  PROVE  ReviewedInv'
  <1>1. \A q \in Runs \ {p} : run'[q] = run[q]
    BY BecomesType
  <1> QED
    BY <1>1, SameRelease, SameOut, ReviewedKept

\* A run that dies owes nothing.
LEMMA KeptByDeath ==
  ASSUME TypeOK, ReviewedInv, NEW p \in Runs, Die(p), UNCHANGED <<live, out, reviewed>>
  PROVE  ReviewedInv'
  <1>1. run'[p] = Idle
    BY BecomesType, IdleType DEF Die
  <1>2. RunReviewed(p)'
    BY <1>1 DEF RunReviewed, Idle, Plain
  <1> QED
    BY <1>2, IdleType, KeptByRun DEF Die

\* At the start everything listed counts as reviewed.
LEMMA ReviewedInit == Init => ReviewedInv
  <1> SUFFICES ASSUME Init PROVE ReviewedInv
    OBVIOUS
  <1>1. ASSUME NEW p \in Runs PROVE RunReviewed(p)
    BY DEF Init, RunReviewed, Idle, Plain
  <1>2. \A o \in Outs : ListsReviewed(out[o])
    BY AssetNames DEF Init, ListsReviewed
  <1>3. ListsReviewed(live)
    BY AssetNames DEF Init, ListsReviewed, Plain
  <1>4. ASSUME NEW f \in Files PROVE Backed(live, f)
    BY AssetNames DEF Init, Backed, Asset
  <1> QED
    BY <1>1, <1>2, <1>3, <1>4 DEF ReviewedInv

\* What reaches the release is what out/ had, which the invariant speaks of.
LEMMA StoredReviewed ==
  ASSUME TypeOK, ReviewedInv, NEW p \in Runs, Store(p), UNCHANGED <<out, reviewed>>
  PROVE  (ListsReviewed(live) /\ \A f \in Files : Backed(live, f))'
  <1> DEFINE a == Head(run[p].todo)
  <1>1. a \in Asset /\ a = run[p].todo[1] /\ 1 \in 1..Len(run[p].todo)
    BY NextUpload DEF Store
  <1>2. live' = [live EXCEPT ![a] = OutDir(p)[a]] /\ live = [x \in Asset |-> live[x]]
    BY DEF Store, TypeOK, IsStore
  <1>3. a \in Files => Backed(OutDir(p), a)
    BY <1>1 DEF ReviewedInv, RunReviewed
  <1>4. ListsReviewed(OutDir(p))
    BY OutAssumption DEF ReviewedInv, OutDir
  <1> HIDE DEF a
  <1>5. ASSUME NEW f \in Files PROVE Backed(live, f)'
    BY <1>1, <1>2, <1>3 DEF Backed, ReviewedInv, Asset
  <1>6. ListsReviewed(live)'
    BY <1>1, <1>2, <1>4, AssetNames DEF ListsReviewed, ReviewedInv
  <1> QED
    BY <1>5, <1>6

\* The rest of the uploads is as backed as all of them were.
LEMMA RetryReviewed ==
  ASSUME TypeOK, ReviewedInv, NEW p \in Runs, Retry(p), run[p].pc \in {"clobber", "put"},
         UNCHANGED <<out, reviewed>>
  PROVE  RunReviewed(p)' /\ \A q \in Runs \ {p} : run'[q] = run[q]
  <1>1. CASE run[p].tries + 1 >= MaxTries
    <2>0. Die(p)
      BY <1>1 DEF Retry
    <2>1. run'[p] = Idle /\ \A q \in Runs \ {p} : run'[q] = run[q]
      BY <2>0, BecomesType, IdleType DEF Die
    <2> QED
      BY <2>1 DEF RunReviewed, Idle, Plain
  <1>2. CASE ~(run[p].tries + 1 >= MaxTries)
    <2>0. Becomes(p, [run[p] EXCEPT !.pc = "clobber", !.tries = @ + 1])
      BY <1>2 DEF Retry
    <2>1. run[p].tries + 1 \in 0..MaxTries - 1
      <3>1. run[p].tries \in 0..MaxTries - 1
        BY RunOf DEF RunState
      <3> QED
        BY <1>2, <3>1, BoundAssumption
    <2>2. PICK r \in RunState : r = [run[p] EXCEPT !.pc = "clobber", !.tries = @ + 1]
      BY <2>1, RunOf DEF RunState
    <2>3. /\ r.pc = "clobber" /\ r.pr = run[p].pr /\ r.head = run[p].head
          /\ r.todo = run[p].todo /\ r.cur = run[p].cur /\ r.acc = run[p].acc
      BY <2>2, RunOf DEF RunState
    <2>4. run'[p] = r /\ \A q \in Runs \ {p} : run'[q] = run[q]
      BY <2>0, <2>2, BecomesType
    <2>5. RunReviewed(p)
      BY DEF ReviewedInv
    <2>6. \A i \in 1..Len(r.todo) : r.todo[i] \in Files => Backed(OutDir(p), r.todo[i])'
      BY <2>3, <2>5 DEF RunReviewed, Backed, OutDir
    <2> QED
      BY <2>3, <2>4, <2>5, <2>6, NextUpload DEF RunReviewed
  <1> QED
    BY <1>1, <1>2

\* Every step keeps ReviewedInv.
LEMMA ReviewedStep == TypeOK /\ ReviewedInv /\ [Next]_vars => ReviewedInv'
  <1> SUFFICES ASSUME TypeOK, ReviewedInv, [Next]_vars PROVE ReviewedInv'
    OBVIOUS
  <1>1. ASSUME NEW p \in Runs, NEW q \in PRs, Start(p, q) PROVE ReviewedInv'
    <2>1. DOMAIN Submitted(q) \subseteq Manifest
      BY HeadAssumption DEF TypeOK, Submitted, IsHead
    <2>2. PICK r \in RunState :
            r = [Idle EXCEPT !.pc = "fetch", !.pr = q, !.dirs = DOMAIN Submitted(q)]
      BY <2>1, IdleType DEF RunState
    <2>3. r.pc = "fetch" /\ r.pr = q /\ r.todo = <<>> /\ r.cur.records = {} /\ r.acc = {}
      BY <2>2 DEF Idle, Plain
    <2>4. Becomes(p, r)
      BY <1>1, <2>2 DEF Start
    <2>5. RunReviewed(p)'
      BY <2>3, <2>4, BecomesType DEF RunReviewed
    <2> QED
      BY <1>1, <2>4, <2>5, KeptByRun DEF Start, release, store
  <1>2. ASSUME NEW p \in Runs, Fetch(p) PROVE ReviewedInv'
    <2>1. RunReviewed(p) /\ run[p].pr \in PRs
      BY <1>2 DEF ReviewedInv, RunReviewed, Fetch
    <2>2. pulls[run[p].pr].head \in Nat /\ pulls[run[p].pr].head \in 1..Len(Heads[run[p].pr])
      BY <2>1, HeadAssumption DEF TypeOK
    <2>3. PICK r \in RunState :
            r = [run[p] EXCEPT !.pc = "download", !.head = pulls[run[p].pr].head]
      BY <2>2, RunOf DEF RunState
    <2>4. /\ r.pc = "download" /\ r.pr = run[p].pr /\ r.head = pulls[run[p].pr].head
          /\ r.todo = run[p].todo /\ r.cur = run[p].cur /\ r.acc = run[p].acc
      BY <2>3, RunOf DEF RunState
    <2>5. Becomes(p, r)
      BY <1>2, <2>3 DEF Fetch
    <2>6. run'[p] = r /\ UNCHANGED <<out, reviewed>> /\ run[p].pc = "fetch"
      BY <1>2, <2>5, BecomesType DEF Fetch, store
    <2>7. RunReviewed(p)'
      <3>1. \A i \in 1..Len(r.todo) : r.todo[i] \in Files => Backed(OutDir(p), r.todo[i])'
        BY <2>1, <2>4, <2>6 DEF RunReviewed, Backed, OutDir
      <3> QED
        BY <2>1, <2>2, <2>4, <2>6, <3>1 DEF RunReviewed
    <2> QED
      BY <1>2, <2>5, <2>7, KeptByRun DEF Fetch, release, store
  <1>3. ASSUME NEW p \in Runs, Download(p) PROVE ReviewedInv'
    <2>1. CASE Die(p)
      BY <1>3, <2>1, KeptByDeath DEF Download, release, store
    <2>2. CASE live[INDEX] # None /\ Becomes(p, [run[p] EXCEPT !.pc = "verify", !.cur = live[INDEX]])
      <3>1. live[INDEX] \in Listing /\ live[INDEX].records \subseteq reviewed
        BY <2>2 DEF IsStore, TypeOK, ReviewedInv, ListsReviewed
      <3>2. PICK r \in RunState : r = [run[p] EXCEPT !.pc = "verify", !.cur = live[INDEX]]
        BY <3>1, RunOf, MovedType
      <3>3. /\ r.pc = "verify" /\ r.pr = run[p].pr /\ r.head = run[p].head
            /\ r.todo = run[p].todo /\ r.cur = live[INDEX] /\ r.acc = run[p].acc
        BY <3>2, RunOf DEF RunState
      <3>4. RunReviewed(p)
        BY DEF ReviewedInv
      <3>5. run'[p] = r /\ UNCHANGED <<out, reviewed>> /\ run[p].pc = "download"
        BY <1>3, <2>2, <3>2, BecomesType DEF Download, store
      <3>6. RunReviewed(p)'
        BY <3>1, <3>3, <3>4, <3>5 DEF RunReviewed, Backed, OutDir
      <3> QED
        BY <1>3, <2>2, <3>2, <3>6, KeptByRun DEF Download, release, store
    <2> QED
      BY <1>3, <2>1, <2>2 DEF Download
  <1>4. ASSUME NEW p \in Runs, Verify(p) PROVE ReviewedInv'
    <2>1. CASE Die(p)
      BY <1>4, <2>1, KeptByDeath DEF Verify, release, store
    <2>2. CASE Becomes(p, [run[p] EXCEPT !.pc = "review"])
      <3>1. PICK r \in RunState : r = [run[p] EXCEPT !.pc = "review"]
        BY RunOf DEF RunState
      <3>2. /\ r.pc = "review" /\ r.pr = run[p].pr /\ r.head = run[p].head
            /\ r.todo = run[p].todo /\ r.cur = run[p].cur /\ r.acc = run[p].acc
        BY <3>1, RunOf DEF RunState
      <3>3. RunReviewed(p)
        BY DEF ReviewedInv
      <3>4. run'[p] = r /\ UNCHANGED <<out, reviewed>> /\ run[p].pc = "verify"
        BY <1>4, <2>2, <3>1, BecomesType DEF Verify, store
      <3>5. RunReviewed(p)'
        BY <3>2, <3>3, <3>4 DEF RunReviewed, Backed, OutDir
      <3> QED
        BY <1>4, <2>2, <3>1, <3>5, KeptByRun DEF Verify, release, store
    <2> QED
      BY <1>4, <2>1, <2>2 DEF Verify
  <1>5. ASSUME NEW p \in Runs, Review(p) PROVE ReviewedInv'
    <2>1. CASE Die(p)
      BY <1>5, <2>1, KeptByDeath DEF Review, release, store
    <2>2. ASSUME NEW d \in run[p].dirs, Passes(p, d),
                 Becomes(p, [run[p] EXCEPT !.pc = "prompt", !.dir = d])
          PROVE  ReviewedInv'
      <3>1. PICK r \in RunState : r = [run[p] EXCEPT !.pc = "prompt", !.dir = d]
        BY RunOf DEF RunState
      <3>2. /\ r.pc = "prompt" /\ r.pr = run[p].pr /\ r.head = run[p].head /\ r.dir = d
            /\ r.todo = run[p].todo /\ r.cur = run[p].cur /\ r.acc = run[p].acc
        BY <3>1, RunOf DEF RunState
      <3>3. RunReviewed(p) /\ run[p].pc = "review"
        BY <1>5 DEF ReviewedInv, Review
      <3>4. /\ d \in DOMAIN Pinned(p)
            /\ Pinned(p)[d].man.sha = Pinned(p)[d].blob
        BY <2>2 DEF Passes
      <3>5. run'[p] = r /\ UNCHANGED <<out, reviewed>>
        BY <1>5, <2>2, <3>1, BecomesType DEF Review, store
      <3>6. RunReviewed(p)'
        <4>1. \A i \in 1..Len(r.todo) : r.todo[i] \in Files => Backed(OutDir(p), r.todo[i])'
          BY <3>2, <3>3, <3>5 DEF RunReviewed, Backed, OutDir
        <4>2. Pinned(p)' = Pinned(p) /\ run'[p].pc = "prompt"
          BY <3>2, <3>5 DEF Pinned
        <4> QED
          BY <3>2, <3>3, <3>4, <3>5, <4>1, <4>2 DEF RunReviewed
      <3> QED
        BY <1>5, <2>2, <3>1, <3>6, KeptByRun DEF Review, release, store
    <2> QED
      BY <1>5, <2>1, <2>2 DEF Review
  <1>6. ASSUME NEW p \in Runs, Confirm(p) PROVE ReviewedInv'
    <2> DEFINE m == run[p].dir
               S == run[p].stale \cup Old(run[p].cur, Pinned(p)[m].man)
    <2>1. RunReviewed(p) /\ S \in SUBSET Files
      <3>1. run[p].cur.records \in SUBSET Record /\ run[p].stale \in SUBSET Files
        BY RunOf, ListingType DEF RunState
      <3>2. Old(run[p].cur, Pinned(p)[m].man) \subseteq Files
        BY <3>1, FileOfType DEF Old, RecordsOf
      <3> QED
        BY <3>1, <3>2 DEF ReviewedInv
    <2>2. PICK r \in RunState : r = [run[p] EXCEPT !.pc = "copy", !.stale = S]
      BY <2>1, RunOf, MovedType
    <2>3. /\ r.pc = "copy" /\ r.pr = run[p].pr /\ r.head = run[p].head /\ r.dir = m
          /\ r.todo = run[p].todo /\ r.cur = run[p].cur /\ r.acc = run[p].acc
      BY <2>2, RunOf DEF RunState
    <2>4. Becomes(p, r)
      BY <1>6, <2>2 DEF Confirm
    <2>5. run'[p] = r /\ \A q \in Runs \ {p} : run'[q] = run[q]
      BY <2>4, BecomesType
    <2>6. \A o \in Outs : \A a \in Asset : out'[o][a] = out[o][a] \/ out'[o][a] = None
      BY <1>6, OutAssumption DEF Confirm, TypeOK
    <2>0. reviewed \subseteq reviewed'
      BY <1>6 DEF Confirm
    <2>7. \A o \in Outs, f \in Files : Backed(out[o], f) => Backed(out[o], f)'
      BY <2>0, <2>6 DEF Backed, Asset
    <2>8. (\A o \in Outs : ListsReviewed(out[o]))'
      BY <2>0, <2>6, AssetNames DEF ListsReviewed, ReviewedInv
    <2>9. RunReviewed(p)'
      <3>1. Pinned(p)[m].man \in reviewed' /\ reviewed \subseteq reviewed'
        BY <1>6 DEF Confirm
      <3>2. \A i \in 1..Len(r.todo) : r.todo[i] \in Files => Backed(OutDir(p), r.todo[i])'
        BY <2>1, <2>3, <2>7, OutAssumption DEF RunReviewed, OutDir
      <3>3. r.cur.records \cup r.acc \subseteq reviewed'
        BY <2>1, <2>3, <3>1 DEF RunReviewed
      <3>4. m \in DOMAIN Pinned(p) /\ Pinned(p)[m].man.sha = Pinned(p)[m].blob
        BY <1>6, <2>1 DEF RunReviewed, Confirm
      <3>5. Pinned(p)' = Pinned(p) /\ run'[p].dir = m /\ run'[p].pc = "copy"
        BY <2>3, <2>5 DEF Pinned
      <3>6. r.pr \in PRs /\ r.head \in 1..Len(Heads[r.pr])
        BY <1>6, <2>1, <2>3 DEF RunReviewed, Confirm
      <3> HIDE DEF m
      <3> QED
        BY <2>3, <2>5, <3>1, <3>2, <3>3, <3>4, <3>5, <3>6 DEF RunReviewed
    <2> QED
      BY <1>6, <2>5, <2>7, <2>8, <2>9, SameRelease, ReviewedKept DEF Confirm, release
  <1>7. ASSUME NEW p \in Runs, Copy(p) PROVE ReviewedInv'
    <2> DEFINE d == run[p].dir
               m == Pinned(p)[d].man
               f == FileOf(m)
    <2>1. /\ RunReviewed(p) /\ f \in Files /\ m \in reviewed /\ m \in Record /\ m.name \in Names
          /\ m.sha = Pinned(p)[d].blob
      BY <1>7, PinnedType DEF ReviewedInv, RunReviewed, Copy
    <2>2. /\ Replace(run[p].acc, {m}) \in SUBSET Record
          /\ Replace(run[p].acc, {m}) \subseteq reviewed
      <3>1. m \in Record /\ run[p].acc \subseteq Record /\ run[p].acc \subseteq reviewed
        BY <1>7, <2>1, RunOf DEF RunState, RunReviewed, Copy
      <3> QED
        BY <2>1, <3>1, ReplaceType
    <2>3. run[p].todo \in Seq(Asset) /\ Append(run[p].todo, f) \in Seq(Asset)
      BY <2>1, RunOf DEF RunState, Asset
    <2>4. PICK r \in RunState :
            r = [run[p] EXCEPT !.pc = "review", !.dirs = @ \ {d}, !.dir = None,
                               !.again = @ \cup ({m.name} \cap NamesOf(run[p].acc)),
                               !.acc = Replace(@, {m}), !.todo = Append(@, f)]
      <3>1. run[p].dirs \ {d} \in SUBSET Manifest
        BY RunOf DEF RunState
      <3>2. run[p].again \cup ({m.name} \cap NamesOf(run[p].acc)) \in SUBSET Names
        BY <2>1, RunOf DEF RunState
      <3> DEFINE x == [run[p] EXCEPT !.pc = "review", !.dirs = @ \ {d}, !.dir = None,
                                     !.again = @ \cup ({m.name} \cap NamesOf(run[p].acc)),
                                     !.acc = Replace(@, {m}), !.todo = Append(@, f)]
      <3>3. x \in RunState
        BY <2>2, <2>3, <3>1, <3>2, RunOf, MovedType
      <3> HIDE DEF x
      <3>4. PICK r \in RunState : r = x
        BY <3>3
      <3> QED
        BY <3>4 DEF x
    <2>5. /\ r.pc = "review" /\ r.pr = run[p].pr /\ r.head = run[p].head
          /\ r.cur = run[p].cur /\ r.acc = Replace(run[p].acc, {m}) /\ r.todo = Append(run[p].todo, f)
      <3> HIDE DEF d, m, f
      <3>1. run[p] \in RunState
        BY RunOf
      <3>2. PICK D, G, A, t : /\ D = run[p].dirs \ {d} /\ t = Append(run[p].todo, f)
                              /\ G = run[p].again \cup ({m.name} \cap NamesOf(run[p].acc))
                              /\ A = Replace(run[p].acc, {m})
        OBVIOUS
      <3>3. r = [run[p] EXCEPT !.pc = "review", !.dirs = D, !.dir = None, !.again = G, !.acc = A,
                               !.todo = t]
        BY <2>4, <3>1, <3>2 DEF RunState
      <3> QED
        BY <3>1, <3>2, <3>3 DEF RunState
    <2>6. Becomes(p, r)
      BY <1>7, <2>4 DEF Copy
    <2>7. run'[p] = r /\ \A q \in Runs \ {p} : run'[q] = run[q]
      BY <2>6, BecomesType
    <2>8. /\ out'[OutOf[p]][f] = m.sha
          /\ \A o \in Outs : \A a \in Asset : out'[o][a] = out[o][a] \/ (o = OutOf[p] /\ a = f)
      <3>1. f \in Asset /\ Writes(p, f, m.sha)
        BY <1>7, <2>1 DEF Copy, Asset, Writes
      <3> HIDE DEF d, m, f
      <3> QED
        BY <3>1, WriteOut
    <2>12. UNCHANGED reviewed
      BY <1>7 DEF Copy
    <2>13. FileOf(m) = f
      OBVIOUS
    <2> HIDE DEF f, m
    <2>9. \A o \in Outs, g \in Files : Backed(out[o], g) \/ (o = OutOf[p] /\ g = f) => Backed(out[o], g)'
      BY <2>1, <2>8, <2>12, <2>13 DEF Backed, Asset
    <2>10. (\A o \in Outs : ListsReviewed(out[o]))'
      BY <2>1, <2>8, <2>12, AssetNames DEF ListsReviewed, ReviewedInv
    <2>11. RunReviewed(p)'
      <3>1. \A i \in 1..Len(r.todo) :
              r.todo[i] = f \/ (i \in 1..Len(run[p].todo) /\ r.todo[i] = run[p].todo[i])
        BY <2>1, <2>3, <2>5, AppendElements DEF Asset
      <3>2. \A i \in 1..Len(r.todo) : r.todo[i] \in Files => Backed(OutDir(p), r.todo[i])'
        BY <2>1, <2>9, <3>1, OutAssumption DEF RunReviewed, OutDir
      <3>3. r.pr \in PRs /\ r.head \in 1..Len(Heads[r.pr])
        BY <1>7, <2>1, <2>5 DEF RunReviewed, Copy
      <3>4. r.cur.records \cup r.acc \subseteq reviewed
        BY <2>1, <2>2, <2>5 DEF RunReviewed
      <3> QED
        BY <2>5, <2>7, <2>12, <3>2, <3>3, <3>4 DEF RunReviewed
    <2> QED
      BY <1>7, <2>7, <2>9, <2>10, <2>11, <2>12, SameRelease, ReviewedKept DEF Copy, release
  <1>8. ASSUME NEW p \in Runs, Decline(p) PROVE ReviewedInv'
    BY <1>8, KeptByDeath DEF Decline, release, store
  <1>9. ASSUME NEW p \in Runs, Build(p) PROVE ReviewedInv'
    <2>1. RunReviewed(p) /\ NewIndex(run[p].cur, run[p].acc, run[p].again).records \subseteq reviewed
      BY ReplaceType DEF ReviewedInv, RunReviewed, NewIndex
    <2>2. PICK r \in RunState : r = [run[p] EXCEPT !.pc = "sign"]
      BY RunOf DEF RunState
    <2>3. /\ r.pc = "sign" /\ r.pr = run[p].pr /\ r.head = run[p].head
          /\ r.todo = run[p].todo /\ r.cur = run[p].cur /\ r.acc = run[p].acc
      BY <2>2, RunOf DEF RunState
    <2>4. run'[p] = r /\ \A q \in Runs \ {p} : run'[q] = run[q]
      BY <1>9, <2>2, BecomesType DEF Build
    <2>5. /\ out'[OutOf[p]][INDEX] = NewIndex(run[p].cur, run[p].acc, run[p].again)
          /\ \A o \in Outs : \A a \in Asset : out'[o][a] = out[o][a] \/ (o = OutOf[p] /\ a = INDEX)
      <3>1. INDEX \in Asset
        BY AssetNames
      <3>2. PICK I : I = NewIndex(run[p].cur, run[p].acc, run[p].again)
        OBVIOUS
      <3>3. Writes(p, INDEX, I)
        BY <1>9, <3>2 DEF Build, Writes
      <3>4. /\ out'[OutOf[p]][INDEX] = I
            /\ \A o \in Outs : \A a \in Asset : out'[o][a] = out[o][a] \/ (o = OutOf[p] /\ a = INDEX)
        BY <3>1, <3>3, WriteOut
      <3> QED
        BY <3>2, <3>4
    <2>6. \A o \in Outs, f \in Files : Backed(out[o], f) => Backed(out[o], f)'
      BY <1>9, <2>5, AssetNames DEF Backed, Build, Asset
    <2>7. (\A o \in Outs : ListsReviewed(out[o]))'
      BY <1>9, <2>1, <2>5, AssetNames DEF ListsReviewed, ReviewedInv, Build
    <2>8. RunReviewed(p)'
      <3>1. \A i \in 1..Len(r.todo) : r.todo[i] \in Files => Backed(OutDir(p), r.todo[i])'
        BY <2>1, <2>3, <2>6, OutAssumption DEF RunReviewed, OutDir
      <3> QED
        BY <1>9, <2>1, <2>3, <2>4, <3>1 DEF RunReviewed, Build
    <2> QED
      BY <1>9, <2>4, <2>6, <2>7, <2>8, SameRelease, ReviewedKept DEF Build, release, store
  <1>10. ASSUME NEW p \in Runs, Sign(p) PROVE ReviewedInv'
    <2>1. RunReviewed(p) /\ ListsReviewed(OutDir(p))
      BY OutAssumption DEF ReviewedInv, OutDir
    <2>2. run[p].todo \in Seq(Asset) /\ <<INDEX, SIG>> \in Seq(Asset)
      BY AssetNames, RunOf DEF RunState
    <2>3. PICK t \in Seq(Asset) : t = run[p].todo \o <<INDEX, SIG>>
      BY <2>2, ConcatProperties
    <2>4. /\ t # <<>>
          /\ \A i \in 1..Len(t) : \/ t[i] \in {INDEX, SIG}
                                  \/ i \in 1..Len(run[p].todo) /\ t[i] = run[p].todo[i]
      BY <2>2, <2>3, AssetNames, PairElements
    <2>5. PICK r \in RunState : r = [run[p] EXCEPT !.pc = "clobber", !.todo = @ \o <<INDEX, SIG>>]
      BY <2>3, RunOf DEF RunState
    <2>6. /\ r.pc = "clobber" /\ r.pr = run[p].pr /\ r.head = run[p].head
          /\ r.todo = t /\ r.cur = run[p].cur /\ r.acc = run[p].acc
      BY <2>3, <2>5, RunOf DEF RunState
    <2>7. run'[p] = r /\ \A q \in Runs \ {p} : run'[q] = run[q]
      BY <1>10, <2>5, BecomesType DEF Sign
    <2>8. /\ out'[OutOf[p]][SIG] = OutDir(p)[INDEX]
          /\ \A o \in Outs : \A a \in Asset : out'[o][a] = out[o][a] \/ (o = OutOf[p] /\ a = SIG)
      <3>1. SIG \in Asset
        BY AssetNames
      <3>2. PICK I : I = OutDir(p)[INDEX]
        OBVIOUS
      <3>3. Writes(p, SIG, I)
        BY <1>10, <3>2 DEF Sign, Writes
      <3>4. /\ out'[OutOf[p]][SIG] = I
            /\ \A o \in Outs : \A a \in Asset : out'[o][a] = out[o][a] \/ (o = OutOf[p] /\ a = SIG)
        BY <3>1, <3>3, WriteOut
      <3> QED
        BY <3>2, <3>4
    <2>9. \A o \in Outs, f \in Files : Backed(out[o], f) => Backed(out[o], f)'
      BY <1>10, <2>8, AssetNames DEF Backed, Sign, Asset
    <2>10. (\A o \in Outs : ListsReviewed(out[o]))'
      BY <1>10, <2>1, <2>8, AssetNames DEF ListsReviewed, ReviewedInv, Sign
    <2>11. RunReviewed(p)'
      <3>1. \A i \in 1..Len(r.todo) : r.todo[i] \in Files => Backed(OutDir(p), r.todo[i])'
        BY <2>1, <2>4, <2>6, <2>9, AssetNames, OutAssumption DEF RunReviewed, OutDir
      <3> QED
        BY <1>10, <2>1, <2>4, <2>6, <2>7, <3>1 DEF RunReviewed, Sign
    <2> QED
      BY <1>10, <2>7, <2>9, <2>10, <2>11, SameRelease, ReviewedKept DEF Sign, release, store
  <1>11. ASSUME NEW p \in Runs, Clobber(p) PROVE ReviewedInv'
    <2>1. RunReviewed(p) /\ run[p].todo # <<>>
      BY <1>11, NextUpload DEF ReviewedInv, Clobber, store
    <2>2. PICK r \in RunState : r = [run[p] EXCEPT !.pc = "put"]
      BY RunOf DEF RunState
    <2>3. /\ r.pc = "put" /\ r.pr = run[p].pr /\ r.head = run[p].head
          /\ r.todo = run[p].todo /\ r.cur = run[p].cur /\ r.acc = run[p].acc
      BY <2>2, RunOf DEF RunState
    <2>4. run'[p] = r /\ \A q \in Runs \ {p} : run'[q] = run[q]
      BY <1>11, <2>2, BecomesType DEF Clobber, store
    <2>5. RunReviewed(p)'
      BY <1>11, <2>1, <2>3, <2>4 DEF RunReviewed, Backed, OutDir, Clobber, store
    <2>6. \A a \in Asset : live'[a] = live[a] \/ live'[a] = None
      BY <1>11 DEF Clobber, TypeOK, IsStore
    <2>7. (ListsReviewed(live) /\ \A f \in Files : Backed(live, f))'
      BY <1>11, <2>6, AssetNames DEF ListsReviewed, Backed, ReviewedInv, Clobber, Asset, store
    <2> QED
      BY <1>11, <2>4, <2>5, <2>7, SameOut, ReviewedKept DEF Clobber, store
  <1>12. ASSUME NEW p \in Runs, Put(p) PROVE ReviewedInv'
    <2>1. RunReviewed(p) /\ run[p].todo \in Seq(Asset) /\ run[p].todo # <<>>
      BY <1>12, NextUpload DEF ReviewedInv, Put, Store
    <2>2. PICK r \in RunState :
            r = [run[p] EXCEPT !.pc = IF Len(run[p].todo) = 1 THEN "prune" ELSE "clobber",
                               !.todo = Tail(@), !.tries = 0]
      BY <1>12, PutType DEF Put, store
    <2>3. /\ r.pc = (IF Len(run[p].todo) = 1 THEN "prune" ELSE "clobber")
          /\ r.pr = run[p].pr /\ r.head = run[p].head
          /\ r.todo = Tail(run[p].todo) /\ r.cur = run[p].cur /\ r.acc = run[p].acc
      BY <2>2, RunOf DEF RunState
    <2>4. run'[p] = r /\ \A q \in Runs \ {p} : run'[q] = run[q]
      BY <1>12, <2>2, BecomesType DEF Put, store
    <2>5. /\ r.pc = "clobber" => r.todo # <<>>
          /\ \A i \in 1..Len(r.todo) : i + 1 \in 1..Len(run[p].todo) /\ r.todo[i] = run[p].todo[i + 1]
      BY <2>1, <2>3, TailElements
    <2>6. \A i \in 1..Len(r.todo) : r.todo[i] \in Files => Backed(OutDir(p), r.todo[i])'
      BY <1>12, <2>1, <2>5 DEF RunReviewed, Backed, OutDir, Put, store
    <2>7. RunReviewed(p)'
      BY <1>12, <2>1, <2>3, <2>4, <2>5, <2>6 DEF RunReviewed, Put, Store
    <2> QED
      BY <1>12, <2>4, <2>7, StoredReviewed, SameOut, ReviewedKept DEF Put, store
  <1>13. ASSUME NEW p \in Runs, UploadFails(p) PROVE ReviewedInv'
    BY <1>13, RetryReviewed, SameOut, SameRelease, ReviewedKept DEF UploadFails, release, store
  <1>14. ASSUME NEW p \in Runs, ReplyLost(p) PROVE ReviewedInv'
    BY <1>14, RetryReviewed, StoredReviewed, SameOut, ReviewedKept DEF ReplyLost, store, Store
  <1>15. ASSUME NEW p \in Runs, Prune(p) PROVE ReviewedInv'
    <2>1. PICK f \in run[p].stale : /\ Becomes(p, [run[p] EXCEPT !.stale = @ \ {f}])
                                    /\ live' \in {live, [live EXCEPT ![f] = None]}
      BY <1>15 DEF Prune, store
    <2>2. PICK r \in RunState : r = [run[p] EXCEPT !.stale = @ \ {f}]
      BY RunOf, MovedType
    <2>3. /\ r.pc = run[p].pc /\ r.pr = run[p].pr /\ r.head = run[p].head
          /\ r.todo = run[p].todo /\ r.cur = run[p].cur /\ r.acc = run[p].acc
      BY <2>2, RunOf DEF RunState
    <2>4. run'[p] = r /\ \A q \in Runs \ {p} : run'[q] = run[q]
      BY <2>1, <2>2, BecomesType
    <2>5. RunReviewed(p)
      BY DEF ReviewedInv
    <2>6. RunReviewed(p)'
      BY <1>15, <2>3, <2>4, <2>5 DEF RunReviewed, Backed, OutDir, Prune, store
    <2>7. \A a \in Asset : live'[a] = live[a] \/ live'[a] = None
      BY <2>1 DEF TypeOK, IsStore
    <2>8. (ListsReviewed(live) /\ \A g \in Files : Backed(live, g))'
      BY <1>15, <2>7, AssetNames DEF ListsReviewed, Backed, ReviewedInv, Prune, Asset, store
    <2> QED
      BY <1>15, <2>4, <2>6, <2>8, SameOut, ReviewedKept DEF Prune, store
  <1>16. ASSUME NEW p \in Runs, Close(p) PROVE ReviewedInv'
    BY <1>16, KeptByDeath DEF Close, store
  <1>17. ASSUME NEW p \in Runs, CloseFails(p) PROVE ReviewedInv'
    BY <1>17, KeptByDeath DEF CloseFails, release, store
  <1>18. ASSUME NEW p \in Runs, Crash(p) PROVE ReviewedInv'
    BY <1>18, KeptByDeath DEF Crash, release, store
  <1>19. ASSUME UNCHANGED <<run, live, out, reviewed>> PROVE ReviewedInv'
    <2>1. ASSUME NEW p \in Runs PROVE RunReviewed(p)'
      <3>1. RunReviewed(p) /\ Pinned(p)' = Pinned(p)
        BY <1>19 DEF ReviewedInv, Pinned
      <3>2. \A i \in 1..Len(run[p].todo) : run[p].todo[i] \in Files => Backed(OutDir(p), run[p].todo[i])'
        BY <1>19, <3>1 DEF RunReviewed, Backed, OutDir
      <3> QED
        BY <1>19, <3>1, <3>2 DEF RunReviewed
    <2> QED
      BY <1>19, <2>1, SameOut, SameRelease DEF ReviewedInv
  <1>20. ASSUME NEW q \in PRs, Push(q) PROVE ReviewedInv'
    BY <1>19, <1>20 DEF Push, release, store
  <1>21. CASE UNCHANGED vars
    BY <1>19, <1>21 DEF vars
  <1> QED
    BY <1>1, <1>2, <1>3, <1>4, <1>5, <1>6, <1>7, <1>8, <1>9, <1>10, <1>11, <1>12, <1>13,
       <1>14, <1>15, <1>16, <1>17, <1>18, <1>20, <1>21 DEF Next, Step, Proceed

\* In every reachable state every variable has its type, whatever the runs, the
\* authors and GitHub do.
THEOREM TypeCorrect == Spec => []TypeOK
  <1>1. Init => TypeOK /\ ReviewedInv
    BY TypeInit, ReviewedInit
  <1>2. TypeOK /\ ReviewedInv /\ [Next]_vars => (TypeOK /\ ReviewedInv)'
    BY TypeStep, ReviewedStep
  <1> QED
    BY <1>1, <1>2, PTL DEF Spec

\* The invariant that carries it: what is pinned, checked and confirmed at three
\* different times stays what out/ and the release are filled from.
THEOREM ReviewedInvariant == Spec => []ReviewedInv
  <1>1. Init => TypeOK /\ ReviewedInv
    BY TypeInit, ReviewedInit
  <1>2. TypeOK /\ ReviewedInv /\ [Next]_vars => (TypeOK /\ ReviewedInv)'
    BY TypeStep, ReviewedStep
  <1> QED
    BY <1>1, <1>2, PTL DEF Spec

\* The release only ever lists, signs and holds what a maintainer confirmed: for
\* any number of concurrent runs, sharing an out/ directory or not, any pushes to
\* the pull requests and any failures and crashes.
THEOREM ReleaseIsReviewed == Spec => []OnlyReviewedReleased
  <1>1. ReviewedInv => OnlyReviewedReleased
    BY DEF ReviewedInv, ListsReviewed, Backed, OnlyReviewedReleased
  <1> QED
    BY <1>1, ReviewedInvariant, PTL
-----------------------------------------------------------------------------
\* The maintainers do not run the script at the same time.
TakeTurns == \A p, q \in Runs : run[p].pc # "idle" /\ run[q].pc # "idle" => p = q

\* The uploads a run has left, in any order.
Elements(s) == {s[i] : i \in 1..Len(s)}
Left(p) == Elements(run[p].todo)

FilesOf(R) == {FileOf(r) : r \in R}
NewListing(p) == NewIndex(run[p].cur, run[p].acc, run[p].again)

\* What may go wrong of a record's tarball, once and for all.
Excused(r) == Shared(FileOf(r)) \/ r.name \in doubled

\* A listing whose tarballs are in the release, or being uploaded over.
Whole(I) == \A r \in I : FileOf(r) \in torn \/ live[FileOf(r)] = r.sha \/ Excused(r)

\* What verifies is what was last published, whole, and has what was announced.
ReleaseInv ==
  /\ promised \subseteq served
  /\ Verifies(live) => /\ served = live[INDEX].records /\ Whole(served)
                       /\ live[INDEX].twice \subseteq doubled

\* The package of that name has left out/ and the new one is not there yet.
Asked(p) == Pinned(p)[run[p].dir].man
Replaced(p, n) == run[p].pc = "copy" /\ n = Asked(p).name

\* The tarball of a record accepted is in out/, with its manifest beside it.
Kept(p, r) == OutDir(p)[FileOf(r)] = r.sha /\ mans[OutOf[p]][FileOf(r)] = r.name

\* A file to prune is of a record downloaded that is replaced, and no record
\* accepted of that name keeps it -- unless the name is, or will be, listed twice.
Dropped(p, g) ==
  \E s \in run[p].cur.records :
    /\ FileOf(s) = g
    /\ \/ s.name \in NamesOf(run[p].acc)
       \/ Replaced(p, s.name) /\ (g # FileOf(Asked(p)) \/ s.name \in run[p].cur.twice)
    /\ \A x \in run[p].acc : (x.name = s.name /\ FileOf(x) = g)
         => Replaced(p, s.name) \/ s.name \in run[p].again \cup run[p].cur.twice

\* What the run accepted: one record of a name, its tarball in out/.
Accepted(p) ==
  /\ \A r, s \in run[p].acc : r.name = s.name => r = s
  /\ \A r \in run[p].acc : Replaced(p, r.name) \/ Shared(FileOf(r)) \/ Kept(p, r)
  /\ \A g \in run[p].stale : Dropped(p, g)

\* Until the uploads begin the release is as it was downloaded.  The uploads are
\* the files of the records accepted and those another of its name has replaced since.
Gathered(p) ==
  /\ Verifies(live) /\ run[p].cur = live[INDEX]
  /\ Left(p) \subseteq Files /\ FilesOf(run[p].acc) \subseteq Left(p)
  /\ run[p].cur.twice \subseteq doubled

\* Tarballs first, then INDEX, then INDEX.sig.
Ordered(s) ==
  /\ Len(s) > 0 /\ s[Len(s)] = SIG
  /\ Len(s) > 1 => s[Len(s) - 1] = INDEX
  /\ \A i \in 1..Len(s) : i < Len(s) - 1 => s[i] \in Files

\* The pair is replaced after every tarball, INDEX first.
PairAsUploaded(p) ==
  LET n == Len(run[p].todo) IN
  /\ n > 2 => live[INDEX] = run[p].cur
  /\ n = 2 => live[INDEX] \in {run[p].cur, None, NewListing(p)}
  /\ n > 1 => live[SIG] = run[p].cur
  /\ n = 1 => live[INDEX] = NewListing(p) /\ live[SIG] \in {run[p].cur, None, NewListing(p)}

\* What is accepted is in the release or left to upload.
Uploading(p) ==
  /\ Ordered(run[p].todo)
  /\ OutDir(p)[INDEX] = NewListing(p) /\ OutDir(p)[SIG] = NewListing(p)
  /\ served \in {run[p].cur.records, NewListing(p).records} /\ Whole(served)
  /\ PairAsUploaded(p)
  /\ \A r \in run[p].acc : FileOf(r) \in Left(p) \/ live[FileOf(r)] = r.sha \/ Shared(FileOf(r))
  /\ run[p].cur.twice \subseteq doubled
  /\ run[p].pc = "put" /\ Head(run[p].todo) \in Files => Head(run[p].todo) \in torn

Pruning(p) ==
  /\ Verifies(live) /\ live[INDEX] = NewListing(p)
  /\ run[p].cur.twice \subseteq doubled

PublishInv(p) ==
  /\ run[p].pc \in {"idle", "fetch", "download", "verify"} =>
       run[p].acc = {} /\ run[p].stale = {} /\ run[p].todo = <<>>
  /\ run[p].pc = "verify" => live[INDEX] # None /\ run[p].cur = live[INDEX]
  /\ run[p].pc \in {"review", "prompt", "copy", "sign", "clobber", "put", "prune"} => Accepted(p)
  /\ run[p].pc \in {"review", "prompt", "copy", "sign"} => Gathered(p)
  /\ run[p].pc = "sign" => OutDir(p)[INDEX] = NewListing(p)
  /\ run[p].pc \in {"clobber", "put"} => Uploading(p)
  /\ run[p].pc = "prune" => Pruning(p)

OneInv == ReleaseInv /\ \A p \in Runs : PublishInv(p)

\* The elements of a sequence of uploads as it grows at its end ...
LEMMA ElementsAppend ==
  ASSUME NEW S, NEW s \in Seq(S), NEW e \in S
  PROVE  Elements(Append(s, e)) = Elements(s) \cup {e}
  <1>1. /\ Len(Append(s, e)) = Len(s) + 1 /\ Append(s, e)[Len(s) + 1] = e
        /\ \A i \in 1..Len(s) : Append(s, e)[i] = s[i]
    BY AppendProperties
  <1>2. Len(s) \in Nat
    BY LenProperties
  <1>3. \A i \in 1..Len(s) + 1 : i = Len(s) + 1 \/ i \in 1..Len(s)
    BY <1>2
  <1>4. Len(s) + 1 \in 1..Len(s) + 1 /\ \A i \in 1..Len(s) : i \in 1..Len(s) + 1
    BY <1>2
  <1>5. Elements(Append(s, e)) \subseteq Elements(s) \cup {e}
    BY <1>1, <1>3 DEF Elements
  <1>6. Elements(s) \subseteq Elements(Append(s, e))
    BY <1>1, <1>4 DEF Elements
  <1>7. e \in Elements(Append(s, e))
    BY <1>1, <1>4 DEF Elements
  <1> QED
    BY <1>5, <1>6, <1>7

\* ... and shrinks at its front.
LEMMA ElementsTail ==
  ASSUME NEW S, NEW s \in Seq(S), s # <<>>
  PROVE  Head(s) \in Elements(s) /\ Elements(s) = {Head(s)} \cup Elements(Tail(s))
  <1>1. /\ Tail(s) \in Seq(S) /\ Len(Tail(s)) = Len(s) - 1 /\ Head(s) = s[1]
        /\ \A i \in 1..Len(Tail(s)) : Tail(s)[i] = s[i + 1]
    BY HeadTailProperties
  <1>2. Len(s) \in Nat \ {0}
    BY LenProperties, EmptySeq
  <1>3. \A i \in 1..Len(s) - 1 : i + 1 \in 1..Len(s)
    BY <1>2
  <1>4. \A i \in 1..Len(s) : i = 1 \/ (i - 1 \in 1..Len(s) - 1 /\ (i - 1) + 1 = i)
    BY <1>2
  <1>5. 1 \in 1..Len(s)
    BY <1>2
  <1>6. Head(s) \in Elements(s)
    BY <1>1, <1>5 DEF Elements
  <1>7. Elements(Tail(s)) \subseteq Elements(s)
    BY <1>1, <1>3 DEF Elements
  <1>8. ASSUME NEW i \in 1..Len(s) PROVE s[i] = Head(s) \/ s[i] \in Elements(Tail(s))
    <2>1. CASE i = 1
      BY <1>1, <2>1
    <2>2. CASE i # 1
      <3>1. i - 1 \in 1..Len(Tail(s)) /\ Tail(s)[i - 1] = s[i]
        BY <1>1, <1>4, <2>2
      <3> QED
        BY <3>1 DEF Elements
    <2> QED
      BY <2>1, <2>2
  <1>9. Elements(s) \subseteq {Head(s)} \cup Elements(Tail(s))
    BY <1>8 DEF Elements
  <1> QED
    BY <1>6, <1>7, <1>9

\* Nothing is left of no uploads.
LEMMA ElementsEmpty == Elements(<<>>) = {}
BY DEF Elements

\* The tarballs followed by INDEX and INDEX.sig (accept:141).
LEMMA OrderedPair ==
  ASSUME NEW s \in Seq(Asset), Elements(s) \subseteq Files
  PROVE  /\ Ordered(s \o <<INDEX, SIG>>)
         /\ Elements(s) \subseteq Elements(s \o <<INDEX, SIG>>)
         /\ Len(s \o <<INDEX, SIG>>) # 1
  <1>1. <<INDEX, SIG>> \in Seq(Asset) /\ Len(<<INDEX, SIG>>) = 2 /\ Len(s) \in Nat
    BY AssetNames, LenProperties
  <1>2. /\ Len(s \o <<INDEX, SIG>>) = Len(s) + 2
        /\ \A i \in 1..Len(s) + 2 :
             (s \o <<INDEX, SIG>>)[i] = IF i <= Len(s) THEN s[i] ELSE <<INDEX, SIG>>[i - Len(s)]
    BY <1>1, ConcatProperties
  <1> DEFINE t == s \o <<INDEX, SIG>>
  <1> HIDE DEF t
  <1>3. Len(t) = Len(s) + 2 /\ \A i \in 1..Len(s) : t[i] = s[i]
    BY <1>1, <1>2 DEF t
  <1>4. t[Len(s) + 1] = INDEX /\ t[Len(s) + 2] = SIG
    BY <1>1, <1>2 DEF t
  <1>5. \A i \in 1..Len(s) : s[i] \in Files
    BY DEF Elements
  <1>6. \A i \in 1..Len(t) : i < Len(t) - 1 => i \in 1..Len(s)
    BY <1>1, <1>3
  <1>7. Len(t) - 1 = Len(s) + 1 /\ Len(t) > 1 /\ Len(t) # 1 /\ Len(t) > 0
    BY <1>1, <1>3
  <1>8. Ordered(t)
    BY <1>3, <1>4, <1>5, <1>6, <1>7 DEF Ordered
  <1>9. \A i \in 1..Len(s) : i \in 1..Len(t)
    BY <1>1, <1>3
  <1>10. Elements(s) \subseteq Elements(t)
    BY <1>3, <1>9 DEF Elements
  <1> QED
    BY <1>7, <1>8, <1>10 DEF t

\* What the next upload is, by how many are left.
LEMMA OrderedHead ==
  ASSUME NEW s \in Seq(Asset), Ordered(s)
  PROVE  /\ Len(s) \in Nat \ {0} /\ s # <<>>
         /\ Len(s) = 1 => Head(s) = SIG /\ Elements(s) = {SIG}
         /\ Len(s) = 2 => Head(s) = INDEX /\ Elements(s) = {INDEX, SIG}
         /\ Len(s) > 2 => Head(s) \in Files
  <1>1. Len(s) \in Nat \ {0} /\ s # <<>>
    BY LenProperties, EmptySeq DEF Ordered
  <1>2. Head(s) = s[1]
    BY <1>1, HeadTailProperties
  <1>3. ASSUME Len(s) = 1 PROVE Head(s) = SIG /\ Elements(s) = {SIG}
    <2>1. s[1] = SIG /\ 1..Len(s) = {1}
      BY <1>3 DEF Ordered
    <2> QED
      BY <1>2, <2>1 DEF Elements
  <1>4. ASSUME Len(s) = 2 PROVE Head(s) = INDEX /\ Elements(s) = {INDEX, SIG}
    <2>1. s[1] = INDEX /\ s[2] = SIG /\ 1..Len(s) = {1, 2}
      BY <1>4 DEF Ordered
    <2> QED
      BY <1>2, <2>1 DEF Elements
  <1>5. ASSUME Len(s) > 2 PROVE Head(s) \in Files
    <2>1. 1 \in 1..Len(s) /\ 1 < Len(s) - 1
      BY <1>1, <1>5
    <2> QED
      BY <1>2, <2>1 DEF Ordered
  <1> QED
    BY <1>1, <1>3, <1>4, <1>5

\* The order is kept as the uploads are made.
LEMMA OrderedTail ==
  ASSUME NEW s \in Seq(Asset), Ordered(s), Len(s) # 1
  PROVE  Ordered(Tail(s)) /\ Len(Tail(s)) = Len(s) - 1
  <1>1. Len(s) \in Nat \ {0} /\ s # <<>>
    BY OrderedHead
  <1>2. Len(Tail(s)) = Len(s) - 1 /\ \A i \in 1..Len(Tail(s)) : Tail(s)[i] = s[i + 1]
    BY <1>1, HeadTailProperties
  <1> DEFINE t == Tail(s)
             n == Len(s)
  <1> HIDE DEF t, n
  <1>3. n \in Nat /\ n > 1 /\ Len(t) = n - 1 /\ \A i \in 1..n - 1 : t[i] = s[i + 1]
    BY <1>1, <1>2 DEF t, n
  <1>4. s[n] = SIG /\ s[n - 1] = INDEX /\ \A i \in 1..n : i < n - 1 => s[i] \in Files
    BY <1>3 DEF Ordered, n
  <1>5. t[n - 1] = SIG
    <2>1. n - 1 \in 1..n - 1 /\ (n - 1) + 1 = n
      BY <1>3
    <2>2. t[n - 1] = s[(n - 1) + 1]
      BY <1>3, <2>1
    <2> QED
      BY <1>4, <2>1, <2>2
  <1>6. n - 1 > 1 => t[n - 2] = INDEX
    <2>1. n - 1 > 1 => n - 2 \in 1..n - 1 /\ (n - 2) + 1 = n - 1
      BY <1>3
    <2>2. n - 1 > 1 => t[n - 2] = s[(n - 2) + 1]
      BY <1>3, <2>1
    <2> QED
      BY <1>4, <2>1, <2>2
  <1>7. \A i \in 1..n - 1 : i < n - 2 => t[i] \in Files
    <2>1. \A i \in 1..n - 1 : i < n - 2 => i + 1 \in 1..n /\ i + 1 < n - 1
      BY <1>3
    <2> QED
      BY <1>3, <1>4, <2>1
  <1>8. Len(t) > 0 /\ Len(t) - 1 = n - 2
    BY <1>3
  <1>9. Ordered(t)
    BY <1>3, <1>5, <1>6, <1>7, <1>8 DEF Ordered
  <1> QED
    BY <1>2, <1>9 DEF t

\* A step of a run is its own, and a run that steps is not idle, before or after.
LEMMA OwnStep ==
  ASSUME TypeOK, NEW p \in Runs, Step(p)
  PROVE  /\ \A q \in Runs \ {p} : run'[q] = run[q]
         /\ run[p].pc # "idle" \/ run'[p].pc # "idle"
  <1>1. ASSUME NEW r, Becomes(p, r) PROVE run'[p] = r /\ \A q \in Runs \ {p} : run'[q] = run[q]
    BY <1>1 DEF Becomes, TypeOK
  <1>2. \A q \in Runs \ {p} : run'[q] = run[q]
    BY <1>1 DEF Step, Start, Fetch, Download, Verify, Review, Confirm, Copy, Decline, Proceed, Build,
       Sign, Clobber, Put, Prune, Close, UploadFails, ReplyLost, Retry, CloseFails, Crash, Die
  <1>3. CASE run[p].pc = "idle"
    <2>1. PICK pr \in PRs : Start(p, pr)
      BY <1>3 DEF Step, Start, Fetch, Download, Verify, Review, Confirm, Copy, Decline, Proceed,
         Build, Sign, Clobber, Put, Store, Prune, Close, UploadFails, ReplyLost, CloseFails, Crash
    <2>2. PICK r : r = [Idle EXCEPT !.pc = "fetch", !.pr = pr, !.dirs = DOMAIN Submitted(pr)]
      OBVIOUS
    <2>3. r.pc = "fetch"
      BY <2>2 DEF Idle
    <2>4. Becomes(p, r)
      BY <2>1, <2>2 DEF Start
    <2> QED
      BY <1>1, <1>2, <2>3, <2>4
  <1> QED
    BY <1>2, <1>3

\* While a run steps the others are idle, and stay so.
LEMMA OthersIdle ==
  ASSUME TypeOK, TakeTurns, TakeTurns', NEW p \in Runs, Step(p), NEW q \in Runs, q # p
  PROVE  run'[q].pc = "idle" /\ run'[q] = run[q]
BY OwnStep DEF TakeTurns

\* A run that dies owes the release nothing.
LEMMA OneDeath ==
  ASSUME TypeOK, NEW p \in Runs, Die(p)
  PROVE  PublishInv(p)'
  <1>1. run'[p] = Idle
    BY BecomesType, IdleType DEF Die
  <1> QED
    BY <1>1 DEF PublishInv, Idle

\* Two confirmed packages share a file name from then on ...
LEMMA SharedStays ==
  ASSUME reviewed \subseteq reviewed'
  PROVE  \A f : Shared(f) => Shared(f)'
BY DEF Shared

\* ... and no excuse is ever taken back.
LEMMA ExcusedStays ==
  ASSUME reviewed \subseteq reviewed', doubled \subseteq doubled', NEW r, Excused(r)
  PROVE  Excused(r)'
BY SharedStays DEF Excused

\* Records of one file are of one package, or the file is shared.
LEMMA SameFile ==
  ASSUME NEW r \in reviewed, NEW s \in reviewed, FileOf(r) = FileOf(s), r.name # s.name
  PROVE  Shared(FileOf(r))
BY DEF Shared

\* What verifies depends on the release alone.
LEMMA SameServed ==
  ASSUME ReleaseInv, UNCHANGED release, reviewed \subseteq reviewed'
  PROVE  ReleaseInv'
  <1>1. UNCHANGED <<live, served, promised, torn, doubled>>
    BY DEF release
  <1>2. Whole(served) => Whole(served)'
    BY <1>1, ExcusedStays DEF Whole
  <1> QED
    BY <1>1, <1>2 DEF ReleaseInv, Verifies

\* The file of a record is a tarball.
LEMMA FileNames ==
  ASSUME NEW r \in Record
  PROVE  FileOf(r) \in Files /\ FileOf(r) \in Asset /\ r.name \in Names
BY FileOfType DEF Record, Asset

\* The records a run has downloaded and accepted are confirmed ones.
LEMMA RunRecords ==
  ASSUME TypeOK, ReviewedInv, NEW p \in Runs
  PROVE  /\ run[p].cur \in Listing /\ run[p].acc \subseteq Record
         /\ run[p].cur.records \subseteq Record
         /\ run[p].cur.records \subseteq reviewed /\ run[p].acc \subseteq reviewed
         /\ run[p].again \subseteq Names /\ NewListing(p) \in Listing
  <1>1. run[p].cur \in Listing /\ run[p].acc \in SUBSET Record /\ run[p].again \in SUBSET Names
    BY RunOf DEF RunState
  <1>2. run[p].cur.records \in SUBSET Record
    BY <1>1, ListingType
  <1>3. run[p].cur.records \cup run[p].acc \subseteq reviewed
    BY DEF ReviewedInv, RunReviewed
  <1>4. NewListing(p) \in Listing
    BY <1>1, NewIndexType DEF NewListing
  <1> QED
    BY <1>1, <1>2, <1>3, <1>4

\* The listing published: what was accepted, and what else the listing downloaded had.
LEMMA NewRecords ==
  ASSUME NEW p \in Runs
  PROVE  /\ run[p].acc \subseteq NewListing(p).records
         /\ \A r \in NewListing(p).records :
              r \in run[p].acc \/ (r \in run[p].cur.records /\ r.name \notin NamesOf(run[p].acc))
         /\ \A r \in run[p].cur.records :
              r.name \notin NamesOf(run[p].acc) => r \in NewListing(p).records
         /\ run[p].again \subseteq NewListing(p).twice
  <1>1. /\ NewListing(p).records = Replace(run[p].cur.records, run[p].acc)
        /\ run[p].again \subseteq NewListing(p).twice
    BY DEF NewListing, NewIndex
  <1> QED
    BY <1>1 DEF Replace, Registry!Replace, NamesOf, Registry!NamesOf

\* A record's name is among the names of a set it is in.
LEMMA NamedIn ==
  ASSUME NEW R, NEW r \in R
  PROVE  r.name \in NamesOf(R)
BY DEF NamesOf, Registry!NamesOf

\* The publication: the new listing is whole, and has all that was announced and
\* not replaced.
LEMMA Publication ==
  ASSUME TypeOK, ReviewedInv, ReleaseInv, NEW p \in Runs, Uploading(p),
         \A r \in run[p].acc : live[FileOf(r)] = r.sha \/ Shared(FileOf(r)),
         \A f \in Files : live'[f] = live[f],
         served' = NewListing(p).records, torn' = torn \ FilesOf(run[p].acc),
         doubled \subseteq doubled', UNCHANGED reviewed,
         promised' = {r \in promised : r.name \in NamesOf(run[p].acc) => r \in run[p].acc}
  PROVE  promised' \subseteq served' /\ Whole(served)'
  <1> DEFINE cur == run[p].cur.records
             acc == run[p].acc
             New == NewListing(p).records
  <1>1. cur \subseteq Record /\ acc \subseteq Record /\ cur \subseteq reviewed /\ acc \subseteq reviewed
    BY RunRecords
  <1>2. /\ served \in {cur, New}
        /\ \A r \in served : FileOf(r) \in torn \/ live[FileOf(r)] = r.sha \/ Excused(r)
    BY DEF Uploading, Whole
  <1>3. /\ acc \subseteq New
        /\ \A r \in New : r \in acc \/ (r \in cur /\ r.name \notin NamesOf(acc))
        /\ \A r \in cur : r.name \notin NamesOf(acc) => r \in New
    BY NewRecords
  <1>4. promised \subseteq served
    BY DEF ReleaseInv
  <1> HIDE DEF cur, acc, New
  <1>5. \A x \in promised' : x \in New
    BY <1>2, <1>3, <1>4 DEF acc
  <1>6. ASSUME NEW r \in New PROVE FileOf(r) \in torn' \/ live'[FileOf(r)] = r.sha \/ Excused(r)'
    <2>1. r \in Record /\ FileOf(r) \in Files
      BY <1>1, <1>3, FileNames
    <2>2. CASE r \in acc
      BY <2>1, <2>2, ExcusedStays DEF acc, Excused
    <2>3. CASE r \in cur /\ r.name \notin NamesOf(acc)
      <3>1. ASSUME FileOf(r) \in FilesOf(acc) PROVE Shared(FileOf(r))
        BY <1>1, <2>3, <3>1, SameFile, NamedIn DEF FilesOf
      <3>2. r \in served
        BY <1>2, <2>3
      <3>3. Excused(r) => Excused(r)'
        BY ExcusedStays
      <3> QED
        BY <1>2, <2>1, <3>1, <3>2, <3>3 DEF acc, Excused
    <2> QED
      BY <1>3, <2>2, <2>3
  <1> QED
    BY <1>5, <1>6 DEF Whole, New

\* An upload: what it makes of the release, and what verifies afterwards.
LEMMA Stored ==
  ASSUME TypeOK, ReviewedInv, ReleaseInv, NEW p \in Runs, Accepted(p), Uploading(p), Store(p),
         UNCHANGED reviewed
  PROVE  /\ ReleaseInv' /\ doubled \subseteq doubled'
         /\ served' \in {run[p].cur.records, NewListing(p).records} /\ Whole(served)'
         /\ Len(run[p].todo) > 2 => live'[INDEX] = run[p].cur
         /\ Len(run[p].todo) = 2 => live'[INDEX] = NewListing(p)
         /\ Len(run[p].todo) > 1 => live'[SIG] = run[p].cur
         /\ Len(run[p].todo) = 1 => /\ NewListing(p) # None
                                    /\ live'[INDEX] = NewListing(p) /\ live'[SIG] = NewListing(p)
         /\ \A r \in run[p].acc : \/ FileOf(r) \in Elements(Tail(run[p].todo))
                                  \/ live'[FileOf(r)] = r.sha \/ Shared(FileOf(r))
  <1> DEFINE todo == run[p].todo
             a == Head(todo)
             cur == run[p].cur
             acc == run[p].acc
             New == NewListing(p)
             n == Len(todo)
             Afterwards ==
               /\ served' \in {cur.records, New.records} /\ Whole(served)'
               /\ n > 2 => live'[INDEX] = cur
               /\ n = 2 => live'[INDEX] = New
               /\ n > 1 => live'[SIG] = cur
               /\ n = 1 => New # None /\ live'[INDEX] = New /\ live'[SIG] = New
  <1>1. /\ todo \in Seq(Asset) /\ todo # <<>> /\ a \in Asset /\ Ordered(todo)
        /\ run[p].pc = "put" /\ acc \subseteq Record
    BY NextUpload, RunRecords DEF Store, Uploading
  <1>2. /\ n \in Nat \ {0} /\ (n \in {1, 2} \/ n > 2)
        /\ n = 1 => a = SIG /\ Left(p) = {SIG}
        /\ n = 2 => a = INDEX /\ Left(p) = {INDEX, SIG}
        /\ n > 2 => a \in Files
    <2>1. n \in Nat \ {0}
      BY <1>1, OrderedHead
    <2> HIDE DEF n
    <2>2. n \in {1, 2} \/ n > 2
      BY <2>1
    <2> QED
      BY <1>1, <2>1, <2>2, OrderedHead DEF Left, n
  <1>3. /\ OutDir(p)[a] # None
        /\ live'[a] = OutDir(p)[a] /\ \A b \in Asset : b # a => live'[b] = live[b]
        /\ IF a \in {INDEX, SIG} /\ Verifies(live')
           THEN /\ served' = live'[INDEX].records
                /\ promised' = {r \in promised : r.name \in NamesOf(acc) => r \in acc}
                /\ torn' = torn \ FilesOf(acc)
                /\ doubled' = doubled \cup live'[INDEX].twice
           ELSE UNCHANGED <<served, promised, torn, doubled>>
    BY <1>1 DEF Store, TypeOK, IsStore, FilesOf
  <1>4. /\ OutDir(p)[INDEX] = New /\ OutDir(p)[SIG] = New
        /\ served \in {cur.records, New.records} /\ Whole(served)
        /\ \A r \in acc : FileOf(r) \in Left(p) \/ live[FileOf(r)] = r.sha \/ Shared(FileOf(r))
        /\ a \in Files => a \in torn
    BY <1>1 DEF Uploading
  <1>5. /\ n > 2 => live[INDEX] = cur
        /\ n > 1 => live[SIG] = cur
        /\ n = 1 => live[INDEX] = New
    BY DEF Uploading, PairAsUploaded
  <1>6. \A r \in acc : /\ OutDir(p)[FileOf(r)] = r.sha \/ Shared(FileOf(r))
                       /\ FileOf(r) \in Files /\ FileOf(r) \in Asset
    BY <1>1, FileNames DEF Accepted, Replaced, Kept
  <1>7. Left(p) = {a} \cup Elements(Tail(todo))
    BY <1>1, ElementsTail DEF Left
  <1>8. \A r \in acc : \/ FileOf(r) \in Elements(Tail(todo))
                       \/ live'[FileOf(r)] = r.sha \/ Shared(FileOf(r))
    BY <1>3, <1>4, <1>6, <1>7
  <1>9. /\ promised \subseteq served
        /\ Verifies(live) => served = live[INDEX].records /\ live[INDEX].twice \subseteq doubled
        /\ doubled \subseteq doubled'
    BY <1>3 DEF ReleaseInv
  <1> HIDE DEF n, todo, a, cur, acc, New
  <1>10. ASSUME a \in Files PROVE ReleaseInv' /\ Afterwards
    <2>1. /\ live'[INDEX] = live[INDEX] /\ live'[SIG] = live[SIG]
          /\ UNCHANGED <<served, promised, torn, doubled>>
      BY <1>3, <1>10, AssetNames
    <2>2. \A r \in served : FileOf(r) \in Asset /\ (Excused(r) => Excused(r)')
      BY <2>1, FileNames, ExcusedStays DEF TypeOK
    <2>3. Whole(served)'
      BY <1>3, <1>4, <1>10, <2>1, <2>2 DEF Whole
    <2>4. ReleaseInv'
      BY <1>9, <2>1, <2>3 DEF ReleaseInv, Verifies
    <2>5. n > 2
      BY <1>2, <1>10, AssetNames
    <2> QED
      BY <1>2, <1>4, <1>5, <2>1, <2>3, <2>4, <2>5
  <1>11. ASSUME a \notin Files PROVE ReleaseInv' /\ Afterwards
    <2>1. a \in {INDEX, SIG} /\ n \in {1, 2}
      BY <1>1, <1>2, <1>11, AssetNames
    <2>2. \A f \in Files : live'[f] = live[f]
      BY <1>3, <1>11 DEF Asset
    <2>3. /\ live'[INDEX] = New /\ New # None
          /\ n = 1 => live'[SIG] = New
          /\ n = 2 => live'[SIG] = cur
      BY <1>2, <1>3, <1>4, <1>5, <2>1, AssetNames
    <2>4. \A r \in acc : live[FileOf(r)] = r.sha \/ Shared(FileOf(r))
      BY <1>2, <1>4, <1>6, <2>1, AssetNames
    <2>5. CASE Verifies(live')
      <3>1. /\ served' = New.records /\ torn' = torn \ FilesOf(acc)
            /\ promised' = {r \in promised : r.name \in NamesOf(acc) => r \in acc}
            /\ live'[INDEX].twice \subseteq doubled'
        BY <1>3, <2>1, <2>3, <2>5
      <3>2. promised' \subseteq served' /\ Whole(served)'
        BY <1>9, <2>2, <2>4, <3>1, Publication DEF acc, New
      <3>3. ReleaseInv'
        BY <2>3, <3>1, <3>2 DEF ReleaseInv
      <3> QED
        BY <1>2, <2>1, <2>3, <3>1, <3>2, <3>3
    <2>6. CASE ~Verifies(live')
      <3>1. UNCHANGED <<served, promised, torn, doubled>>
        BY <1>3, <2>6
      <3>2. \A r \in served : FileOf(r) \in Files /\ (Excused(r) => Excused(r)')
        BY <3>1, FileNames, ExcusedStays DEF TypeOK
      <3>3. Whole(served)'
        BY <1>4, <2>2, <3>1, <3>2 DEF Whole
      <3>4. ReleaseInv'
        BY <1>9, <2>6, <3>1, <3>3 DEF ReleaseInv
      <3>5. n = 2
        BY <2>1, <2>3, <2>6 DEF Verifies
      <3> QED
        BY <1>4, <2>3, <3>1, <3>3, <3>4, <3>5
    <2> QED
      BY <2>5, <2>6
  <1>12. ReleaseInv' /\ Afterwards
    BY <1>10, <1>11
  <1> QED
    BY <1>8, <1>9, <1>12 DEF n, todo, cur, acc, New

\* A step that changes no tarball beside its manifest leaves what is accepted.
LEMMA AcceptedCarried ==
  ASSUME NEW p \in Runs, Accepted(p), run[p].acc \subseteq Record,
         \A f \in Files : out'[OutOf[p]][f] = out[OutOf[p]][f], UNCHANGED mans,
         reviewed \subseteq reviewed',
         run'[p].cur = run[p].cur, run'[p].acc = run[p].acc, run'[p].again = run[p].again,
         run'[p].stale \subseteq run[p].stale,
         run[p].pc # "copy", run'[p].pc # "copy"
  PROVE  Accepted(p)'
  <1>1. \A r \in run[p].acc : Kept(p, r) => Kept(p, r)'
    BY FileNames DEF Kept, OutDir
  <1>2. \A f : Shared(f) => Shared(f)'
    BY SharedStays
  <1>3. \A g : Dropped(p, g) => Dropped(p, g)'
    BY DEF Dropped, Replaced
  <1>4. \A n : ~Replaced(p, n)
    BY DEF Replaced
  <1> QED
    BY <1>1, <1>2, <1>3, <1>4 DEF Accepted

\* So does a step that changes nothing in out/.
LEMMA AcceptedStays ==
  ASSUME TypeOK, NEW p \in Runs, Accepted(p), UNCHANGED store, reviewed \subseteq reviewed',
         run'[p].cur = run[p].cur, run'[p].acc = run[p].acc, run'[p].again = run[p].again,
         run'[p].stale \subseteq run[p].stale,
         run[p].pc # "copy", run'[p].pc # "copy"
  PROVE  Accepted(p)'
  <1>1. run[p].acc \subseteq Record
    BY RunOf DEF RunState
  <1> QED
    BY <1>1, AcceptedCarried DEF store

\* The other files of the directory stay.
LEMMA WriteOwn ==
  ASSUME TypeOK, NEW p \in Runs, NEW a \in Asset, NEW x, Writes(p, a, x)
  PROVE  /\ out'[OutOf[p]][a] = x
         /\ \A b \in Asset : b # a => out'[OutOf[p]][b] = out[OutOf[p]][b]
  <1>1. OutOf[p] \in Outs
    BY OutAssumption
  <1>2. /\ out'[OutOf[p]][a] = x
        /\ \A o \in Outs : \A b \in Asset : out'[o][b] = out[o][b] \/ (o = OutOf[p] /\ b = a)
    BY WriteOut
  <1> QED
    BY <1>1, <1>2

\* A failed upload is tried again as it is, or ends the run.
LEMMA RetryKept ==
  ASSUME TypeOK, ReviewedInv, NEW p \in Runs, Retry(p),
         run[p].pc \in {"clobber", "put"}, UNCHANGED <<store, reviewed>>, Accepted(p),
         \A r \in RunState :
           (/\ r.pc = "clobber" /\ r.todo = run[p].todo /\ r.cur = run[p].cur
            /\ r.acc = run[p].acc /\ r.again = run[p].again /\ run'[p] = r)
             => Uploading(p)'
  PROVE  PublishInv(p)'
  <1>1. CASE run[p].tries + 1 >= MaxTries
    BY <1>1, OneDeath DEF Retry
  <1>2. CASE ~(run[p].tries + 1 >= MaxTries)
    <2>0. Becomes(p, [run[p] EXCEPT !.pc = "clobber", !.tries = @ + 1])
      BY <1>2 DEF Retry
    <2>1. run[p].tries + 1 \in 0..MaxTries - 1
      <3>1. run[p].tries \in 0..MaxTries - 1
        BY RunOf DEF RunState
      <3> QED
        BY <1>2, <3>1, BoundAssumption
    <2>2. PICK r \in RunState : r = [run[p] EXCEPT !.pc = "clobber", !.tries = @ + 1]
      BY <2>1, RunOf DEF RunState
    <2>3. /\ r.pc = "clobber" /\ r.todo = run[p].todo /\ r.cur = run[p].cur
          /\ r.acc = run[p].acc /\ r.again = run[p].again /\ r.stale = run[p].stale
      BY <2>2, RunOf DEF RunState
    <2>4. run'[p] = r
      BY <2>0, <2>2, BecomesType
    <2>5. Uploading(p)'
      BY <2>3, <2>4
    <2>6. Accepted(p)'
      BY <2>3, <2>4, AcceptedStays
    <2> QED
      BY <2>3, <2>4, <2>5, <2>6 DEF PublishInv
  <1> QED
    BY <1>1, <1>2

\* Every step, while the others are idle, keeps the invariant.
LEMMA OneInvStep ==
  TypeOK /\ ReviewedInv /\ OneInv /\ TakeTurns /\ TakeTurns' /\ [Next]_vars => OneInv'
  <1> SUFFICES ASSUME TypeOK, ReviewedInv, OneInv, TakeTurns, TakeTurns', [Next]_vars
               PROVE  OneInv'
    OBVIOUS
  <1>0. ReleaseInv /\ \A p \in Runs : PublishInv(p)
    BY DEF OneInv
  <1>1. ASSUME NEW p \in Runs, NEW q \in PRs, Start(p, q) PROVE ReleaseInv' /\ PublishInv(p)'
    <2>1. DOMAIN Submitted(q) \subseteq Manifest
      BY HeadAssumption DEF TypeOK, Submitted, IsHead
    <2>2. PICK r \in RunState :
            r = [Idle EXCEPT !.pc = "fetch", !.pr = q, !.dirs = DOMAIN Submitted(q)]
      BY <2>1, IdleType DEF RunState
    <2>3. r.pc = "fetch" /\ r.todo = <<>> /\ r.acc = {} /\ r.stale = {}
      BY <2>2 DEF Idle, Plain
    <2>4. run'[p] = r
      BY <1>1, <2>2, BecomesType DEF Start
    <2>5. PublishInv(p)'
      BY <2>3, <2>4 DEF PublishInv
    <2> QED
      BY <1>0, <1>1, <2>5, SameServed DEF Start, release, store
  <1>2. ASSUME NEW p \in Runs, Fetch(p) PROVE ReleaseInv' /\ PublishInv(p)'
    <2>1. run[p].acc = {} /\ run[p].stale = {} /\ run[p].todo = <<>> /\ run[p].pr \in PRs
      BY <1>0, <1>2 DEF PublishInv, Fetch, ReviewedInv, RunReviewed
    <2>2. pulls[run[p].pr].head \in Nat
      BY <2>1 DEF TypeOK
    <2>3. PICK r \in RunState :
            r = [run[p] EXCEPT !.pc = "download", !.head = pulls[run[p].pr].head]
      BY <2>2, RunOf DEF RunState
    <2>4. r.pc = "download" /\ r.acc = {} /\ r.stale = {} /\ r.todo = <<>>
      BY <2>1, <2>3, RunOf DEF RunState
    <2>5. run'[p] = r
      BY <1>2, <2>3, BecomesType DEF Fetch
    <2>6. PublishInv(p)'
      BY <2>4, <2>5 DEF PublishInv
    <2> QED
      BY <1>0, <1>2, <2>6, SameServed DEF Fetch, release, store
  <1>3. ASSUME NEW p \in Runs, Download(p) PROVE ReleaseInv' /\ PublishInv(p)'
    <2>0. ReleaseInv' /\ UNCHANGED live
      BY <1>0, <1>3, SameServed DEF Download, release, store
    <2>1. CASE Die(p)
      BY <2>0, <2>1, OneDeath
    <2>2. CASE live[INDEX] # None /\ Becomes(p, [run[p] EXCEPT !.pc = "verify", !.cur = live[INDEX]])
      <3>1. live[INDEX] \in Listing
        BY <2>2 DEF IsStore, TypeOK
      <3>2. PICK r \in RunState : r = [run[p] EXCEPT !.pc = "verify", !.cur = live[INDEX]]
        BY <3>1, RunOf, MovedType
      <3>3. run[p].acc = {} /\ run[p].stale = {} /\ run[p].todo = <<>>
        BY <1>0, <1>3 DEF PublishInv, Download
      <3>4. r.pc = "verify" /\ r.cur = live[INDEX] /\ r.acc = {} /\ r.stale = {} /\ r.todo = <<>>
        BY <3>2, <3>3, RunOf DEF RunState
      <3>5. run'[p] = r
        BY <2>2, <3>2, BecomesType
      <3>6. PublishInv(p)'
        BY <2>0, <2>2, <3>4, <3>5 DEF PublishInv
      <3> QED
        BY <2>0, <3>6
    <2> QED
      BY <1>3, <2>1, <2>2 DEF Download
  <1>4. ASSUME NEW p \in Runs, Verify(p) PROVE ReleaseInv' /\ PublishInv(p)'
    <2>0. ReleaseInv' /\ UNCHANGED live
      BY <1>0, <1>4, SameServed DEF Verify, release, store
    <2>1. CASE Die(p)
      BY <2>0, <2>1, OneDeath
    <2>2. CASE live[SIG] = run[p].cur /\ Becomes(p, [run[p] EXCEPT !.pc = "review"])
      <3>1. PICK r \in RunState : r = [run[p] EXCEPT !.pc = "review"]
        BY RunOf DEF RunState
      <3>2. /\ run[p].acc = {} /\ run[p].stale = {} /\ run[p].todo = <<>>
            /\ live[INDEX] # None /\ run[p].cur = live[INDEX]
        BY <1>0, <1>4 DEF PublishInv, Verify
      <3>3. /\ r.pc = "review" /\ r.cur = run[p].cur /\ r.acc = {} /\ r.stale = {}
            /\ r.todo = <<>>
        BY <3>1, <3>2, RunOf DEF RunState
      <3>4. run'[p] = r
        BY <2>2, <3>1, BecomesType
      <3>5. Accepted(p)'
        BY <3>3, <3>4 DEF Accepted
      <3>6. Gathered(p)'
        <4>1. Left(p)' = {}
          BY <3>3, <3>4, ElementsEmpty DEF Left
        <4>2. Verifies(live)' /\ r.cur = live'[INDEX]
          BY <2>0, <2>2, <3>2, <3>3 DEF Verifies
        <4>3. r.cur.twice \subseteq doubled'
          BY <2>0, <4>2 DEF ReleaseInv
        <4> QED
          BY <3>3, <3>4, <4>1, <4>2, <4>3 DEF Gathered, FilesOf
      <3>7. PublishInv(p)'
        BY <3>3, <3>4, <3>5, <3>6 DEF PublishInv
      <3> QED
        BY <2>0, <3>7
    <2> QED
      BY <1>4, <2>1, <2>2 DEF Verify
  <1>5. ASSUME NEW p \in Runs, Review(p) PROVE ReleaseInv' /\ PublishInv(p)'
    <2>0. ReleaseInv' /\ UNCHANGED <<live, store, reviewed, doubled>>
      BY <1>0, <1>5, SameServed DEF Review, release
    <2>1. CASE Die(p)
      BY <2>0, <2>1, OneDeath
    <2>2. ASSUME NEW d \in run[p].dirs, Becomes(p, [run[p] EXCEPT !.pc = "prompt", !.dir = d])
          PROVE  ReleaseInv' /\ PublishInv(p)'
      <3>1. PICK r \in RunState : r = [run[p] EXCEPT !.pc = "prompt", !.dir = d]
        <4>1. d \in Manifest
          BY RunOf DEF RunState
        <4> QED
          BY <4>1, RunOf, MovedType
      <3>2. /\ r.pc = "prompt" /\ r.cur = run[p].cur /\ r.acc = run[p].acc
            /\ r.again = run[p].again /\ r.stale = run[p].stale /\ r.todo = run[p].todo
        BY <3>1, RunOf DEF RunState
      <3>3. Accepted(p) /\ Gathered(p) /\ run[p].pc = "review"
        BY <1>0, <1>5 DEF PublishInv, Review
      <3>4. run'[p] = r
        BY <2>2, <3>1, BecomesType
      <3>5. Accepted(p)'
        BY <2>0, <3>2, <3>3, <3>4, AcceptedStays
      <3>6. Gathered(p)'
        BY <2>0, <3>2, <3>3, <3>4 DEF Gathered, Left, Verifies
      <3>7. PublishInv(p)'
        BY <3>2, <3>4, <3>5, <3>6 DEF PublishInv
      <3> QED
        BY <2>0, <3>7
    <2> QED
      BY <1>5, <2>1, <2>2 DEF Review
  <1>6. ASSUME NEW p \in Runs, Confirm(p) PROVE ReleaseInv' /\ PublishInv(p)'
    <2> DEFINE d == run[p].dir
               m == Asked(p)
               S == run[p].stale \cup Old(run[p].cur, m)
    <2>1. /\ Accepted(p) /\ Gathered(p) /\ run[p].pc = "prompt" /\ m \in Record
          /\ run[p].acc \subseteq Record /\ run[p].cur.records \subseteq Record
      BY <1>0, <1>6, PinnedType, RunRecords DEF PublishInv, Confirm, Asked
    <2>2. \A g \in Old(run[p].cur, m) : \E s \in run[p].cur.records :
            FileOf(s) = g /\ s.name = m.name /\ (g # FileOf(m) \/ s.name \in run[p].cur.twice)
      BY DEF Old, RecordsOf
    <2>3. PICK r \in RunState : r = [run[p] EXCEPT !.pc = "copy", !.stale = S]
      <3>1. S \in SUBSET Files
        BY <2>1, <2>2, FileNames, RunOf DEF RunState
      <3> QED
        BY <3>1, RunOf, MovedType
    <2>4. /\ r.pc = "copy" /\ r.dir = d /\ r.todo = run[p].todo /\ r.cur = run[p].cur
          /\ r.acc = run[p].acc /\ r.again = run[p].again /\ r.stale = S
          /\ r.pr = run[p].pr /\ r.head = run[p].head
      <3> HIDE DEF S
      <3> QED
        BY <2>3, RunOf DEF RunState
    <2>5. run'[p] = r
      BY <1>6, <2>3, BecomesType DEF Confirm, Asked
    <2>6. \A f \in Files : mans[OutOf[p]][f] # m.name
            => out'[OutOf[p]][f] = out[OutOf[p]][f] /\ mans'[OutOf[p]][f] = mans[OutOf[p]][f]
      <3> DEFINE gone == {f \in Files : mans[OutOf[p]][f] = m.name}
      <3>1. /\ out' = [out EXCEPT ![OutOf[p]] = [a \in Asset |-> IF a \in gone THEN None ELSE @[a]]]
            /\ mans' = [mans EXCEPT ![OutOf[p]] = [f \in Files |-> IF f \in gone THEN None ELSE @[f]]]
        BY <1>6 DEF Confirm, Asked
      <3> HIDE DEF gone
      <3>2. \A f \in Files : f \notin gone
              => out'[OutOf[p]][f] = out[OutOf[p]][f] /\ mans'[OutOf[p]][f] = mans[OutOf[p]][f]
        BY <3>1, OutAssumption DEF TypeOK, Asset
      <3> QED
        BY <3>2 DEF gone
    <2>7. UNCHANGED release /\ reviewed \subseteq reviewed'
      BY <1>6 DEF Confirm
    <2>8. Asked(p)' = m
      BY <2>4, <2>5 DEF Asked, Pinned
    <2>9. ReleaseInv'
      BY <1>0, <2>7, SameServed
    <2>10. UNCHANGED live /\ UNCHANGED doubled
      BY <2>7 DEF release
    <2> HIDE DEF d, m, S
    <2>11. Accepted(p)'
      <3>1. ASSUME NEW s \in r.acc PROVE s.name = m.name \/ Shared(FileOf(s))' \/ Kept(p, s)'
        <4>1. Shared(FileOf(s)) \/ Kept(p, s)
          BY <2>1, <2>4, <3>1 DEF Accepted, Replaced
        <4>2. Shared(FileOf(s)) => Shared(FileOf(s))'
          BY <2>7, SharedStays
        <4> QED
          BY <2>1, <2>4, <2>6, <4>1, <4>2, FileNames DEF Kept, OutDir
      <3>2. ASSUME NEW g \in r.stale PROVE Dropped(p, g)'
        <4>1. CASE g \in Old(run[p].cur, m)
          <5>1. PICK s \in run[p].cur.records :
                  FileOf(s) = g /\ s.name = m.name /\ (g # FileOf(m) \/ s.name \in run[p].cur.twice)
            BY <2>2, <4>1
          <5> QED
            BY <2>4, <2>5, <2>8, <5>1 DEF Dropped, Replaced
        <4>2. CASE g \in run[p].stale
          <5>1. Dropped(p, g)
            BY <2>1, <4>2 DEF Accepted
          <5> QED
            BY <2>1, <2>4, <2>5, <5>1 DEF Dropped, Replaced
        <4> QED
          BY <2>4, <3>2, <4>1, <4>2 DEF S
      <3> QED
        BY <2>1, <2>4, <2>5, <2>8, <3>1, <3>2 DEF Accepted, Replaced
    <2>12. Gathered(p)'
      BY <2>1, <2>4, <2>5, <2>10 DEF Gathered, Verifies, Left
    <2>13. PublishInv(p)'
      BY <2>4, <2>5, <2>11, <2>12 DEF PublishInv
    <2> QED
      BY <2>9, <2>13
  <1>7. ASSUME NEW p \in Runs, Copy(p) PROVE ReleaseInv' /\ PublishInv(p)'
    <2> DEFINE d == run[p].dir
               m == Asked(p)
               f == FileOf(m)
    <2>1. /\ Accepted(p) /\ Gathered(p) /\ run[p].pc = "copy" /\ f \in Files /\ f \in Asset
          /\ m \in Record /\ m \in reviewed /\ m.sha = Pinned(p)[d].blob /\ m.name \in Names
          /\ run[p].acc \subseteq Record /\ run[p].acc \subseteq reviewed
      BY <1>0, <1>7, PinnedType, RunRecords
      DEF PublishInv, Copy, ReviewedInv, RunReviewed, Asset, Asked
    <2>2. Replace(run[p].acc, {m}) \in SUBSET Record
      BY <2>1, ReplaceType
    <2>3. run[p].todo \in Seq(Asset) /\ Append(run[p].todo, f) \in Seq(Asset)
      BY <2>1, RunOf DEF RunState
    <2>4. PICK r \in RunState :
            r = [run[p] EXCEPT !.pc = "review", !.dirs = @ \ {d}, !.dir = None,
                               !.again = @ \cup ({m.name} \cap NamesOf(run[p].acc)),
                               !.acc = Replace(@, {m}), !.todo = Append(@, f)]
      <3>1. run[p].dirs \ {d} \in SUBSET Manifest
        BY RunOf DEF RunState
      <3>2. run[p].again \cup ({m.name} \cap NamesOf(run[p].acc)) \in SUBSET Names
        BY <2>1, RunOf DEF RunState
      <3> DEFINE x == [run[p] EXCEPT !.pc = "review", !.dirs = @ \ {d}, !.dir = None,
                                     !.again = @ \cup ({m.name} \cap NamesOf(run[p].acc)),
                                     !.acc = Replace(@, {m}), !.todo = Append(@, f)]
      <3>3. x \in RunState
        BY <2>2, <2>3, <3>1, <3>2, RunOf, MovedType
      <3> HIDE DEF x
      <3>4. PICK r \in RunState : r = x
        BY <3>3
      <3> QED
        BY <3>4 DEF x
    <2>5. /\ r.pc = "review" /\ r.cur = run[p].cur /\ r.stale = run[p].stale
          /\ r.again = run[p].again \cup ({m.name} \cap NamesOf(run[p].acc))
          /\ r.acc = Replace(run[p].acc, {m}) /\ r.todo = Append(run[p].todo, f)
      <3> HIDE DEF d, m, f
      <3>1. run[p] \in RunState
        BY RunOf
      <3>2. PICK D, G, A, t : /\ D = run[p].dirs \ {d} /\ t = Append(run[p].todo, f)
                              /\ G = run[p].again \cup ({m.name} \cap NamesOf(run[p].acc))
                              /\ A = Replace(run[p].acc, {m})
        OBVIOUS
      <3>3. r = [run[p] EXCEPT !.pc = "review", !.dirs = D, !.dir = None, !.again = G, !.acc = A,
                               !.todo = t]
        BY <2>4, <3>1, <3>2 DEF RunState
      <3>4. r.pc = "review" /\ r.cur = run[p].cur /\ r.stale = run[p].stale
        BY <3>1, <3>3 DEF RunState
      <3>5. r.acc = A /\ r.todo = t /\ r.again = G
        BY <3>1, <3>3 DEF RunState
      <3> QED
        BY <3>2, <3>4, <3>5
    <2>6. run'[p] = r
      BY <1>7, <2>4, BecomesType DEF Copy, Asked
    <2>7. /\ out'[OutOf[p]][f] = m.sha
          /\ \A a \in Asset : a # f => out'[OutOf[p]][a] = out[OutOf[p]][a]
      <3>1. Writes(p, f, m.sha)
        BY <1>7, <2>1 DEF Copy, Writes, Asked
      <3> HIDE DEF d, m, f
      <3> QED
        BY <2>1, <3>1, WriteOwn
    <2>8. /\ mans'[OutOf[p]][f] = m.name
          /\ \A g \in Files : g # f => mans'[OutOf[p]][g] = mans[OutOf[p]][g]
      <3>1. mans' = [mans EXCEPT ![OutOf[p]][f] = m.name]
        BY <1>7 DEF Copy, Asked
      <3> HIDE DEF d, m, f
      <3> QED
        BY <2>1, <3>1, OutAssumption DEF TypeOK
    <2>9. Elements(r.todo) = Left(p) \cup {f}
      BY <2>1, <2>3, <2>5, ElementsAppend DEF Left
    <2>10. /\ r.acc = {s \in run[p].acc : s.name # m.name} \cup {m}
           /\ NamesOf(run[p].acc) \subseteq NamesOf(r.acc) /\ m.name \in NamesOf(r.acc)
           /\ m.name \in NamesOf(run[p].acc) => m.name \in r.again
           /\ run[p].again \subseteq r.again
      <3>1. r.acc = {s \in run[p].acc : s.name # m.name} \cup {m}
        BY <2>5 DEF Replace, Registry!Replace, Registry!NamesOf
      <3> QED
        BY <2>1, <2>5, <3>1 DEF NamesOf, Registry!NamesOf
    <2>11. UNCHANGED release /\ UNCHANGED reviewed
      BY <1>7 DEF Copy
    <2>12. FileOf(m) = f /\ \A n : Replaced(p, n) <=> n = m.name
      BY <2>1 DEF Replaced
    <2>13. ReleaseInv'
      BY <1>0, <2>11, SameServed
    <2>14. UNCHANGED live /\ UNCHANGED doubled
      BY <2>11 DEF release
    <2> HIDE DEF d, m, f
    <2>15. Accepted(p)'
      <3>1. \A s, t \in r.acc : s.name = t.name => s = t
        BY <2>1, <2>10 DEF Accepted
      <3>2. ASSUME NEW s \in r.acc PROVE Shared(FileOf(s))' \/ Kept(p, s)'
        <4>1. CASE s = m
          BY <2>7, <2>8, <2>12, <4>1 DEF Kept, OutDir
        <4>2. CASE s # m
          <5>1. s \in run[p].acc /\ s.name # m.name
            BY <2>10, <3>2, <4>2
          <5>2. Shared(FileOf(s)) \/ Kept(p, s)
            BY <2>1, <2>12, <5>1 DEF Accepted
          <5>3. FileOf(s) = f => Shared(FileOf(s))
            BY <2>1, <2>12, <5>1, SameFile
          <5>4. FileOf(s) \in Files /\ FileOf(s) \in Asset
            BY <2>1, <5>1, FileNames
          <5>5. Shared(FileOf(s)) => Shared(FileOf(s))'
            BY <2>11, SharedStays
          <5> QED
            BY <2>7, <2>8, <5>2, <5>3, <5>4, <5>5 DEF Kept, OutDir
        <4> QED
          BY <4>1, <4>2
      <3>3. ASSUME NEW g \in r.stale PROVE Dropped(p, g)'
        <4>1. PICK s \in run[p].cur.records :
                /\ FileOf(s) = g
                /\ \/ s.name \in NamesOf(run[p].acc)
                   \/ s.name = m.name /\ (g # f \/ s.name \in run[p].cur.twice)
                /\ \A x \in run[p].acc : (x.name = s.name /\ FileOf(x) = g)
                     => s.name = m.name \/ s.name \in run[p].again \cup run[p].cur.twice
          <5>1. Dropped(p, g) /\ m = Asked(p)
            BY <2>1, <2>5, <3>3 DEF Accepted, m
          <5> QED
            BY <2>12, <5>1 DEF Dropped
        <4>2. s.name \in NamesOf(r.acc)
          BY <2>10, <4>1
        <4>3. ASSUME NEW x \in r.acc, x.name = s.name, FileOf(x) = g
              PROVE  s.name \in r.again \cup r.cur.twice
          <5>1. CASE x = m
            BY <2>5, <2>10, <2>12, <4>1, <4>3, <5>1
          <5>2. CASE x # m
            BY <2>5, <2>10, <4>1, <4>3, <5>2
          <5> QED
            BY <5>1, <5>2
        <4> QED
          BY <2>5, <2>6, <4>1, <4>2, <4>3 DEF Dropped
      <3> QED
        BY <2>5, <2>6, <3>1, <3>2, <3>3 DEF Accepted
    <2>16. Gathered(p)'
      <3>1. Left(p)' = Left(p) \cup {f}
        BY <2>6, <2>9 DEF Left
      <3>2. FilesOf(r.acc) \subseteq Left(p) \cup {f}
        BY <2>1, <2>10, <2>12 DEF Gathered, FilesOf
      <3> QED
        BY <2>1, <2>5, <2>6, <2>14, <3>1, <3>2 DEF Gathered, Verifies
    <2>17. PublishInv(p)'
      BY <2>5, <2>6, <2>15, <2>16 DEF PublishInv
    <2> QED
      BY <2>13, <2>17
  <1>8. ASSUME NEW p \in Runs, Decline(p) PROVE ReleaseInv' /\ PublishInv(p)'
    BY <1>0, <1>8, SameServed, OneDeath DEF Decline, store
  <1>9. ASSUME NEW p \in Runs, Build(p) PROVE ReleaseInv' /\ PublishInv(p)'
    <2>1. PICK r \in RunState : r = [run[p] EXCEPT !.pc = "sign"]
      BY RunOf DEF RunState
    <2>2. /\ r.pc = "sign" /\ r.cur = run[p].cur /\ r.acc = run[p].acc
          /\ r.again = run[p].again /\ r.stale = run[p].stale /\ r.todo = run[p].todo
      BY <2>1, RunOf DEF RunState
    <2>3. Accepted(p) /\ Gathered(p) /\ run[p].pc = "review" /\ run[p].acc \subseteq Record
      BY <1>0, <1>9, RunRecords DEF PublishInv, Build
    <2>4. run'[p] = r
      BY <1>9, <2>1, BecomesType DEF Build
    <2>5. UNCHANGED <<release, reviewed, mans>>
      BY <1>9 DEF Build
    <2>6. /\ out'[OutOf[p]][INDEX] = NewListing(p)
          /\ \A a \in Asset : a # INDEX => out'[OutOf[p]][a] = out[OutOf[p]][a]
      <3>1. INDEX \in Asset
        BY AssetNames
      <3>2. PICK I : I = NewListing(p)
        OBVIOUS
      <3>3. Writes(p, INDEX, I)
        BY <1>9, <3>2 DEF Build, NewListing, Writes
      <3>4. /\ out'[OutOf[p]][INDEX] = I
            /\ \A a \in Asset : a # INDEX => out'[OutOf[p]][a] = out[OutOf[p]][a]
        BY <3>1, <3>3, WriteOwn
      <3> QED
        BY <3>2, <3>4
    <2>7. \A f \in Files : out'[OutOf[p]][f] = out[OutOf[p]][f]
      BY <2>6, AssetNames DEF Asset
    <2>8. Accepted(p)'
      BY <2>2, <2>3, <2>4, <2>5, <2>7, AcceptedCarried
    <2>9. Gathered(p)'
      BY <2>2, <2>3, <2>4, <2>5 DEF Gathered, Verifies, Left, release
    <2>10. (OutDir(p)[INDEX] = NewListing(p))'
      BY <2>2, <2>4, <2>6 DEF OutDir, NewListing
    <2>11. PublishInv(p)'
      BY <2>2, <2>4, <2>8, <2>9, <2>10 DEF PublishInv
    <2> QED
      BY <1>0, <2>5, <2>11, SameServed
  <1>10. ASSUME NEW p \in Runs, Sign(p) PROVE ReleaseInv' /\ PublishInv(p)'
    <2> DEFINE t == run[p].todo \o <<INDEX, SIG>>
    <2>1. /\ Accepted(p) /\ Gathered(p) /\ run[p].pc = "sign"
          /\ OutDir(p)[INDEX] = NewListing(p) /\ run[p].acc \subseteq Record
      BY <1>0, <1>10, RunRecords DEF PublishInv, Sign
    <2>2. run[p].todo \in Seq(Asset) /\ <<INDEX, SIG>> \in Seq(Asset)
      BY AssetNames, RunOf DEF RunState
    <2>3. t \in Seq(Asset)
      BY <2>2, ConcatProperties
    <2>4. Ordered(t) /\ Left(p) \subseteq Elements(t) /\ Len(t) # 1
      BY <2>1, <2>2, OrderedPair DEF Gathered, Left
    <2> HIDE DEF t
    <2>5. PICK r \in RunState : r = [run[p] EXCEPT !.pc = "clobber", !.todo = t]
      BY <2>3, RunOf DEF RunState
    <2>6. /\ r.pc = "clobber" /\ r.todo = t /\ r.cur = run[p].cur /\ r.acc = run[p].acc
          /\ r.again = run[p].again /\ r.stale = run[p].stale
      BY <2>5, RunOf DEF RunState
    <2>7. run'[p] = r
      BY <1>10, <2>5, BecomesType DEF Sign, t
    <2>8. UNCHANGED <<release, reviewed, mans>>
      BY <1>10 DEF Sign
    <2>9. /\ out'[OutOf[p]][SIG] = NewListing(p)
          /\ \A a \in Asset : a # SIG => out'[OutOf[p]][a] = out[OutOf[p]][a]
      <3>1. SIG \in Asset
        BY AssetNames
      <3>2. PICK I : I = OutDir(p)[INDEX]
        OBVIOUS
      <3>3. Writes(p, SIG, I)
        BY <1>10, <3>2 DEF Sign, Writes
      <3>4. /\ out'[OutOf[p]][SIG] = I
            /\ \A a \in Asset : a # SIG => out'[OutOf[p]][a] = out[OutOf[p]][a]
        BY <3>1, <3>3, WriteOwn
      <3> QED
        BY <2>1, <3>2, <3>4
    <2>10. \A f \in Files : out'[OutOf[p]][f] = out[OutOf[p]][f]
      BY <2>9, AssetNames DEF Asset
    <2>11. Accepted(p)'
      BY <2>1, <2>6, <2>7, <2>8, <2>10, AcceptedCarried
    <2>12. ReleaseInv'
      BY <1>0, <2>8, SameServed
    <2>13. Uploading(p)'
      <3>1. NewListing(p)' = NewListing(p) /\ Left(p)' = Elements(t)
        BY <2>6, <2>7 DEF NewListing, Left
      <3>2. (OutDir(p)[INDEX] = NewListing(p) /\ OutDir(p)[SIG] = NewListing(p))'
        BY <2>1, <2>9, <3>1, AssetNames DEF OutDir
      <3>3. /\ served = run[p].cur.records /\ live[INDEX] = run[p].cur /\ live[SIG] = run[p].cur
            /\ Verifies(live) /\ run[p].cur.twice \subseteq doubled
        BY <1>0, <2>1 DEF ReleaseInv, Gathered, Verifies
      <3>4. UNCHANGED live /\ UNCHANGED served /\ UNCHANGED doubled
        BY <2>8 DEF release
      <3>5. Whole(served)'
        BY <2>12, <3>3, <3>4 DEF ReleaseInv, Verifies
      <3>6. PairAsUploaded(p)'
        <4>1. live'[INDEX] = r.cur /\ live'[SIG] = r.cur
          BY <2>6, <3>3, <3>4
        <4>2. Len(r.todo) # 1
          BY <2>4, <2>6
        <4> QED
          BY <2>7, <4>1, <4>2 DEF PairAsUploaded
      <3>7. \A s \in r.acc : FileOf(s) \in Elements(t)
        BY <2>1, <2>4, <2>6 DEF Gathered, FilesOf
      <3> QED
        BY <2>4, <2>6, <2>7, <3>1, <3>2, <3>3, <3>4, <3>5, <3>6, <3>7 DEF Uploading
    <2>14. PublishInv(p)'
      BY <2>6, <2>7, <2>11, <2>13 DEF PublishInv
    <2> QED
      BY <2>12, <2>14
  <1>11. ASSUME NEW p \in Runs, Clobber(p) PROVE ReleaseInv' /\ PublishInv(p)'
    <2> DEFINE a == Head(run[p].todo)
               n == Len(run[p].todo)
    <2>1. /\ Accepted(p) /\ Uploading(p) /\ run[p].pc = "clobber"
          /\ run[p].todo \in Seq(Asset) /\ a \in Asset /\ run[p].acc \subseteq Record
      BY <1>0, <1>11, NextUpload, RunRecords DEF PublishInv, Clobber
    <2>2. /\ n \in Nat \ {0} /\ a \in Left(p)
          /\ n = 1 => a = SIG
          /\ n = 2 => a = INDEX
          /\ n > 2 => a \in Files
      BY <2>1, OrderedHead, ElementsTail DEF Uploading, Left
    <2>3. PICK r \in RunState : r = [run[p] EXCEPT !.pc = "put"]
      BY RunOf DEF RunState
    <2>4. /\ r.pc = "put" /\ r.todo = run[p].todo /\ r.cur = run[p].cur /\ r.acc = run[p].acc
          /\ r.again = run[p].again /\ r.stale = run[p].stale
      BY <2>3, RunOf DEF RunState
    <2>5. run'[p] = r
      BY <1>11, <2>3, BecomesType DEF Clobber
    <2>6. /\ live'[a] = None /\ \A b \in Asset : b # a => live'[b] = live[b]
          /\ torn' = torn \cup ({a} \cap Files) /\ UNCHANGED <<store, served, promised, doubled, reviewed>>
      BY <1>11, <2>1 DEF Clobber, TypeOK, IsStore
    <2>7. NewListing(p)' = NewListing(p) /\ Left(p)' = Left(p)
      BY <2>4, <2>5 DEF NewListing, Left
    <2> HIDE DEF a, n
    <2>8. Whole(served)'
      <3>1. \A s \in served : /\ FileOf(s) \in Files /\ FileOf(s) \in Asset
                             /\ (Excused(s) => Excused(s)')
        BY <2>6, FileNames, ExcusedStays DEF TypeOK
      <3>2. \A s \in served : FileOf(s) \in torn \/ live[FileOf(s)] = s.sha \/ Excused(s)
        BY <2>1 DEF Whole, Uploading
      <3>3. \A s \in served : FileOf(s) \in torn' \/ live'[FileOf(s)] = s.sha \/ Excused(s)'
        <4>1. ASSUME NEW s \in served PROVE FileOf(s) \in torn' \/ live'[FileOf(s)] = live[FileOf(s)]
          BY <2>6, <3>1, <4>1
        <4>2. torn \subseteq torn'
          BY <2>6
        <4> QED
          BY <3>1, <3>2, <4>1, <4>2
      <3>4. UNCHANGED served
        BY <2>6
      <3> QED
        BY <3>3, <3>4 DEF Whole
    <2>9. ReleaseInv'
      <3>1. promised' \subseteq served'
        BY <1>0, <2>6 DEF ReleaseInv
      <3>2. ASSUME Verifies(live)'
            PROVE  served' = live'[INDEX].records /\ live'[INDEX].twice \subseteq doubled'
        <4>1. a # INDEX /\ a # SIG
          BY <2>6, <3>2 DEF Verifies
        <4>2. live'[INDEX] = live[INDEX] /\ live'[SIG] = live[SIG]
          BY <2>6, <4>1, AssetNames
        <4> QED
          BY <1>0, <2>6, <3>2, <4>2 DEF ReleaseInv, Verifies
      <3> QED
        BY <2>8, <3>1, <3>2 DEF ReleaseInv
    <2>10. Accepted(p)'
      BY <2>1, <2>4, <2>5, <2>6, AcceptedStays
    <2>11. PairAsUploaded(p)'
      <3>1. /\ n > 2 => live[INDEX] = run[p].cur
            /\ n > 1 => live[SIG] = run[p].cur
            /\ n = 1 => live[INDEX] = NewListing(p)
        BY <2>1 DEF Uploading, PairAsUploaded, n
      <3>2. /\ a # INDEX => live'[INDEX] = live[INDEX]
            /\ a = INDEX => live'[INDEX] = None
            /\ a # SIG => live'[SIG] = live[SIG]
            /\ a = SIG => live'[SIG] = None
        BY <2>6, AssetNames
      <3>3. /\ n > 2 => live'[INDEX] = run[p].cur
            /\ n = 2 => live'[INDEX] = None
            /\ n > 1 => live'[SIG] = run[p].cur
            /\ n = 1 => live'[INDEX] = NewListing(p) /\ live'[SIG] = None
        <4>1. /\ n > 2 => a # INDEX /\ a # SIG
              /\ n > 1 => a # SIG
          BY <2>2, AssetNames
        <4> QED
          BY <2>2, <3>1, <3>2, <4>1, AssetNames
      <3> QED
        BY <2>4, <2>5, <2>7, <3>3 DEF PairAsUploaded, n
    <2>12. Uploading(p)'
      <3>1. \A s \in run[p].acc :
              FileOf(s) \in Left(p) \/ live'[FileOf(s)] = s.sha \/ Shared(FileOf(s))'
        <4>1. \A s \in run[p].acc : FileOf(s) \in Asset
          BY <2>1, FileNames
        <4>2. \A f : Shared(f) => Shared(f)'
          BY <2>6, SharedStays
        <4> QED
          BY <2>1, <2>2, <2>6, <4>1, <4>2 DEF Uploading
      <3>2. a \in Files => a \in torn'
        BY <2>6
      <3>3. UNCHANGED out
        BY <2>6 DEF store
      <3> QED
        BY <2>1, <2>4, <2>5, <2>6, <2>7, <2>8, <2>11, <3>1, <3>2, <3>3 DEF Uploading, OutDir, a
    <2>13. PublishInv(p)'
      BY <2>4, <2>5, <2>10, <2>12 DEF PublishInv
    <2> QED
      BY <2>9, <2>13
  <1>12. ASSUME NEW p \in Runs, Put(p) PROVE ReleaseInv' /\ PublishInv(p)'
    <2> DEFINE todo == run[p].todo
               n == Len(todo)
    <2>1. /\ Store(p) /\ UNCHANGED <<store, reviewed>> /\ run[p].pc = "put" /\ Accepted(p) /\ Uploading(p)
          /\ run[p].acc \subseteq Record
      BY <1>0, <1>12, RunRecords DEF Put, Store, PublishInv
    <2>2. /\ todo \in Seq(Asset) /\ todo # <<>> /\ Tail(todo) \in Seq(Asset)
          /\ Ordered(todo) /\ n \in Nat \ {0}
      BY <2>1, NextUpload, OrderedHead DEF Uploading
    <2>3. PICK r \in RunState :
            r = [run[p] EXCEPT !.pc = IF n = 1 THEN "prune" ELSE "clobber",
                               !.todo = Tail(@), !.tries = 0]
      BY <2>1, PutType
    <2>4. /\ r.pc = (IF n = 1 THEN "prune" ELSE "clobber")
          /\ r.todo = Tail(todo) /\ r.cur = run[p].cur /\ r.acc = run[p].acc
          /\ r.again = run[p].again /\ r.stale = run[p].stale
      BY <2>3, RunOf DEF RunState
    <2>5. run'[p] = r
      BY <1>12, <2>3, BecomesType DEF Put
    <2>6. /\ ReleaseInv' /\ doubled \subseteq doubled'
          /\ served' \in {run[p].cur.records, NewListing(p).records} /\ Whole(served)'
          /\ n > 2 => live'[INDEX] = run[p].cur
          /\ n = 2 => live'[INDEX] = NewListing(p)
          /\ n > 1 => live'[SIG] = run[p].cur
          /\ n = 1 => /\ NewListing(p) # None
                      /\ live'[INDEX] = NewListing(p) /\ live'[SIG] = NewListing(p)
          /\ \A s \in run[p].acc : \/ FileOf(s) \in Elements(Tail(todo))
                                  \/ live'[FileOf(s)] = s.sha \/ Shared(FileOf(s))
      BY <1>0, <2>1, Stored
    <2>7. NewListing(p)' = NewListing(p) /\ Left(p)' = Elements(Tail(todo))
      BY <2>4, <2>5 DEF NewListing, Left
    <2>8. Accepted(p)'
      BY <2>1, <2>4, <2>5, AcceptedStays
    <2>9. CASE n = 1
      <3>1. Pruning(p)'
        BY <2>1, <2>4, <2>5, <2>6, <2>7, <2>9 DEF Pruning, Verifies, Uploading
      <3>2. PublishInv(p)'
        BY <2>4, <2>5, <2>8, <2>9, <3>1 DEF PublishInv
      <3> QED
        BY <2>6, <3>2
    <2>10. CASE n # 1
      <3>1. Ordered(Tail(todo)) /\ Len(Tail(todo)) = n - 1
        BY <2>2, <2>10, OrderedTail
      <3>2. PairAsUploaded(p)'
        <4>1. /\ Len(r.todo) > 2 => n > 2
              /\ Len(r.todo) = 2 => n > 2
              /\ Len(r.todo) > 1 => n > 1
              /\ Len(r.todo) = 1 => n = 2 /\ n > 1
          <5>1. PICK m \in Nat : m = n
            BY <2>2
          <5>2. PICK k : k = Len(r.todo) /\ k = m - 1
            BY <2>4, <3>1, <5>1
          <5>3. (k > 2 => m > 2) /\ (k = 2 => m > 2) /\ (k > 1 => m > 1) /\ (k = 1 => m = 2 /\ m > 1)
            BY <5>2
          <5> QED
            BY <5>1, <5>2, <5>3, Zenon
        <4> HIDE DEF n
        <4> QED
          BY <2>4, <2>5, <2>6, <2>7, <4>1 DEF PairAsUploaded
      <3>3. \A s \in run[p].acc : Shared(FileOf(s)) => Shared(FileOf(s))'
        BY <2>1, SharedStays
      <3>4. (OutDir(p)[INDEX] = NewListing(p) /\ OutDir(p)[SIG] = NewListing(p))'
        BY <2>1, <2>7 DEF Uploading, OutDir, store
      <3>5. Uploading(p)'
        BY <2>1, <2>4, <2>5, <2>6, <2>7, <2>10, <3>1, <3>2, <3>3, <3>4 DEF Uploading
      <3>6. PublishInv(p)'
        BY <2>4, <2>5, <2>8, <2>10, <3>5 DEF PublishInv
      <3> QED
        BY <2>6, <3>6
    <2> QED
      BY <2>9, <2>10
  <1>13. ASSUME NEW p \in Runs, UploadFails(p) PROVE ReleaseInv' /\ PublishInv(p)'
    <2>1. /\ Accepted(p) /\ Uploading(p) /\ run[p].pc \in {"clobber", "put"} /\ Retry(p)
          /\ UNCHANGED <<store, release, reviewed>>
      BY <1>0, <1>13 DEF PublishInv, UploadFails
    <2>2. ReleaseInv'
      BY <1>0, <2>1, SameServed
    <2>3. ASSUME NEW r \in RunState, r.pc = "clobber", r.todo = run[p].todo, r.cur = run[p].cur,
                 r.acc = run[p].acc, r.again = run[p].again, run'[p] = r
          PROVE  Uploading(p)'
      <3>1. UNCHANGED <<out, live, served, torn, doubled, reviewed>>
        BY <2>1 DEF store, release
      <3>2. \A s : (Excused(s) <=> Excused(s)') /\ (Shared(FileOf(s)) <=> Shared(FileOf(s))')
        BY <3>1 DEF Excused, Shared
      <3>3. Whole(served)'
        BY <2>1, <3>1, <3>2 DEF Uploading, Whole
      <3> QED
        BY <2>1, <2>3, <3>1, <3>2, <3>3 DEF Uploading, PairAsUploaded, Left, OutDir, NewListing
    <2> QED
      BY <2>1, <2>2, <2>3, RetryKept
  <1>14. ASSUME NEW p \in Runs, ReplyLost(p) PROVE ReleaseInv' /\ PublishInv(p)'
    <2> DEFINE todo == run[p].todo
               n == Len(todo)
    <2>1. /\ Store(p) /\ UNCHANGED <<store, reviewed>> /\ run[p].pc = "put" /\ Accepted(p) /\ Uploading(p)
          /\ Retry(p)
      BY <1>0, <1>14 DEF ReplyLost, Store, PublishInv
    <2>2. todo \in Seq(Asset) /\ todo # <<>> /\ n \in Nat \ {0}
      BY <2>1, NextUpload, OrderedHead DEF Uploading
    <2>3. /\ ReleaseInv' /\ doubled \subseteq doubled'
          /\ served' \in {run[p].cur.records, NewListing(p).records} /\ Whole(served)'
          /\ n > 2 => live'[INDEX] = run[p].cur
          /\ n = 2 => live'[INDEX] = NewListing(p)
          /\ n > 1 => live'[SIG] = run[p].cur
          /\ n = 1 => /\ NewListing(p) # None
                      /\ live'[INDEX] = NewListing(p) /\ live'[SIG] = NewListing(p)
          /\ \A s \in run[p].acc : \/ FileOf(s) \in Elements(Tail(todo))
                                  \/ live'[FileOf(s)] = s.sha \/ Shared(FileOf(s))
      BY <1>0, <2>1, Stored
    <2>4. Elements(Tail(todo)) \subseteq Left(p)
      BY <2>2, ElementsTail DEF Left
    <2>5. ASSUME NEW r \in RunState, r.pc = "clobber", r.todo = todo, r.cur = run[p].cur,
                 r.acc = run[p].acc, r.again = run[p].again, run'[p] = r
          PROVE  Uploading(p)'
      <3>1. NewListing(p)' = NewListing(p) /\ Left(p)' = Left(p)
        BY <2>5 DEF NewListing, Left
      <3>2. PairAsUploaded(p)'
        BY <2>3, <2>5, <3>1 DEF PairAsUploaded
      <3>3. \A s \in run[p].acc : Shared(FileOf(s)) => Shared(FileOf(s))'
        BY <2>1, SharedStays
      <3>4. UNCHANGED out
        BY <2>1 DEF store
      <3> QED
        BY <2>1, <2>3, <2>4, <2>5, <3>1, <3>2, <3>3, <3>4 DEF Uploading, OutDir
    <2> QED
      BY <2>1, <2>3, <2>5, RetryKept
  <1>15. ASSUME NEW p \in Runs, Prune(p) PROVE ReleaseInv' /\ PublishInv(p)'
    <2>1. PICK f \in run[p].stale : /\ Becomes(p, [run[p] EXCEPT !.stale = @ \ {f}])
                                    /\ live' \in {live, [live EXCEPT ![f] = None]}
      BY <1>15 DEF Prune
    <2>2. PICK r \in RunState : r = [run[p] EXCEPT !.stale = @ \ {f}]
      BY RunOf, MovedType
    <2>3. /\ r.pc = run[p].pc /\ r.todo = run[p].todo /\ r.cur = run[p].cur /\ r.acc = run[p].acc
          /\ r.again = run[p].again /\ r.stale = run[p].stale \ {f}
      BY <2>2, RunOf DEF RunState
    <2>4. run'[p] = r /\ NewListing(p)' = NewListing(p)
      BY <2>1, <2>2, <2>3, BecomesType DEF NewListing
    <2>5. run[p].pc = "prune" /\ Accepted(p) /\ Pruning(p) /\ f \in Files
      BY <1>0, <1>15, RunOf DEF Prune, PublishInv, RunState
    <2>6. \A b \in Asset : b # f => live'[b] = live[b]
      BY <2>1 DEF TypeOK, IsStore
    <2>7. live'[INDEX] = live[INDEX] /\ live'[SIG] = live[SIG]
      BY <2>5, <2>6, AssetNames
    <2>8. UNCHANGED <<store, reviewed>> /\ UNCHANGED <<served, promised, torn, doubled>>
      BY <1>15 DEF Prune
    <2>9. /\ served = NewListing(p).records /\ Whole(served) /\ promised \subseteq served
          /\ NewListing(p).twice \subseteq doubled
      BY <1>0, <2>5 DEF ReleaseInv, Pruning
    <2>10. ASSUME NEW s \in served, FileOf(s) = f PROVE Excused(s)
      <3>1. PICK x \in run[p].cur.records :
              /\ FileOf(x) = f /\ x.name \in NamesOf(run[p].acc)
              /\ \A y \in run[p].acc : (y.name = x.name /\ FileOf(y) = f)
                   => x.name \in run[p].again \cup run[p].cur.twice
        BY <2>5 DEF Accepted, Dropped, Replaced
      <3>2. /\ s \in run[p].acc \/ (s \in run[p].cur.records /\ s.name \notin NamesOf(run[p].acc))
            /\ run[p].again \subseteq doubled /\ run[p].cur.twice \subseteq doubled
        BY <2>5, <2>9, <2>10, NewRecords DEF Pruning
      <3>3. s \in reviewed /\ x \in reviewed
        BY <3>1, <3>2, RunRecords
      <3>4. CASE s.name = x.name
        BY <2>10, <3>1, <3>2, <3>4 DEF Excused
      <3>5. CASE s.name # x.name
        BY <2>10, <3>1, <3>3, <3>5, SameFile DEF Excused
      <3> QED
        BY <3>4, <3>5
    <2>11. Whole(served)'
      <3>1. \A s \in served : FileOf(s) \in Asset /\ (Excused(s) => Excused(s)')
        BY <2>8, FileNames, ExcusedStays DEF TypeOK
      <3> QED
        BY <2>6, <2>8, <2>9, <2>10, <3>1 DEF Whole
    <2>12. ReleaseInv'
      BY <2>5, <2>7, <2>8, <2>9, <2>11 DEF ReleaseInv, Pruning
    <2>13. Accepted(p)'
      BY <2>3, <2>4, <2>5, <2>8, AcceptedStays
    <2>14. Pruning(p)'
      BY <2>3, <2>4, <2>5, <2>7, <2>8 DEF Pruning, Verifies
    <2>15. PublishInv(p)'
      BY <2>3, <2>4, <2>5, <2>13, <2>14 DEF PublishInv
    <2> QED
      BY <2>12, <2>15
  <1>16. ASSUME NEW p \in Runs, Close(p) PROVE ReleaseInv' /\ PublishInv(p)'
    <2>1. Pruning(p) /\ run[p].pc = "prune"
      BY <1>0, <1>16 DEF Close, PublishInv
    <2>2. run[p].acc \subseteq served /\ promised \subseteq served
      BY <1>0, <2>1, NewRecords DEF ReleaseInv, Pruning
    <2>3. promised' \subseteq served
      BY <1>16, <2>2 DEF Close, Replace, Registry!Replace
    <2>4. UNCHANGED <<live, served, torn, doubled, reviewed>>
      BY <1>16 DEF Close
    <2>5. Whole(served) => Whole(served)'
      BY <2>4, ExcusedStays DEF Whole
    <2>6. ReleaseInv'
      BY <1>0, <2>3, <2>4, <2>5 DEF ReleaseInv, Verifies
    <2> QED
      BY <1>16, <2>6, OneDeath DEF Close
  <1>17. ASSUME NEW p \in Runs, CloseFails(p) PROVE ReleaseInv' /\ PublishInv(p)'
    BY <1>0, <1>17, SameServed, OneDeath DEF CloseFails
  <1>18. ASSUME NEW p \in Runs, Crash(p) PROVE ReleaseInv' /\ PublishInv(p)'
    BY <1>0, <1>18, SameServed, OneDeath DEF Crash
  <1>19. ASSUME UNCHANGED <<run, store, release, reviewed>> PROVE OneInv'
    <2>1. ReleaseInv'
      BY <1>0, <1>19, SameServed
    <2>2. ASSUME NEW p \in Runs PROVE PublishInv(p)'
      <3>1. UNCHANGED <<live, out, mans, served, torn, doubled>>
        BY <1>19 DEF store, release
      <3>2. \A r : (Excused(r)' <=> Excused(r)) /\ (Shared(FileOf(r))' <=> Shared(FileOf(r)))
        BY <1>19, <3>1 DEF Excused, Shared
      <3>3. \A r : Kept(p, r)' <=> Kept(p, r)
        BY <3>1 DEF Kept, OutDir
      <3>4. \A g : Dropped(p, g) => Dropped(p, g)'
        <4>1. UNCHANGED run /\ Asked(p)' = Asked(p)
          BY <1>19 DEF Asked, Pinned
        <4> QED
          BY <4>1 DEF Dropped, Replaced
      <3>5. Accepted(p) => Accepted(p)'
        BY <1>19, <3>2, <3>3, <3>4 DEF Accepted, Replaced, Asked, Pinned
      <3>6. Gathered(p) => Gathered(p)'
        BY <1>19, <3>1 DEF Gathered, Verifies, Left
      <3>7. Whole(served) => Whole(served)'
        BY <3>1, <3>2 DEF Whole
      <3>8. NewListing(p)' = NewListing(p)
        BY <1>19 DEF NewListing
      <3>9. Uploading(p) => Uploading(p)'
        BY <1>19, <3>1, <3>2, <3>7, <3>8 DEF Uploading, PairAsUploaded, OutDir, Left
      <3>10. Pruning(p) => Pruning(p)'
        BY <1>19, <3>1, <3>8 DEF Pruning, Verifies
      <3>11. PublishInv(p)
        BY <1>0
      <3> QED
        BY <1>19, <3>1, <3>5, <3>6, <3>8, <3>9, <3>10, <3>11 DEF PublishInv, OutDir
    <2> QED
      BY <2>1, <2>2 DEF OneInv
  <1>20. ASSUME NEW q \in PRs, Push(q) PROVE OneInv'
    BY <1>19, <1>20 DEF Push
  <1>21. CASE UNCHANGED vars
    BY <1>19, <1>21 DEF vars, store, release
  <1>22. ASSUME NEW p \in Runs, Step(p) PROVE ReleaseInv' /\ PublishInv(p)'
    BY <1>22, <1>1, <1>2, <1>3, <1>4, <1>5, <1>6, <1>7, <1>8, <1>9, <1>10, <1>11, <1>12, <1>13,
       <1>14, <1>15, <1>16, <1>17, <1>18 DEF Step, Proceed
  <1>23. ASSUME NEW p \in Runs, Step(p) PROVE OneInv'
    <2>1. ASSUME NEW q \in Runs, q # p PROVE PublishInv(q)'
      <3>1. run'[q].pc = "idle" /\ run'[q] = run[q]
        BY <1>23, <2>1, OthersIdle
      <3> QED
        BY <1>0, <3>1 DEF PublishInv
    <2> QED
      BY <1>22, <1>23, <2>1 DEF OneInv
  <1> QED
    BY <1>20, <1>21, <1>23 DEF Next

\* The initial release is whole: it holds the tarballs of its listing.
LEMMA OneInvInit == Init => OneInv
  <1> SUFFICES ASSUME Init PROVE OneInv
    OBVIOUS
  <1>1. ASSUME NEW r \in Index0 PROVE live[FileOf(r)] = r.sha \/ Excused(r)
    <2>1. r \in Record /\ FileOf(r) \in Asset /\ FileOf(r) \in Files
      BY Index0Assumption, FileNames
    <2>2. live[FileOf(r)] = (CHOOSE s \in Index0 : FileOf(s) = FileOf(r)).sha
      BY <2>1, AssetNames DEF Init
    <2>3. PICK s \in Index0 : s = (CHOOSE x \in Index0 : FileOf(x) = FileOf(r)) /\ FileOf(s) = FileOf(r)
      OBVIOUS
    <2>4. s = r \/ s.name # r.name
      BY Index0Assumption
    <2>5. s.name # r.name => Shared(FileOf(r))
      BY <2>3 DEF Init, Shared
    <2> QED
      BY <2>2, <2>3, <2>4, <2>5 DEF Excused
  <1>2. Whole(served) /\ live[INDEX].records = served /\ live[INDEX].twice = {}
    <2>1. live[INDEX] = Plain(Index0) /\ served = Index0
      BY AssetNames DEF Init
    <2> QED
      BY <1>1, <2>1 DEF Whole, Plain
  <1>3. ReleaseInv
    BY <1>2 DEF ReleaseInv, Init
  <1>4. \A p \in Runs : PublishInv(p)
    BY DEF Init, PublishInv, Idle
  <1> QED
    BY <1>3, <1>4 DEF OneInv

\* The invariants together, for maintainers who take turns.
LEMMA OneInvariant ==
  Spec /\ []TakeTurns => [](TypeOK /\ ReviewedInv /\ OneInv)
  <1>1. Init => TypeOK /\ ReviewedInv /\ OneInv
    BY TypeInit, ReviewedInit, OneInvInit
  <1>2. TypeOK /\ ReviewedInv /\ OneInv /\ TakeTurns /\ TakeTurns' /\ [Next]_vars
          => (TypeOK /\ ReviewedInv /\ OneInv)'
    BY TypeStep, ReviewedStep, OneInvStep
  <1> QED
    BY <1>1, <1>2, PTL DEF Spec

\* While runs take turns, a listing that verifies is whole in every reachable state,
\* wherever a run died or a request failed before -- but for an upload cut short,
\* for a file name two confirmed packages share and for a package listed twice.
THEOREM ListingIsWhole ==
  Spec /\ []TakeTurns => []VerifiedListingIsWhole
  <1>1. OneInv => VerifiedListingIsWhole
    BY DEF OneInv, ReleaseInv, Whole, Excused, VerifiedListingIsWhole
  <1> QED
    BY <1>1, OneInvariant, PTL

\* While runs take turns, what an author was told is published stays listed until a
\* publication of that package replaces it.
THEOREM PromisesAreKept ==
  Spec /\ []TakeTurns => []PromiseKept
  <1>1. OneInv => PromiseKept
    BY DEF OneInv, ReleaseInv, PromiseKept
  <1> QED
    BY <1>1, OneInvariant, PTL

\* A run that finds the pair broken gets no further than its check of it.
LEMMA StoppedStep ==
  TypeOK /\ OneInv /\ Stopped /\ [Next]_vars => Stopped' /\ live' = live
  <1> SUFFICES ASSUME TypeOK, OneInv, Stopped, [Next]_vars PROVE Stopped' /\ live' = live
    OBVIOUS
  <1> DEFINE Early == {"idle", "fetch", "download", "verify"}
  <1>1. ~Verifies(live) /\ \A p \in Runs : run[p].pc \in Early /\ PublishInv(p)
    BY DEF Stopped, OneInv
  <1>2. ASSUME NEW p \in Runs, UNCHANGED live, run'[p].pc \in Early,
               \A q \in Runs \ {p} : run'[q] = run[q]
        PROVE  Stopped' /\ live' = live
    BY <1>1, <1>2 DEF Stopped, Verifies
  <1>3. ASSUME NEW p \in Runs, UNCHANGED live, Die(p) PROVE Stopped' /\ live' = live
    BY <1>2, <1>3, BecomesType, IdleType DEF Die, Idle
  <1>4. ASSUME NEW p \in Runs, NEW pc \in Early, NEW r, UNCHANGED live, Becomes(p, r), r.pc = pc
        PROVE  Stopped' /\ live' = live
    BY <1>2, <1>4 DEF Becomes, TypeOK
  <1>5. ASSUME NEW p \in Runs, NEW q \in PRs, Start(p, q) PROVE Stopped' /\ live' = live
    BY <1>4, <1>5 DEF Start, release, store, Idle
  <1>6. ASSUME NEW p \in Runs, Fetch(p) PROVE Stopped' /\ live' = live
    <2>1. run[p] \in RunState
      BY RunOf
    <2>2. [run[p] EXCEPT !.pc = "download", !.head = pulls[run[p].pr].head].pc = "download"
      BY <2>1 DEF RunState
    <2> QED
      BY <1>4, <1>6, <2>2 DEF Fetch, release, store
  <1>7. ASSUME NEW p \in Runs, Download(p) PROVE Stopped' /\ live' = live
    <2>1. run[p] \in RunState
      BY RunOf
    <2>2. [run[p] EXCEPT !.pc = "verify", !.cur = live[INDEX]].pc = "verify"
      BY <2>1 DEF RunState
    <2> QED
      BY <1>3, <1>4, <1>7, <2>2 DEF Download, release, store
  <1>8. ASSUME NEW p \in Runs, Verify(p) PROVE Stopped' /\ live' = live
    <2>1. live[SIG] # run[p].cur
      BY <1>1, <1>8 DEF Verify, PublishInv, Verifies
    <2> QED
      BY <1>3, <1>8, <2>1 DEF Verify, release, store
  <1>9. ASSUME NEW p \in Runs, Crash(p) PROVE Stopped' /\ live' = live
    BY <1>3, <1>9 DEF Crash, release, store
  <1>10. ASSUME NEW q \in PRs, Push(q) PROVE Stopped' /\ live' = live
    BY <1>10 DEF Push, Stopped, release, Verifies
  <1>11. CASE UNCHANGED vars
    BY <1>11 DEF vars, Stopped, Verifies
  <1>12. ASSUME NEW p \in Runs
         PROVE  ~(\/ Review(p) \/ Confirm(p) \/ Copy(p) \/ Decline(p) \/ Proceed(p)
                  \/ UploadFails(p) \/ ReplyLost(p) \/ CloseFails(p))
    BY <1>1 DEF Review, Confirm, Copy, Decline, Proceed, Build, Sign, Clobber, Put, Store, Prune,
                Close, UploadFails, ReplyLost, CloseFails
  <1> QED
    BY <1>5, <1>6, <1>7, <1>8, <1>9, <1>10, <1>11, <1>12 DEF Next, Step

\* While runs take turns: once a run has died between INDEX and INDEX.sig the release stays as it is.
THEOREM BrokenPairStays ==
  Spec /\ []TakeTurns => StaysStopped
  <1>1. TypeOK /\ OneInv /\ [Next]_vars => [Stopped => Stopped' /\ live' = live]_vars
    BY StoppedStep
  <1> QED
    BY <1>1, OneInvariant, PTL DEF Spec, StaysStopped

\* Publishing again what a listing already has changes nothing of it.
LEMMA ReplaceTwice ==
  ASSUME NEW I, NEW R
  PROVE  Replace(Replace(I, R), R) = Replace(I, R)
BY DEF Replace, Registry!Replace, Registry!NamesOf

\* An upload is a publication in the registry, or nothing to those who look.
LEMMA StorePublishes ==
  ASSUME TypeOK, ReviewedInv, NEW p \in Runs, PublishInv(p), Store(p)
  PROVE  Registry!Publish(run[p].acc) \/ UNCHANGED <<served, promised>>
  <1> DEFINE a == Head(run[p].todo)
  <1>1. /\ run[p].pc = "put" /\ Uploading(p) /\ a \in Asset
        /\ run[p].todo \in Seq(Asset) /\ Ordered(run[p].todo)
    BY NextUpload DEF Store, PublishInv, Uploading
  <1>2. /\ live'[a] = OutDir(p)[a] /\ \A b \in Asset : b # a => live'[b] = live[b]
        /\ IF a \in {INDEX, SIG} /\ Verifies(live')
           THEN /\ served' = live'[INDEX].records
                /\ promised' = {r \in promised : r.name \in NamesOf(run[p].acc) => r \in run[p].acc}
           ELSE UNCHANGED <<served, promised>>
    BY <1>1 DEF Store, TypeOK, IsStore
  <1>3. CASE a \in {INDEX, SIG} /\ Verifies(live')
    <2>1. live'[INDEX] = NewListing(p)
      <3>1. a = INDEX => live'[INDEX] = NewListing(p)
        BY <1>1, <1>2 DEF Uploading
      <3>2. a = SIG => live'[SIG] = NewListing(p)
        BY <1>1, <1>2 DEF Uploading
      <3> QED
        BY <1>3, <3>1, <3>2 DEF Verifies
    <2>2. served' = Replace(served, run[p].acc)
      <3>1. NewListing(p).records = Replace(run[p].cur.records, run[p].acc)
        BY DEF NewListing, NewIndex
      <3>2. served = run[p].cur.records \/ served = Replace(run[p].cur.records, run[p].acc)
        BY <1>1, <3>1 DEF Uploading
      <3> QED
        BY <1>2, <1>3, <2>1, <3>1, <3>2, ReplaceTwice
    <2> QED
      BY <1>2, <1>3, <2>2 DEF Registry!Publish, Replace, NamesOf
  <1> QED
    BY <1>2, <1>3

\* Every step of the script is one of the registry or leaves it as it is.
LEMMA RegistryStep ==
  TypeOK /\ ReviewedInv /\ OneInv /\ [Next]_vars => [Registry!Next]_<<served, promised>>
  <1> SUFFICES ASSUME TypeOK, ReviewedInv, OneInv, [Next]_vars
               PROVE  [Registry!Next]_<<served, promised>>
    OBVIOUS
  <1>1. ASSUME NEW R, Registry!Publish(R) PROVE [Registry!Next]_<<served, promised>>
    <2>1. CASE R = {}
      BY <1>1, <2>1 DEF Registry!Publish, Registry!Replace, Registry!NamesOf
    <2>2. CASE R # {}
      <3>1. R \subseteq served'
        BY <1>1 DEF Registry!Publish, Registry!Replace
      <3> QED
        BY <1>1, <2>2, <3>1 DEF Registry!Next
    <2> QED
      BY <2>1, <2>2
  <1>6. ASSUME NEW p \in Runs, Store(p) PROVE [Registry!Next]_<<served, promised>>
    <2>1. Registry!Publish(run[p].acc) \/ UNCHANGED <<served, promised>>
      BY <1>6, StorePublishes DEF OneInv
    <2> QED
      BY <1>1, <2>1
  <1>2. ASSUME NEW p \in Runs, Close(p) PROVE [Registry!Next]_<<served, promised>>
    <2>1. run[p].acc \subseteq served /\ UNCHANGED served
      BY <1>2, NewRecords DEF OneInv, ReleaseInv, PublishInv, Pruning, Close
    <2>2. Registry!Announce(run[p].acc)
      BY <1>2, <2>1 DEF Registry!Announce, Close, Replace
    <2>3. CASE run[p].acc = {}
      BY <2>2, <2>3 DEF Registry!Announce, Registry!Replace, Registry!NamesOf
    <2>4. CASE run[p].acc # {}
      BY <2>1, <2>2, <2>4 DEF Registry!Next
    <2> QED
      BY <2>3, <2>4
  <1>3. ASSUME NEW p \in Runs, ~Store(p), ~Close(p), Step(p) PROVE UNCHANGED <<served, promised>>
    BY <1>3 DEF Step, Start, Fetch, Download, Verify, Review, Confirm, Copy, Decline, Proceed,
       Build, Sign, Clobber, Put, Prune, UploadFails, ReplyLost, CloseFails, Crash, release
  <1>4. ASSUME NEW q \in PRs, Push(q) PROVE UNCHANGED <<served, promised>>
    BY <1>4 DEF Push, release
  <1>5. CASE UNCHANGED vars
    BY <1>5 DEF vars
  <1> QED
    BY <1>6, <1>2, <1>3, <1>4, <1>5 DEF Next

\* While runs take turns, the release implements the registry: a crash or a failed
\* request at any point of an upload shows nothing but whole publications.
THEOREM ReleaseIsARegistry ==
  Spec /\ []TakeTurns => ImplementsRegistry
  <1>1. Init => Registry!Init
    BY DEF Init, Registry!Init
  <1>2. TypeOK /\ ReviewedInv /\ OneInv /\ [Next]_vars => [Registry!Next]_(Registry!vars)
    BY RegistryStep DEF Registry!vars
  <1> QED
    BY <1>1, <1>2, OneInvariant, PTL DEF Spec, ImplementsRegistry, Registry!Spec

\* No out/ directory is used by two runs at the same time.
OutsTaken ==
  \A p, q \in Runs : (OutOf[p] = OutOf[q] /\ run[p].pc # "idle" /\ run[q].pc # "idle") => p = q

\* What is at the prompt was compared with every package of another stem in out/.
Compared(p) ==
  run[p].pc \in {"prompt", "copy"} =>
    \A f \in Files : (Stem[f] # Asked(p).name /\ OutDir(p)[f] # None)
      => Paths[OutDir(p)[f]] \cap Paths[Pinned(p)[run[p].dir].blob] = {}

DisjointInv == OutPackagesDisjoint /\ \A p \in Runs : Compared(p)

\* Fewer tarballs in out/, with the manifests they had, have fewer files in common.
LEMMA FewerFiles ==
  ASSUME OutPackagesDisjoint,
         \A o \in Outs : \A f \in Files :
           \/ out'[o][f] = None
           \/ out'[o][f] = out[o][f] /\ mans'[o][f] = mans[o][f]
  PROVE  OutPackagesDisjoint'
  <1> SUFFICES ASSUME NEW o \in Outs, NEW f \in Files, NEW g \in Files,
                      f # g, out'[o][f] # None, out'[o][g] # None
               PROVE  \/ Paths[out'[o][f]] \cap Paths[out'[o][g]] = {}
                      \/ Stem[f] = mans'[o][g] \/ Stem[g] = mans'[o][f]
    BY DEF OutPackagesDisjoint
  <1>1. /\ out'[o][f] = out[o][f] /\ out'[o][g] = out[o][g]
        /\ mans'[o][f] = mans[o][f] /\ mans'[o][g] = mans[o][g]
    OBVIOUS
  <1> QED
    BY <1>1 DEF OutPackagesDisjoint

\* A step of p, which writes to no other out/, leaves the others compared.
LEMMA OthersCompared ==
  ASSUME TypeOK, NEW p \in Runs, Step(p), OutsTaken, OutsTaken',
         \A o \in Outs \ {OutOf[p]} : out'[o] = out[o],
         NEW q \in Runs, q # p, Compared(q)
  PROVE  Compared(q)'
  <1>1. run'[q] = run[q] /\ OutOf[q] \in Outs
    BY OwnStep, OutAssumption
  <1>2. CASE OutOf[q] = OutOf[p]
    <2>1. run'[q].pc = "idle"
      BY <1>1, <1>2, OwnStep DEF OutsTaken
    <2> QED
      BY <2>1 DEF Compared
  <1>3. CASE OutOf[q] # OutOf[p]
    BY <1>1, <1>3 DEF Compared, OutDir, Pinned, Asked
  <1> QED
    BY <1>2, <1>3

\* Where a step of a run may write.
LEMMA OwnOutWritten ==
  ASSUME TypeOK, NEW p \in Runs, Step(p)
  PROVE  \A o \in Outs \ {OutOf[p]} : out'[o] = out[o] /\ mans'[o] = mans[o]
  <1>1. CASE UNCHANGED store
    BY <1>1 DEF store
  <1>2. CASE Confirm(p) \/ Copy(p) \/ Build(p) \/ Sign(p)
    BY <1>2 DEF TypeOK, Confirm, Copy, Build, Sign
  <1> QED
    BY <1>1, <1>2 DEF Step, Start, Fetch, Download, Verify, Review, Decline, Proceed, Clobber, Put,
       Prune, Close, UploadFails, ReplyLost, CloseFails, Crash

\* Every step keeps DisjointInv.
LEMMA DisjointStep ==
  TypeOK /\ ReviewedInv /\ DisjointInv /\ OutsTaken /\ OutsTaken' /\ [Next]_vars => DisjointInv'
  <1> SUFFICES ASSUME TypeOK, ReviewedInv, DisjointInv, OutsTaken, OutsTaken', [Next]_vars
               PROVE  DisjointInv'
    OBVIOUS
  <1>1. ASSUME UNCHANGED <<run, store>> PROVE DisjointInv'
    BY <1>1 DEF DisjointInv, OutPackagesDisjoint, Compared, OutDir, Pinned, Asked, store
  <1>2. ASSUME NEW p \in Runs, Step(p) PROVE DisjointInv'
    <2> SUFFICES OutPackagesDisjoint' /\ Compared(p)'
      BY <1>2, OwnOutWritten, OthersCompared DEF DisjointInv
    <2>0. OutPackagesDisjoint /\ Compared(p)
      BY DEF DisjointInv
    <2>1. ASSUME UNCHANGED store, run'[p].pc \notin {"prompt", "copy"}
          PROVE  OutPackagesDisjoint' /\ Compared(p)'
      BY <2>0, <2>1 DEF OutPackagesDisjoint, Compared, store
    <2>2. CASE Review(p)
      <3>1. CASE Die(p)
        <4>1. run'[p].pc = "idle"
          BY <3>1, BecomesType, IdleType DEF Die, Idle
        <4> QED
          BY <2>1, <2>2, <4>1 DEF Review
      <3>2. ASSUME NEW d \in run[p].dirs, Passes(p, d),
                   Becomes(p, [run[p] EXCEPT !.pc = "prompt", !.dir = d])
            PROVE  OutPackagesDisjoint' /\ Compared(p)'
        <4>1. PICK r \in RunState : r = [run[p] EXCEPT !.pc = "prompt", !.dir = d]
          <5>1. d \in Manifest
            BY RunOf DEF RunState
          <5> QED
            BY <5>1, RunOf, MovedType
        <4>2. r.pr = run[p].pr /\ r.head = run[p].head /\ r.dir = d
          BY <4>1, RunOf DEF RunState
        <4>3. run'[p] = r /\ UNCHANGED store
          BY <2>2, <3>2, <4>1, BecomesType DEF Review
        <4>4. \A f \in Files : (Stem[f] # Pinned(p)[d].man.name /\ OutDir(p)[f] # None)
                => Paths[OutDir(p)[f]] \cap Paths[Pinned(p)[d].blob] = {}
          BY <3>2 DEF Passes, Clash, OutDir
        <4>5. /\ Pinned(p)' = Pinned(p) /\ OutDir(p)' = OutDir(p)
              /\ Asked(p)' = Pinned(p)[d].man
          BY <4>2, <4>3 DEF Pinned, OutDir, Asked, store
        <4>6. OutPackagesDisjoint'
          BY <2>0, <4>3 DEF OutPackagesDisjoint, store
        <4> QED
          BY <4>2, <4>3, <4>4, <4>5, <4>6 DEF Compared
      <3> QED
        BY <2>2, <3>1, <3>2 DEF Review
    <2>3. CASE Confirm(p)
      <3> DEFINE d == run[p].dir
                 m == Asked(p)
                 S == run[p].stale \cup Old(run[p].cur, m)
                 gone == {f \in Files : mans[OutOf[p]][f] = m.name}
      <3>1. S \in SUBSET Files
        <4>1. \A g \in Old(run[p].cur, m) : g \in Files
          BY RunRecords, FileNames DEF Old, RecordsOf
        <4> QED
          BY <4>1, RunOf DEF RunState
      <3>2. PICK r \in RunState : r = [run[p] EXCEPT !.pc = "copy", !.stale = S]
        BY <3>1, RunOf, MovedType
      <3>3. r.pr = run[p].pr /\ r.head = run[p].head /\ r.dir = d
        <4> HIDE DEF S
        <4> QED
          BY <3>2, RunOf DEF RunState
      <3>4. run'[p] = r
        BY <2>3, <3>2, BecomesType DEF Confirm, Asked
      <3>5. /\ out' = [out EXCEPT ![OutOf[p]] = [a \in Asset |-> IF a \in gone THEN None ELSE @[a]]]
            /\ mans' = [mans EXCEPT ![OutOf[p]] = [f \in Files |-> IF f \in gone THEN None ELSE @[f]]]
        BY <2>3 DEF Confirm, Asked
      <3> HIDE DEF gone
      <3>6. \A o \in Outs : \A f \in Files :
              \/ out'[o][f] = None
              \/ out'[o][f] = out[o][f] /\ mans'[o][f] = mans[o][f]
        BY <3>5, OutAssumption DEF TypeOK, Asset
      <3>7. Pinned(p)' = Pinned(p) /\ OutOf[p] \in Outs /\ run[p].pc = "prompt" /\ Asked(p)' = Asked(p)
        BY <2>3, <3>3, <3>4, OutAssumption DEF Pinned, Confirm, Asked
      <3>8. Compared(p)'
        BY <2>0, <3>3, <3>4, <3>6, <3>7 DEF Compared, OutDir
      <3> QED
        BY <2>0, <3>6, <3>8, FewerFiles
    <2>4. CASE Copy(p)
      <3> DEFINE m == Asked(p)
                 d == FileOf(m)
                 b == Pinned(p)[run[p].dir].blob
      <3>1. d \in Files /\ d \in Asset /\ run[p].pc = "copy"
        BY <2>4, PinnedType DEF Copy, Asset, Asked
      <3>2. \A f \in Files : (Stem[f] # m.name /\ OutDir(p)[f] # None)
              => Paths[OutDir(p)[f]] \cap Paths[b] = {}
        BY <2>0, <3>1 DEF Compared
      <3>3. Writes(p, d, b) /\ mans' = [mans EXCEPT ![OutOf[p]][d] = m.name]
        BY <2>4 DEF Copy, Writes, Asked
      <3> HIDE DEF b, d, m
      <3>4. /\ out'[OutOf[p]][d] = b
            /\ \A a \in Asset : a # d => out'[OutOf[p]][a] = out[OutOf[p]][a]
        BY <3>1, <3>3, WriteOwn
      <3>5. /\ mans'[OutOf[p]][d] = m.name
            /\ \A f \in Files : f # d => mans'[OutOf[p]][f] = mans[OutOf[p]][f]
        BY <3>1, <3>3, OutAssumption DEF TypeOK
      <3>6. OutPackagesDisjoint'
        <4> SUFFICES ASSUME NEW o \in Outs, NEW f \in Files, NEW g \in Files,
                            f # g, out'[o][f] # None, out'[o][g] # None
                     PROVE  \/ Paths[out'[o][f]] \cap Paths[out'[o][g]] = {}
                            \/ Stem[f] = mans'[o][g] \/ Stem[g] = mans'[o][f]
          BY DEF OutPackagesDisjoint
        <4>1. CASE o # OutOf[p]
          <5>1. out'[o] = out[o] /\ mans'[o] = mans[o]
            BY <1>2, <4>1, OwnOutWritten
          <5> QED
            BY <2>0, <5>1 DEF OutPackagesDisjoint
        <4>2. CASE o = OutOf[p]
          <5>1. \A h \in Files : h # d => out'[o][h] = out[o][h] /\ mans'[o][h] = mans[o][h]
            BY <3>4, <3>5, <4>2 DEF Asset
          <5>2. out'[o][d] = b /\ mans'[o][d] = m.name
            BY <3>4, <3>5, <4>2
          <5>3. ASSUME NEW h \in Files, h # d, out'[o][h] # None, Stem[h] # m.name
                PROVE  Paths[out'[o][h]] \cap Paths[b] = {}
            BY <3>2, <4>2, <5>1, <5>3 DEF OutDir
          <5>4. CASE f = d
            BY <5>2, <5>3, <5>4
          <5>5. CASE g = d
            BY <5>2, <5>3, <5>5
          <5>6. CASE f # d /\ g # d
            BY <2>0, <5>1, <5>6 DEF OutPackagesDisjoint
          <5> QED
            BY <5>4, <5>5, <5>6
        <4> QED
          BY <4>1, <4>2
      <3>7. run'[p].pc = "review"
        <4>1. PICK acc, again, todo, dirs :
                Becomes(p, [run[p] EXCEPT !.pc = "review", !.dirs = dirs, !.dir = None,
                                           !.again = again, !.acc = acc, !.todo = todo])
          BY <2>4 DEF Copy
        <4>2. PICK r : r = [run[p] EXCEPT !.pc = "review", !.dirs = dirs, !.dir = None,
                                           !.again = again, !.acc = acc, !.todo = todo]
          OBVIOUS
        <4>3. r.pc = "review"
          BY <4>2, RunOf DEF RunState
        <4> QED
          BY <4>1, <4>2, <4>3 DEF Becomes, TypeOK
      <3> QED
        BY <3>6, <3>7 DEF Compared
    <2>5. ASSUME NEW pc, NEW a \in {INDEX, SIG}, NEW x, Writes(p, a, x), UNCHANGED mans,
                 run'[p].pc = pc, pc \notin {"prompt", "copy"}
          PROVE  OutPackagesDisjoint' /\ Compared(p)'
      <3>1. a \in Asset /\ a \notin Files
        BY AssetNames
      <3>2. \A b \in Asset : b # a => out'[OutOf[p]][b] = out[OutOf[p]][b]
        BY <2>5, <3>1, WriteOwn
      <3>3. \A o \in Outs \ {OutOf[p]} : out'[o] = out[o]
        BY <1>2, OwnOutWritten
      <3>4. \A o \in Outs : \A f \in Files :
              out'[o][f] = out[o][f] /\ mans'[o][f] = mans[o][f]
        BY <2>5, <3>1, <3>2, <3>3 DEF Asset
      <3> QED
        BY <2>0, <2>5, <3>4, FewerFiles DEF Compared
    <2>6. CASE Build(p)
      <3>1. PICK r \in RunState : r = [run[p] EXCEPT !.pc = "sign"]
        BY RunOf DEF RunState
      <3>2. r.pc = "sign" /\ run'[p] = r
        BY <2>6, <3>1, RunOf, BecomesType DEF Build, RunState
      <3> QED
        BY <2>5, <2>6, <3>2 DEF Build, Writes
    <2>7. CASE Sign(p)
      <3>1. PICK r : r = [run[p] EXCEPT !.pc = "clobber", !.todo = @ \o <<INDEX, SIG>>]
        OBVIOUS
      <3>2. r.pc = "clobber"
        BY <3>1, RunOf DEF RunState
      <3>3. run'[p] = r
        BY <2>7, <3>1 DEF Sign, Becomes, TypeOK
      <3> QED
        BY <2>5, <2>7, <3>2, <3>3 DEF Sign, Writes
    <2>8. CASE ~(Review(p) \/ Confirm(p) \/ Copy(p) \/ Build(p) \/ Sign(p))
      <3>1. UNCHANGED store
        BY <1>2, <2>8 DEF Step, Start, Fetch, Download, Verify, Decline, Proceed, Clobber, Put,
           Prune, Close, UploadFails, ReplyLost, CloseFails, Crash
      <3>2. run'[p].pc \notin {"prompt", "copy"}
        <4>1. \A r : Becomes(p, r) => run'[p] = r
          BY DEF Becomes, TypeOK
        <4>2. ASSUME Die(p) PROVE run'[p].pc \notin {"prompt", "copy"}
          BY <4>1, <4>2 DEF Die, Idle
        <4>3. ASSUME NEW q \in PRs, Start(p, q) PROVE run'[p].pc \notin {"prompt", "copy"}
          <5>1. [Idle EXCEPT !.pc = "fetch", !.pr = q, !.dirs = DOMAIN Submitted(q)].pc = "fetch"
            BY DEF Idle
          <5> QED
            BY <4>1, <4>3, <5>1 DEF Start
        <4>4. run[p] \in RunState
          BY RunOf
        <4>5. ASSUME Fetch(p) PROVE run'[p].pc \notin {"prompt", "copy"}
          <5>1. [run[p] EXCEPT !.pc = "download", !.head = pulls[run[p].pr].head].pc = "download"
            BY <4>4 DEF RunState
          <5> QED
            BY <4>1, <4>5, <5>1 DEF Fetch
        <4>6. ASSUME Download(p) PROVE run'[p].pc \notin {"prompt", "copy"}
          <5>1. [run[p] EXCEPT !.pc = "verify", !.cur = live[INDEX]].pc = "verify"
            BY <4>4 DEF RunState
          <5> QED
            BY <4>1, <4>2, <4>6, <5>1 DEF Download
        <4>7. ASSUME Verify(p) PROVE run'[p].pc \notin {"prompt", "copy"}
          <5>1. [run[p] EXCEPT !.pc = "review"].pc = "review"
            BY <4>4 DEF RunState
          <5> QED
            BY <4>1, <4>2, <4>7, <5>1 DEF Verify
        <4>8. ASSUME Clobber(p) PROVE run'[p].pc \notin {"prompt", "copy"}
          <5>1. [run[p] EXCEPT !.pc = "put"].pc = "put"
            BY <4>4 DEF RunState
          <5> QED
            BY <4>1, <4>8, <5>1 DEF Clobber
        <4>9. ASSUME Put(p) PROVE run'[p].pc \notin {"prompt", "copy"}
          <5>1. PICK c \in {"prune", "clobber"} :
                  Becomes(p, [run[p] EXCEPT !.pc = c, !.todo = Tail(@), !.tries = 0])
            BY <4>9 DEF Put
          <5>2. [run[p] EXCEPT !.pc = c, !.todo = Tail(@), !.tries = 0].pc = c
            BY <4>4 DEF RunState
          <5> QED
            BY <4>1, <5>1, <5>2
        <4>10. ASSUME Retry(p) PROVE run'[p].pc \notin {"prompt", "copy"}
          <5>1. [run[p] EXCEPT !.pc = "clobber", !.tries = @ + 1].pc = "clobber"
            BY <4>4 DEF RunState
          <5> QED
            BY <4>1, <4>2, <4>10, <5>1 DEF Retry
        <4>11. ASSUME Prune(p) PROVE run'[p].pc \notin {"prompt", "copy"}
          <5>1. PICK f \in run[p].stale : Becomes(p, [run[p] EXCEPT !.stale = @ \ {f}])
            BY <4>11 DEF Prune
          <5>2. [run[p] EXCEPT !.stale = @ \ {f}].pc = run[p].pc
            BY <4>4 DEF RunState
          <5> QED
            BY <4>1, <4>11, <5>1, <5>2 DEF Prune
        <4>12. ASSUME Decline(p) \/ Close(p) \/ CloseFails(p) \/ Crash(p)
               PROVE  run'[p].pc \notin {"prompt", "copy"}
          BY <4>2, <4>12 DEF Decline, Close, CloseFails, Crash
        <4> QED
          BY <1>2, <2>8, <4>3, <4>5, <4>6, <4>7, <4>8, <4>9, <4>10, <4>11, <4>12
          DEF Step, Proceed, UploadFails, ReplyLost
      <3> QED
        BY <2>1, <3>1, <3>2
    <2> QED
      BY <2>2, <2>3, <2>4, <2>6, <2>7, <2>8
  <1>3. ASSUME NEW q \in PRs, Push(q) PROVE DisjointInv'
    BY <1>1, <1>3 DEF Push
  <1>4. CASE UNCHANGED vars
    BY <1>1, <1>4 DEF vars, store
  <1> QED
    BY <1>2, <1>3, <1>4 DEF Next

\* An out/ that starts without two packages that share a file never gets two, when
\* no two runs use it at the same time and runs of other directories go on -- but for
\* pairs of which one's stem is the other's name, which the script does not compare.
THEOREM ClashCheckWorks ==
  Spec /\ OutPackagesDisjoint /\ []OutsTaken => []OutPackagesDisjoint
  <1>1. Init /\ OutPackagesDisjoint => TypeOK /\ ReviewedInv /\ DisjointInv
    <2>1. Init => \A p \in Runs : Compared(p)
      BY DEF Init, Idle, Compared
    <2> QED
      BY <2>1, TypeInit, ReviewedInit DEF DisjointInv
  <1>2. TypeOK /\ ReviewedInv /\ DisjointInv /\ OutsTaken /\ OutsTaken' /\ [Next]_vars
          => (TypeOK /\ ReviewedInv /\ DisjointInv)'
    BY TypeStep, ReviewedStep, DisjointStep
  <1>3. DisjointInv => OutPackagesDisjoint
    BY DEF DisjointInv
  <1> QED
    BY <1>1, <1>2, <1>3, PTL DEF Spec

\* One maintainer, who works at one thing at a time, takes turns: what was shown of
\* runs that do holds of one run without more.
THEOREM OneTakesTurns ==
  ASSUME \A p, q \in Runs : p = q
  PROVE  /\ Spec => []VerifiedListingIsWhole /\ []PromiseKept /\ StaysStopped
         /\ Spec => ImplementsRegistry
         /\ Spec /\ OutPackagesDisjoint => []OutPackagesDisjoint
  <1>1. TakeTurns /\ OutsTaken
    BY DEF TakeTurns, OutsTaken
  <1> QED
    BY <1>1, ListingIsWhole, PromisesAreKept, BrokenPairStays, ReleaseIsARegistry,
       ClashCheckWorks, PTL
=============================================================================
