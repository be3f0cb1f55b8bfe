# Specifications of Herd packs

TLA+ models of the programs in this repository that keep state or meet other
programs: the scripts that build and publish packages, and the code written or
patched here so that ported programs run on Cervus. TLC checks each model on a
small instance; TLAPS proves every invariant, action property and refinement
that TLC checks, for every instance. Liveness stays with TLC.

Contents: [inventory](#inventory) · [modules](#modules) · [runs](#runs) ·
[fairness](#fairness) · [proofs](#proofs) ·
[where the code and its words differ](#where-the-code-and-its-words-differ) ·
[limits](#limits) · [plan](#plan)

## Inventory

Paths are relative to the repository. "Hard" is what tests would hardly reach.

### Publishing: `tools/accept` (modelled)

A maintainer's shell script: fetch a pull request, check what it submits, ask,
sign a new `INDEX` and upload it to a GitHub release that users install from.

- *State*: the pull request (author may push at any time), the maintainer's
  `out/`, which outlives each run, the release (tarballs, `INDEX`, `INDEX.sig`),
  a temporary directory per run.
- *Operations*: list files; fetch the head; download and verify the published
  pair; for each manifest check, prompt, clash check against `out/`, copy; build
  and sign the new listing; upload file by file, with up to eight tries each;
  delete stale tarballs; announce and close.
- *Hard*: the release has no transaction, so a run that dies leaves part of its
  work; an upload may succeed and be reported as failed; an asset is deleted
  before it is replaced; two maintainers may start from the same listing; names
  and versions may have a `-` in them, so that two packages can have one file
  name; a pull request may have several manifests for one package.
- *Correct when*: users only ever get what a maintainer confirmed; a listing that
  verifies has its tarballs; what was announced stays installable; a broken pair
  of files is never built upon.

### Building: `tools/recipe.py` (modelled)

- *State that outlives a run*: downloads, the staging root other recipes build
  against, `out/`; shared by runs for different recipes.
- *Operations*: clone or download, check the sum, build, stage, remove older
  versions, write tarball and manifest.
- *Hard*: a run may fail or be killed at any write; two runs work side by side; a
  download is kept under the last part of its address (`v1.2.tar.gz`), which
  several recipes may have, and is read twice, for its sum and to be unpacked.
- *Correct when*: a manifest describes what is there, built from the checked
  source; a package has one version; the staging root is not behind `out/`.

### Doom on Cervus: `recipes/doom/doomgeneric_cervus.c`

- *Key queue* (modelled): a ring of 128 slots.
- *Input* (modelled): from a window, from evdev or from a terminal; what each
  key was sent as (`g_sent`), the buttons, the wheel, focus, grab of the pointer.
  *Hard*: keys held while their meaning or the focus changes, full queue, reports
  that arrive while others are drained. *Correct when*: no key sticks, the game
  is told every change, an unfocused window is idle.
- *Sound* (modelled): `i_cervussound.c`, eight channels, effects that are
  converted to the device's rate when first played and kept. *Hard*: rounding at
  the ends of an effect and of a chunk, sums beyond 16 bits, channels stopped and
  started again while they play. *Correct when*: each sound is heard from its
  first frame to its last, mixed with the others, and ends.
- *Video, start and end* (modelled): the screen or a window, the terminal, the
  keyboard. *Hard*: a start that fails half way, after some of it was taken, on a
  screen that another session has. *Correct when*: all is given back wherever Doom
  exits; the picture is whole and in the middle of any screen it fits on.

### `recipes/libudev-cervus/libudev.c` (modelled)

The libudev interface for libinput, seatd and Weston, from the nodes in
`/dev/dri` and `/dev/input`. *State*: a heap of counted objects (context,
device, enumerate, monitor), each device with a parent built when first asked
for, lists of matches and results. *Hard*: lifetimes through parent and context
pointers, construction that fails half way, a kernel that adds and removes nodes
in the middle of a scan. *Correct when*: counts are exact, nothing in use is
freed, nothing is left over, parents are right and stay, scans are complete and
in order.

### `recipes/wayland`: `wlcomp.c` (modelled) and `wldemo.c` (partly)

A minimal compositor and a client, each of which may start the other. *State*:
sixteen slots that are never given back, each with the address of its surface and
two buffer pointers; the child process; the queues of libwayland between the two
programs. *Hard*: addresses that are used again by other clients, a client that
goes between commit and paint, destroys a buffer that is still to be shown or
commits what it never attached, one buffer drawn into again and again. *Correct
when*: what is painted exists and is its client's, unless that client itself did
one of these; no frame is torn; both programs end.

### Patches with behaviour of their own

- Weston, server-side decorations (partly): `decoration.c` in
  `recipes/weston/patches/0004-*.patch`: records shared by two protocols, a
  window, the pending list and the pointer. *Hard*: everything that holds a
  record may go first. *Correct when*: nothing dangles, every object knows the
  mode in effect, what was promised is drawn.
- Weston, terminal on the alternate screen (modelled, without the palette),
  `0002-terminal-*.patch`: the saved screen and cursor. *Hard*: entering twice,
  leaving twice, windows that change their size in between, and the ring of rows
  behind the window, which is not cleared. *Correct when*: the main screen comes
  back, and nothing of the alternate one stays in the window.
- QEMU, one present per refresh (left out), `0002-sdl2-*.patch`: it changes a few
  lines inside functions that are not in this repository.
- libuv (left out): functions that answer a constant or call the system once.

Recipes, the toolchain glue and the remaining patches are instructions and
declarations without state.

### Who meets whom

```
 recipe.py --out/--> accept --release--> herd (not in this repository)
 recipe.py --staging root--> recipe.py, for the next recipe
 wldemo <--libwayland--> wlcomp            doom <--window / evdev / tty--> Cervus
 libinput, seatd, Weston --> libudev-cervus --> /dev, which the kernel changes
 clients <--xdg / KDE decoration protocol--> Weston's decoration.c
```

`accept` and `recipe.py` share `out/`; each model has its own, because `accept`
reads only finished packages in it and is run by hand.

## Modules

Each action is one handler or, where another process can get in between, one
step of it. Definitions have the source's names where TLA+ allows. A comment
that begins with "Mutant" marks a variant with a plausible bug; no specification
uses it; it records which bug a property is known to catch.

| module | what it models |
|---|---|
| `Registry` | what users rely on: one listing, replaced a publication at a time, and announcements that stay true |
| `Accept` | `tools/accept`; `ImplementsRegistry` is the refinement to `Registry` |
| `KeyFifo` | what a key queue is: first in, first out, what does not fit is dropped |
| `KeyRing` | `g_queue`, `g_qhead`, `g_qtail`; refines `KeyFifo` |
| `DoomInput` | input of Doom, on top of the queue `KeyFifo` describes |
| `Mixer` | what the sound driver promises: each channel plays its sound, what is heard is the sum |
| `DoomSound` | `i_cervussound.c`; refines `Mixer` |
| `Doom` | the whole program: start, ring, sound, picture, end; composes `KeyRing` and `DoomSound` |
| `Udev` | libudev-cervus and the kernel's nodes |
| `WlComp`, `WlDemo` | the compositor with arbitrary clients; the compositor with the demo as its child |
| `Decoration` | Weston's decorations |
| `AltScreen` | Weston's terminal on the alternate screen |
| `Recipe` | `tools/recipe.py` |
| `AcceptProofs`, `DoomProofs` (with `KeyRing`), `DoomInputProofs`, `UdevProofs`, `WlProofs`, `DecorationProofs`, `RecipeProofs`, `AltScreenProofs` | theorems |
| `MC*` | values of constants for TLC |

**Accept.** `run[p]` is a process: `pc`, the pull request, the head it fetched,
the manifests yet to look at, `cur` (the listing downloaded), `acc` (accepted
records) and `again` (names that came up more than once), `todo` (uploads),
`stale`, `tries`. `out` and `live` map file names to contents, and `mans` gives
the name in the manifest beside each tarball of an `out/`. A tarball is a model
value which is its own sha256, and a listing is a set of records with the names
that are in it twice. `Clobber` and `Store` are the two halves of `gh release
upload --clobber`; `UploadFails` and `ReplyLost` its failures; `Crash` is a run
killed anywhere; `Push` the author. A manifest's fields other than name, version,
file and sha256 are abstracted to "refused". History: `reviewed` (confirmed at
the prompt), `served` (the last listing whose signature verified), `promised`
(announced), `torn` (tarballs whose upload was begun by a run that did not get to
replace the pair), `doubled` (names a published listing had twice).

Nothing is assumed of names. `FileName` is the string that a name and a version
make, and two packages may have one: version `bar-1` of `foo` and version `1` of
`foo-bar`. `Stem` is what the clash check takes for the package of a tarball
(`tools/accept:91`), which is its name only when the version has no `-`. Both are
constants, and the MC module computes them from strings. A manifest is any file
of the pull request that ends so, so there may be several for a version, in
directories below it, or for a name (`Labels` tells them apart); then `Confirm`,
`Copy` and `Old` do to each what the loop does, the last overwrites
`$name.manifest`, and the listing has it once for each.

**KeyRing / KeyFifo.** `queue_key` and `DG_GetKey` line by line, with the array,
both indexes and the arithmetic modulo the size. The refinement maps the slots
from `g_qtail` round to `g_qhead` to a sequence; its capacity is one less than
the number of slots.

**DoomInput.** One thread: `phase` says if the game runs or the program drains.
`dev` is what the device has reported and was not drained, so that reports
arrive in the middle of a drain. `g_sent` is the key each code went down as.
`down` is what the game has down by the events it took, `told` the buttons it
was told, `lost` the keys whose release found the queue full. The variable
`source` says which of the three drains is built in.

**DoomSound / Mixer / Doom.** A channel has the effect it plays, the frames that
effect has, the place in it and a volume for each side, as in the source; the
samples of an effect are `Pcm`, the function `sfx_cache` computes from the lump.
`I_Cervus_Update` mixes one chunk of all channels. `Mixer` knows no lumps, rates
or places: a channel has a sequence, which gets shorter by a chunk; the
refinement maps to what is left of the sound, where the sound is defined by what
a lump holds at each time, not by the code's formula. `Doom` is the thread that
calls all this: `DG_Init` with its early ends, `doomgeneric_Create`, the game's
ticks, `restore`, which `atexit` runs, and `Killed`, an end by a signal, for which
nothing is registered. `machine` is where Doom was started and does not change.

**Udev.** `obj` maps cells to objects with `refs`, context, parent and
`parent_done`; `held` counts what the caller holds. A scan is three steps
(`ScanRead` reads the directory, `ScanBuild` a device of it, `ScanNext` goes
on) with the kernel between them. Paths are sequences of components, patterns
sets of the texts they match.

**WlComp / WlDemo.** A slot has the address of its surface, `buffer` and
`pending_buffer`; libwayland gives any free address to a new surface. A client may
ask for anything of its own surfaces and buffers: commit before it attached, and
destroy a buffer that was given to a surface. `astray` remembers the surfaces
whose client did that with harm. `paint` may copy or skip a buffer that was freed,
and `Fault` is the process that dies of it. `phase` is the place in the main loop.
`WlDemo` extends it with the client's program counter, the three queues between
the programs and `painted`, how often the screen got a frame; the other clients
are `WlComp`'s. `Launch`, `Connect` and `Started` are the two ways the programs
start each other.

**Decoration.** A record (`deco`) has its window or the desktop surface it waits
for, both protocols' objects, the mode it has, and whether the frame and the
view exist. `window` is the shell's `shell_surface`, with the desktop surface
until that goes (a mapped window then fades out for a while). `deco_hover`,
`focus` and `grab` are the three places where the pointer keeps a record, `told`
the mode each object was last sent. Each handler is one action. The state in
which the code would follow a null pointer is `crashed`, where the model stops.

**AltScreen.** `terminal_enter_alt` and `terminal_leave_alt` with what they save;
writing, resizing and scrolling are Weston's and may do anything to the rows.
`beyond` is what the ring has outside the window: a row that scrolls off or is
cut off stays in it, until Weston uses it again (`Reuse`), and any of it may come
into the window when that is made larger or scrolled (`Resize`). `before`
remembers the terminal at the last step onto the alternate screen, `uncovered`
that the window was moved, on the main screen, over a ring with rows of the
alternate one.

**Recipe.** `dl`, `part`, `stage`, `tarball` and `manifest` are what is on the
disk. A download and its `.part` are named by `Basename` of the address, which
several recipes and versions may share. `CurlBegins`, `Curl` and `Rename` are the
download: curl goes on writing the file it opened when another run renames it
(`on`). `Check` reads the sum and `Extract` reads the file again, with other runs
in between. `met` is history: another run fetched to the same file name meanwhile.
A tarball or manifest being written is `Torn` until its second step. A build is a
number, and its tarball has that number for a sha256. `Fail` ends a run at any
step.

## Runs

All runs are exhaustive for their constants. "Counterexample" runs show that the
code does not do what the repository says, see below.

| run | instance | what it shows |
|---|---|---|
| `accept_single` | one maintainer, packages `foo` (published) and `foo-bar`, two pull requests whose authors push to them: one with both packages, then two manifests for one version, one of them with a wrong sha256; one with two manifests for one version, then a version that has the file name of the other package, then two versions of one package; 2 tries, 2 faults, 1 crash (833355 states) | `OnlyReviewedReleased`, `VerifiedListingIsWhole`, `PromiseKept`, `OutPackagesDisjoint`, `StaysStopped`, refinement of `Registry`, `SignedIsServed` |
| `accept_lost_update` | two maintainers | counterexample to `PromiseKept` |
| `accept_clash` | one maintainer, two pull requests | counterexample to `ListedPackagesDisjoint` |
| `doom` | seven machines, with and without a window, WAD, terminal, keyboard and audio, one smaller than the picture, one with another session on the screen; a ring of three slots; two channels, four lumps, chunks of two frames | refinement of `KeyFifo` and of `Mixer`, `SoundTypeOK`, `PictureFits`, `GivenBack`, `EffectsEnd` |
| `doom_input` | three codes, two of them one key, all three sources, a queue of two events, four user events | `NoStuckKey`, `DownIsHeld`, `OutOfFocusIsIdle`, `LetGoComesUp` |
| `udev` | 3 cells, two cards, one event device, one match of each kind | `RefsExact`, `InUseIsLive`, `NothingLeft`, `ParentRight`, `ParentStays`, `ScanRight` |
| `wldemo` | the demo and another client that asks for anything, two addresses, two buffers, two slots, two frames (933502 states) | `ShownIsOwn`, `NeverTorn`, `EachFrameOnce`, `DemoEnds` |
| `decoration` | one surface; two desktop surfaces, windows and records | `NothingDangles`, `ToldInEffect`, `PromisedIsDrawn` |
| `alt_screen` | windows of up to two rows of two characters over a ring (276824 states) | `NoTrace`, `MainComesBack` |
| `recipe_pair` | two runs at a time, two recipes whose archives have one file name, one of which goes on to a git revision, three builds (1746095 states) | `PackedIsChecked`, `NeverAhead`, `OneVersionListed` |
| `recipe_killed` | one recipe | counterexample to `ManifestMatches` |
| `recipe_branch` | the recipe of `sl` | counterexample to `SourceChecked` |

Each property is stated in words above its definition.

### Why the bounds are enough

- *Accept*: `MaxTries` is 8 in the script and 2 here; with as many faults as
  tries, an upload is retried, heard and unheard, and given up. One crash at any
  step, and later runs after it, is what the properties are about; two crashes
  add only pairs of states the first crash already makes. Two package names give
  a record that is replaced and one that is not, and three versions a file name
  that both have; two labels are two manifests for one version.
- *Doom*: three slots of the ring are enough to be empty, full and wrapped at
  every offset. The lumps have a sound shorter than a chunk, as long as one,
  longer with a last chunk that is not full, of the device's rate and of a faster
  one, and two that cannot be played; two channels at full volume go beyond
  `OUT_MAX`. Sound and keys do not touch each other, so each machine has one or
  the other: together they would only multiply. `UNSIGNED` is 2^32, here 64.
- *DoomInput*: a queue with room for two overflows with three keys; four user
  events are enough to press, change menu or focus, press again and let go.
- *Udev*: three cells hold a context, a device and its parent, the longest chain
  of ownership there is, or two devices of one context. `MaxMatches`
  (8 in the source) is 1, so that a match is refused. `MaxScan` (64) is 2 and no
  directory holds more: reading fewer nodes than there are is not exercised. A
  result that already has paths takes no more by `add_syspath`.
- *WlDemo*: two of 100000 frames, a first and a last; two slots are a slot left
  behind and a second surface at its address, of the demo or of the other client,
  or all slots taken by the other client before the demo asks. `MAX_SURFACES` is
  16 in the source.
- *Decoration*: one surface can have two windows only if the first fades out,
  which is the case that matters; the second record is the new window's.
- *AltScreen*: a size above and one below any other, for rows and columns. The
  ring has a set of rows and no size.
- *Recipe*: a version that is packed, packed again and followed by the next
  takes three builds. Two recipes with one file name, and one run for each, are
  what it takes to meet there.

`CHECK_DEADLOCK FALSE` is set where the system may rightly stop: no pull request
is left, all bounds are used, Doom has ended, wlcomp has ended, or Weston
has crashed.

## Fairness

- `Accept`: weak fairness of each run's steps from the last prompt on (`Proceed`),
  where the script no longer waits for anyone; none of its start and of the
  prompts, which are the maintainer's. `SignedIsServed` assumes no run is killed and
  fewer faults than one upload has tries, which is all that the retry promises.
- `DoomInput`: weak fairness of `Work` (a drain that began ends), strong fairness
  of `DG_GetKey` and `StartDrain`: every tick of the game asks for keys until
  there are none and then draws a frame, which drains. Nothing is assumed of the
  user.
- `Doom`: weak fairness of `Mix`, because each tick of the game calls
  `I_Cervus_Update`. `EffectsEnd` concludes only that a channel that never falls
  silent is started again and again; nothing is assumed of the game.
- `WlDemo`: weak fairness of the client, of the start and of the compositor's
  loop; strong fairness of `Handle` and `HangUp`, because each turn dispatches,
  for at most 16 ms, what has arrived by then.
- `Decoration`: a client that was asked to draw does, for as long as the
  compositor runs. `PromisedIsDrawn` is about what the compositor has to ask
  for, and says nothing of clients that hang.

The other specifications state no fairness and no liveness.

## Proofs

| theorem | statement |
|---|---|
| `AcceptProofs!TypeCorrect` | `Spec => []TypeOK` |
| `AcceptProofs!ReviewedInvariant` | `Spec => []ReviewedInv` |
| `AcceptProofs!ReleaseIsReviewed` | `Spec => []OnlyReviewedReleased` |
| `AcceptProofs!ListingIsWhole` | `Spec /\ []TakeTurns => []VerifiedListingIsWhole` |
| `AcceptProofs!PromisesAreKept` | `Spec /\ []TakeTurns => []PromiseKept` |
| `AcceptProofs!BrokenPairStays` | `Spec /\ []TakeTurns => StaysStopped` |
| `AcceptProofs!ReleaseIsARegistry` | `Spec /\ []TakeTurns => ImplementsRegistry` |
| `AcceptProofs!ClashCheckWorks` | `Spec /\ OutPackagesDisjoint /\ []OutsTaken => []OutPackagesDisjoint` |
| `AcceptProofs!OneTakesTurns` | the last five for one run, without `TakeTurns` and `OutsTaken` |
| `DoomInputProofs!TypeCorrect` | `Spec => []TypeOK` |
| `DoomInputProofs!NoKeySticks` | `Spec => []NoStuckKey` |
| `DoomInputProofs!OutOfFocusCorrect` | `Spec => []OutOfFocusIsIdle` |
| `DoomInputProofs!HeldCorrect` | `Spec => []DownIsHeld` |
| `UdevProofs!TypeCorrect` | `Spec => []TypeOK` |
| `UdevProofs!CountsAreExact` | `Spec => []RefsExact` |
| `UdevProofs!NoUseAfterFree` | `Spec => []InUseIsLive` |
| `UdevProofs!NoLeak` | `Spec => []NothingLeft` |
| `UdevProofs!ParentsAreRight` | `Spec => []ParentRight` |
| `UdevProofs!ParentsStay` | `Spec => ParentStays` |
| `UdevProofs!ScansAreRight` | `Spec => []ScanRight` |
| `RecipeProofs!PackedIsAlwaysChecked` | `Spec => []PackedIsChecked` |
| `RecipeProofs!ManifestNeverAhead` | `Spec => []NeverAhead` |
| `RecipeProofs!OneVersionAlways` | `Spec => []OneVersionListed` |
| `AltScreenProofs!NoTraceStays` | `Spec => []NoTrace` |
| `AltScreenProofs!MainIsBack` | `Spec => MainComesBack` |
| `WlProofs!ShownIsAlwaysOwn` | `Spec => []ShownIsOwn` |
| `WlProofs!DemoIsClient` | `DemoSpec => Spec` |
| `WlProofs!ShownIsOwnInDemo` | `DemoSpec => []ShownIsOwn` |
| `WlProofs!TypeCorrect` | `DemoSpec => []TypeOK` |
| `WlProofs!NeverTornInDemo` | `DemoSpec => []NeverTorn` |
| `WlProofs!FramesAreShown` | `DemoSpec => []EachFrameOnce` |
| `DoomProofs!TypeCorrect` | `KeyRing`: `Spec => []TypeOK` |
| `DoomProofs!RingIsFifo` | `KeyRing`: `Spec => ImplementsFifo` |
| `DoomProofs!RingInDoom` | `DoomSpec => ImplementsFifo` |
| `DoomProofs!AllGivenBack` | `DoomSpec => []GivenBack` |
| `DoomProofs!PictureIsWhole` | `DoomSpec => []PictureFits` |
| `DoomProofs!ChannelsTyped` | `DoomSpec => []SoundTypeOK` |
| `DoomProofs!MixerIsPromised` | `DoomSpec => ImplementsMixer` |
| `DecorationProofs!TypeCorrect` | `Spec => []TypeOK` |
| `DecorationProofs!NothingEverDangles` | `Spec => []NothingDangles` |
| `DecorationProofs!ToldIsInEffect` | `Spec => []ToldInEffect` |

They rest on the named assumptions about constants in the modules proved about,
which TLC evaluates in every run, and, five theorems about `Accept`, on the
hypotheses their statements show; on nothing else. Where the program itself does
not keep a promise in some case, the property says so, as narrowly as it could be
proved: see the exceptions below and in [limits](#limits).

**Accept**, for any number of runs, shared or separate `out/` directories, pull
requests, names, versions and manifests, any `FileName` and `Stem`, and any
`MaxTries`, `MaxFaults`, `MaxCrashes`.
`OnlyReviewedReleased` is not inductive: what is uploaded comes from `out/`,
which may have changed since the prompt. `ReviewedInv` adds where each thing
came from: a manifest a run is at is one of the head it fetched, with a tarball
of the declared sha256; past the prompt its record is `reviewed`; every record a
run has downloaded or accepted is reviewed; every tarball it will upload, where
`out/` has it, is one of a reviewed record of that file name; so is every tarball
in the release; and every listing in an `out/` or the release has reviewed records
only. It holds when runs share an `out/`, too: a run may replace another's
tarball there, but only by a reviewed one, and so may another package of the
same file name. `reviewed` only grows, so facts about it survive every step
(`ReviewedKept`). `TypeStep` uses `ReviewedInv` too: the head of `todo` is needed
where it is not empty.

The other properties of the release are false if two runs upload at the same
time, which is what `accept_lost_update` shows and no lock in the script
prevents. `TakeTurns` says that no two runs are under way at once, of any number
of maintainers with any `out/`; a run that was killed is not under way. `OneInv`
is what then holds (TLC checked it before it was proved). `ReleaseInv` is about
the release alone: what was announced is listed, and a pair that verifies is the
last one served and is whole, but for tarballs in `torn`, which a run that died
was replacing, and for what is `Excused`: a file name two packages have (`Shared`),
and a package some published listing had twice (`doubled`). Both are for ever, so
they survive every step. `PublishInv` is about each run. What it accepted is one
record for each name, and its tarball is in its `out/` with its manifest beside it
(`Accepted`, `Kept`), unless another package has that file name. Until it uploads,
the release is as it was downloaded (`Gathered`). It uploads tarballs first, then
`INDEX`, then `INDEX.sig` (`Uploading`, `Ordered`, `PairAsUploaded`), so that a
pair that verifies is the old one before that and its own after. What it deletes
is of a record it downloaded whose name it replaced, and no record it accepted of
that name keeps the file, unless the name is in a listing twice (`Dropped`,
`Pruning`); a record of another name that has the file makes it `Shared`. The
manifests in `out/` matter here: a run that confirms two versions of one package
keeps only the second's tarball, because what leaves `out/` is told by the name in
the manifest, and `acc` has only that record.
The refinement maps an upload after which the pair verifies to a publication and
`Close` to announcements; every other step, each crash and failure included,
leaves the registry alone (`RegistryStep`).

`OutPackagesDisjoint` is about `out/` and needs less: that no two runs use the
same `out/` at once (`OutsTaken`), and an `out/` that is in order to begin with,
which `recipe.py`, run by hand before it, does not see to. At the prompt, what is
to be copied was compared with all that is there of another stem (`Compared`); once
it is copied, its name is in the manifest beside it, so that the pairs that were
not compared are those where a stem is a manifest's name.

**KeyRing**, for every size of at least two and every set of events. The step
from the type invariant to the refinement is arithmetic: how many events wait
and where the next one is, before and after an index goes round (`AfterIs`,
`EmptyAndFull`); then the mapped sequence is compared element by element
(`Elements`, `OfferRefines`, `TakeRefines`). The proofs are in `DoomProofs`.

**DoomInput**, for every keyboard, mapping of keys, set of sources and size of
the queue. `NoStuckKey` is inductive with `TypeOK`: it speaks of the state the
game will be in when it has taken what is queued (`DownAfter`), so that taking
an event does not change it (`TakeDown`) and queueing one changes one key
(`AppendDown`, `QueuedDown`); it remains to see that a release takes up the key
the press was sent as (`KeyUpUnsticks`, `KeyDownRemembered`, `TypedUnsticks`).
`OutOfFocusIsIdle` needs what is on its way: reports of keys stop when the window
loses the focus, so that of those that wait only a change of focus follows its
loss (`FocusReported`), and the drain that sees the loss releases all.
`DownIsHeld` needs the same of each key: what the user does not hold is up, or one
of the waiting reports takes it up, and none after that puts it down (`ComesUp`).
With `NoStuckKey` for what waits in the queue it follows when nothing waits.

**Udev**, for any finite memory and set of nodes and any `MaxHeld`, `MaxMatches`
and `MaxScan`. `RefsExact`, `InUseIsLive`, `NothingLeft` and `ParentRight` are one
invariant: each count is the number of references (`Counted`), a free cell has
none and is clean, and what an object points to is of the right kind and context
(`Linked`), hence not free. The counts are cardinalities of sets of cells, which
is why memory has to be finite: each call adds or takes a cell of one or two of
those sets. An unreference may free an object, its parent and their context at
once: `GoneAreFreed` and `UnrefFields` say which cells go, `UnrefKeeps` that the
counts of the others drop by as much. That nothing is left goes down the same
chain (`NothingKept`): first no device without children is there, then no parent,
then no context. `ScanInv` follows a scan: the results so far, followed by the devices
still to be built, are in order and miss no wanted node that has been there from
the start; a device whose node has gone is left out (`FirstLeftOut`), and nodes
that come are not looked for. The sorted array is the sequence with the same
elements in ascending order; that there is one for each finite set of numbers
(`OrderExists`) follows from a smallest set that had none.

**Recipe**, for any number of runs, recipes, versions, addresses and builds, and
any `Basename`. The three properties hold together, and because of what each run
has done up to its step (`RunInv`): the content it unpacks and builds from is the
one the sum is of, if it met no other at that file name (`Genuine`); its build is
recorded with that content and is no older than what its manifest gives; from
`list` on the staging root has it; while it removes older versions, those still
listed are on its list; afterwards none is; from `describe` on the tarball has
the build. `Alone` says that no two runs are for one recipe, and that two which
fetch to one file name have met. So a run that met no other finds the download as
its check left it, and nothing else a run relies on is touched by another:
`OthersKept` shows that once, for any step that changes only the files of its own
recipe and its own download (`OnlyOwn`), and `OwnKeeps` and `QuietKeeps` turn it
into one lemma per group of actions.

**AltScreen**, for windows of any size and any ring. `Saved` is what is missing:
while the program is on the alternate screen, what is saved is the terminal as it
was before, its cursor was on its screen, and no row of it was drawn, unless rows
of the alternate screen had already been brought back (`uncovered`).
`MainComesBack` follows from it for the step that leaves (`LeaveBringsBack`), for
the same size and for another; no other step sets `alt` to null.

**WlComp**, for any clients, slots, addresses and buffers, and any requests in any
order. `ShownIsOwn` is about the mapped slots, and several slots may have one
address, since none is given back. `SlotIsOwn` says why that does no harm: a
mapped slot is the first of its address, the one that `surface_of` finds
(`SurfaceOf`), and its surface is there. If that surface is not in `astray`, what
the slot shows and has pending is among the buffers the client gave to it and has
neither got back nor destroyed, unless nothing was attached to it since it was
made; with `GivenIsOwn` these are the client's and there. An address that is used
again finds the old slot first, unmapped by `surface_resource_destroy`.

**WlDemo**, for as many slots, buffers and other clients as one likes. That what
was proved of `WlComp` holds with the demo in it is not a matter of definition:
the demo's requests wait in a queue while it goes on. `DemoInv` says that its
surface is asked for once, before it has any, and that what is asked of a surface
comes after that. With it each step of `DemoSpec` is a step of `WlComp`, or
none of its variables changes (`DemoStep`). `FrameInv` says where the frame is
while the demo waits: asked for in `requests`, attached (`Handed`), committed
(`Showing`) or copied (`Idle` again, with `painted` one ahead), and that the
answer it waits for is on its way only after the commit was handled, and read only
after the turn of the loop that paints. Several slots may have the address of its
surface, so all of this is said of the one that is its own (`OwnSlot`), and the
other clients, whatever they do to their own, leave that one alone (`OthersView`).
`NeverTorn` and `EachFrameOnce` are what it says at the places where the demo
draws.

**Doom**, for any machines, lumps, settings and size of the ring. The ring is
untouched by all steps but `Keys` (`RingStep`), so `RingIsFifo` carries over.
`HasTaken` relates what is taken at each phase to `g_acquired` and `g_have_tio`,
which `restore` goes by; an end by a signal is a phase of its own, of which
`GivenBack` says nothing. `SoundInv` is `SoundTypeOK` with the types of what it
compares; `Parts` is the arithmetic of the two sides' volumes, each rounded down,
and `SomeFrames` that a lump which is played has at least one frame. `PictureFits`
is arithmetic on unsigned sizes (division by two and by the width of the picture);
it needs that twice the picture is a size at all (`PictureAssumption`). `MixInv`
adds to `SoundInv` that each channel plays what some lump was made into. Then what
is left of a sound in `Mixer` is the samples from the channel's place on, a chunk
is taken off that as the place moves on, and the code's formula for a sample,
which multiplies and divides 64-bit numbers, is the sample the lump holds at that
time. The sum over the channels is a fold on both sides (`SumFunction`), so the
two are equal because their terms are: no induction is needed.

**Decoration**, for any records, windows, desktop surfaces and wl_surfaces. The
two invariants need each other and three facts beside them: a desktop surface and
its window point at each other while both are there (`AllLinked`), so a window
that fades out is no desktop surface's; no two records wait for one desktop
surface (`OneWaits`), so the window that comes takes up all that waited; and a
record is drawn only with a frame, a window that is not fullscreen, and in the
server's mode (`Sound`), so that what is under the pointer has a frame. Each
handler changes one record and one window: what it makes of them is shown apart
(`AppliedIs`, `UpdatedIs`, `OrphanedIs`, `UnpendIs`), and then who else has them.

Only model-checked: `SignedIsServed`, `EffectsEnd`, `LetGoComesUp`, `DemoEnds`
and `PromisedIsDrawn`, the liveness properties. They depend on fairness, that is
on when an action is enabled, and the prover does not expand `ENABLED`. The three
counterexample runs with properties of their own, and `PromiseKept` without
turns, are false and so not proved.

## Where the code and its words differ

1. `accept_lost_update`: README.md:87-88 says that once a package is published
   everyone can install it. Two maintainers who downloaded the same `INDEX`
   (`tools/accept:50-52`) each upload their own (129-143): the second removes
   the first's package.
2. `accept_clash`: README.md:307-310 says `accept` refuses a package that would
   overwrite files of another. It looks in `out/` (`tools/accept:88-97`), which a
   submission that was declined half way has changed, and not at what is
   published.
3. `recipe_killed`: README.md:220-221 says the manifest must match the tarball.
   A run that dies while packing a version again leaves a new tarball under the
   old manifest (`tools/recipe.py:111-119`).
4. `recipe_branch`: README.md:233-234 says `recipe.py` checks the sha256 of the
   source. For a recipe with a git revision, as `sl`'s, it does not
   (`tools/recipe.py:44-47`).

The counterexamples are by the actions of the source, without faults, except
that `recipe_killed` needs a run to end early.

## Limits

- *Accept*: `SignedIsServed` is conditioned on a pull request that has no two
  versions of one package (`OneOfEach`). With two, the second removes the first's
  tarball from `out/` (`tools/accept:120`), the upload of the first then fails
  eight times, and the run ends after it has signed; the other properties hold
  for such pull requests too. `VerifiedListingIsWhole` excepts three tarballs: one
  whose upload was begun by a run that did not replace the pair (`torn`: gh deletes
  before it uploads, and the script leaves that window open), one whose file name
  two confirmed packages have, and one of a package that some listing had twice.
  `OutPackagesDisjoint` excepts the pairs that the script takes for one package.
  The models show what these cases do, and no document of the repository speaks
  of them but README.md:307-310: with `foo` `1-2` in `out/`, package `foo-1` is
  not compared with it, and a new build of `foo` is compared with the old one and
  refused. A tarball and its manifest enter `out/` in one step, and leave it in
  one; the order of the records in a listing is left out; a manifest has each
  field once and no blank line, and the fields other than name, version, file and
  sha256 are not told apart.
- *Doom*: a signal that ends Doom (SIGTERM, SIGHUP, a fault) restores nothing,
  since it is not handled and `restore` is registered with `atexit`
  (`doomgeneric_cervus.c:462`): the terminal stays raw. The model has that end,
  and `GivenBack` speaks of the others; what the kernel takes back of a process
  that ended (the screen, the open keyboard) is not modelled. On a screen smaller
  than the picture the offsets are unsigned and wrap; the model computes them,
  `PictureFits` does not speak of it. The cast of the number of frames to `int`,
  memory that runs out, and the music module, whose functions do nothing, are left
  out.
- *DoomInput*: two codes that are one key (both Ctrl) come up when one is let go;
  no property says that a held key is down in the game. The distance the mouse
  moved is left out but for that it moved, an escape sequence of a terminal is one
  character.
- *Udev*: getters, `userdata`, log priority, and memory that runs out inside
  `list_add`, where the code carries on without the entry.
- *WlComp*: nothing in the code keeps a client from destroying a buffer that is
  attached or shown, or from committing what it never attached
  (`wlcomp.c:57, 90, 116-122`). The model has both: of what is read from a freed
  buffer, three outcomes (it is skipped, copied, or the process dies), and a new
  surface at the address of one that was attached and never committed shows the
  old pending buffer. `ShownIsOwn` excepts the surfaces whose own client did so
  (`astray`) from all but that they exist. A release that is sent for a buffer
  whose address is another's by then, and an address at which wl_buffers and other
  objects follow each other, are left out. A framebuffer that cannot be acquired
  is painted on all the same (`wlcomp.c:51`). After the sixteenth surface ever no
  client gets another, which is what the code does.
- *WlDemo*: its set-up for `xdg_wm_base`, which wlcomp does not offer, and the
  making of the runtime directory (`runtimedir.h`).
- *AltScreen*: the palette that the same patch reads once, at the start. The
  patch saves and clears the rows of the window only (lines 40-48, 58-74), and
  Weston keeps a larger ring: rows that were drawn on the alternate screen and
  then scrolled off, or were cut off by a smaller window, stay there, and come
  back when the window is made larger or scrolled on the main screen. `NoTrace`
  ends there (`uncovered`). Which rows come back, and when the ring uses them for
  others, is Weston's and not in this repository: any may.
- *QEMU*: not modelled, see the inventory.
- *Decoration*: one seat; no memory is the absence of a free cell; objects without
  a record, sizes, titles and drawing are left out; no wish of the client is the
  same as asking for the server's mode, as in `decoration_wants_server`; a grab of
  the shell's own (moving, resizing) changes nothing here until it ends.
  libweston's life cycle of surfaces is taken from how the patch hooks into it. A
  client that disconnects takes the steps that destroy its objects one at a time
  and in any order. Two things are in the model that no property judges: a record
  made by the KDE protocol waits for an address even after its toplevel is gone,
  so the next toplevel there takes it up (274-281, 923); and
  `decoration_run_actions` passes on a desktop surface that is null while its
  window fades out (541).
- *Recipe*: not more than one run at a time for one recipe; what building does
  (patches, commands, hard links, stripping) is one step that succeeds or not.
  Two runs that fetch to one file name at the same time may replace each other's
  download between the sum and the unpacking, and then build from what was not
  checked: `PackedIsChecked` is about the runs that met no other so. A run that
  dies takes its curl with it. No two pairs of name and version give one file
  name in `out/`.
- The model of `accept` does not say what `herd` does with the release; that
  program is in another repository. `Registry` is what its users rely on.

## Plan

Done, in this order: `Registry` and `Accept` (the part every user depends on),
`KeyFifo`/`KeyRing`/`DoomInput`, `Udev`, `WlComp`/`WlDemo`, `Recipe`,
`Decoration`, `Mixer`/`DoomSound`/`Doom`, `AltScreen`; the theorems above.

Next theorems: none of what the runs check is left but liveness. The safety
steps those arguments rest on (what stays true until the awaited step, and that
this step leads to the goal) can be proved as action properties.

Next models, in order: `Accept` and `Recipe` over one `out/`; what `list_add` of
libudev leaves out when memory ends in the middle of a scan.
