-------------------------------- MODULE Udev --------------------------------
(***************************************************************************)
(* libudev-cervus (src/recipes/libudev-cervus/libudev.c): the libudev       *)
(* interface that libinput, seatd and Weston link against on Cervus.        *)
(*                                                                         *)
(* The heap is a set of cells.  A cell holds a context, a device, an        *)
(* enumerate or a monitor, each with its own count of references; a device  *)
(* owns a reference to its parent, and everything but a context owns one to *)
(* its context.  The caller (one thread) calls the library with objects it  *)
(* can still reach; the kernel adds and removes device nodes at any time,   *)
(* in the middle of a scan too.                                             *)
(*                                                                         *)
(* Texts are abstracted to what the code tells apart: a path is the         *)
(* sequence of its components, the name of a node is its class and number,  *)
(* and an fnmatch pattern is the set of texts it matches.  The properties   *)
(* and attributes of a device are a function of its kind and number, so     *)
(* they are left out; so are the setters that store or ignore an argument.  *)
(***************************************************************************)
EXTENDS Integers, Sequences, SequencesExt, FiniteSets

CONSTANTS
  Cells,              \* the memory the library allocates from
  None,               \* the null pointer
  Nodes,              \* the nodes there may be, by class and number: card0, event1
  SubsystemPatterns,  \* the patterns a caller passes to add_match_subsystem
  SysnamePatterns,    \* the patterns a caller passes to add_match_sysname
  MaxMatches,         \* 8: the arrays subsystems and sysnames of an enumerate
  MaxScan,            \* 64: the array nums of scan_class
  MaxHeld,            \* bound: references the caller holds to one object
  MaxResult           \* bound: the caller adds no path to a longer list

Classes == {"drm", "input"}

\* A node is /dev/dri/card<num> or /dev/input/event<num>.
Nums == {node[2] : node \in Nodes}

\* enum kind; a device of every kind but K_PCI stands on a node.
Kinds == {"pci", "drm", "input", "event"}

ASSUME UdevAssumption ==
  /\ IsFiniteSet(Cells) /\ None \notin Cells
  /\ IsFiniteSet(Nodes) /\ Nodes \subseteq Classes \X Nat
  /\ SubsystemPatterns \subseteq SUBSET Classes
  /\ SysnamePatterns \subseteq SUBSET Nodes
  /\ {MaxMatches, MaxScan, MaxHeld, MaxResult} \subseteq Nat \ {0}

VARIABLES
  obj,      \* what each cell holds
  held,     \* the references the caller holds to each cell
  filter,   \* subsystems and sysnames of each enumerate
  result,   \* the list of each enumerate
  pipes,    \* the monitors whose pipe is open
  scan,     \* the udev_enumerate_scan_devices that is running
  nodes,    \* the device nodes that exist
  steady    \* history: the nodes that have existed since the scan began

heap == <<obj, held, filter, result, pipes>>
vars == <<obj, held, filter, result, pipes, scan, nodes, steady>>

Free == [kind |-> "free", refs |-> 0, udev |-> None, num |-> 0,
         parent |-> None, parent_done |-> FALSE]

NoFilter == [subsystems |-> <<>>, sysnames |-> <<>>]

NoScan == [enum |-> None, class |-> "drm", todo |-> <<>>, count |-> 0, read |-> FALSE]

-----------------------------------------------------------------------------
\* Names and paths.

\* The node a device of this kind and number needs: an input device is made
\* up from the event node of its number.
NodeOf(kind, num) == <<IF kind = "drm" THEN "drm" ELSE "input", num>>

\* The syspath device_build gives a device.
Syspath(kind, num) ==
  CASE kind = "pci"   -> <<"pci">>
    [] kind = "drm"   -> <<"pci", "card", num>>
    [] kind = "input" -> <<"platform", "input", num>>
    [] kind = "event" -> <<"platform", "input", num, "event", num>>

\* The kind and number device_from_syspath reads in a path, <<>> for none: the
\* number of an event is that of its last component.
FromSyspath(path) ==
  CASE path = <<"pci">> -> <<"pci", 0>>
    [] Len(path) = 3 /\ path[1] = "pci" /\ path[2] = "card" -> <<"drm", path[3]>>
    [] Len(path) = 3 /\ path[1] = "platform" /\ path[2] = "input" ->
         <<"input", path[3]>>
    [] Len(path) = 5 /\ path[1] = "platform" /\ path[4] = "event" ->
         <<"event", path[5]>>
    [] OTHER -> <<>>

\* The paths a caller has: those of devices, and the ones of
\* udev_enumerate_scan_subsystems, which name no device.
ClassPaths == <<<<"class", "drm">>, <<"class", "input">>>>
Paths == {Syspath(kind, num) : kind \in Kinds, num \in Nums} \union ToSet(ClassPaths)

\* The kind of device a node of each class becomes.
KindOf(class) == IF class = "drm" THEN "drm" ELSE "event"

\* subsystem and devtype of each kind; <<>> stands for an empty devtype.
Subsystem(kind) == CASE kind = "pci" -> "pci" [] kind = "drm" -> "drm" [] OTHER -> "input"
Devtype(kind) == IF kind = "drm" THEN "drm_minor" ELSE ""

-----------------------------------------------------------------------------
\* Memory.

\* calloc: some free cell, and none when the heap is full.
Room(o) == {c \in Cells : o[c].kind = "free"}

\* An object of this kind, allocated with its one reference and one more on
\* the context.
Made(o, c, u, kind, num) ==
  [o EXCEPT ![c] = [Free EXCEPT !.kind = kind, !.refs = 1, !.udev = u, !.num = num],
            ![u].refs = @ + 1]

\* Mutant: the label forgets the context.
BuildLeaky(o, u) == [o EXCEPT ![u].refs = @ + 1]

\* The label gone of device_build: the reference on the context is dropped
\* again.
BuildGone(o, u) == o

\* device_build: what the heap may be afterwards, with the device or None.
device_build(o, u, kind, num) ==
  IF Room(o) # {} /\ (kind = "pci" \/ NodeOf(kind, num) \in nodes)
  THEN {<<Made(o, c, u, kind, num), c>> : c \in Room(o)}
  ELSE {<<BuildGone(o, u), None>>}

\* Mutant: the parent goes with its child even when the caller holds it.
FreedAnyway(c) ==
  IF obj[c].refs > 1 THEN {} ELSE {c} \union {p \in Cells : p = obj[c].parent}

\* What freeing c frees: c, and its parent when c held the last reference to it
\* (a parent has no parent of its own: only drm and event devices build one).
Freed(c) ==
  IF obj[c].refs > 1 THEN {}
  ELSE {c} \union {p \in Cells : p = obj[c].parent /\ obj[p].refs = 1}

\* Mutant: a freed device keeps its reference to its parent.
DroppedNotParent(c, x) ==
  (IF x = c THEN 1 ELSE 0) + Cardinality({y \in Freed(c) \ {obj[c].parent} : obj[y].udev = x})

\* The references that go when c is unreferenced: the caller's, and those of
\* the objects it frees on their parents and contexts.
Dropped(c, x) ==
  LET freed == Freed(c)
  IN (IF x = c THEN 1 ELSE 0)
       + Cardinality({y \in freed : obj[y].parent = x})
       + Cardinality({y \in freed : obj[y].udev = x})

\* udev_unref, udev_device_unref, udev_enumerate_unref, udev_monitor_unref.
unref(c) ==
  [x \in Cells |->
     IF obj[x].refs = Dropped(c, x) THEN Free
     ELSE [obj[x] EXCEPT !.refs = @ - Dropped(c, x)]]

-----------------------------------------------------------------------------
\* The caller.  It uses an object while it holds a reference to it or borrows
\* it: the context of an object it holds (get_udev), the parent of a device it
\* holds.

Idle == scan.enum = None

Borrows(c) == \E d \in Cells : held[d] > 0 /\ c \in {obj[d].parent, obj[d].udev}

Has(kinds) == {c \in Cells : obj[c].kind \in kinds /\ (held[c] > 0 \/ Borrows(c))}

udev_new ==
  /\ Idle
  /\ \E c \in Room(obj) :
       /\ obj' = [obj EXCEPT ![c] = [Free EXCEPT !.kind = "udev", !.refs = 1]]
       /\ held' = [held EXCEPT ![c] = 1]
  /\ UNCHANGED <<filter, result, pipes, scan, nodes, steady>>

\* udev_ref, udev_device_ref, udev_enumerate_ref, udev_monitor_ref.
Ref(c) ==
  /\ Idle
  /\ held[c] < MaxHeld
  /\ obj' = [obj EXCEPT ![c].refs = @ + 1]
  /\ held' = [held EXCEPT ![c] = @ + 1]
  /\ UNCHANGED <<filter, result, pipes, scan, nodes, steady>>

\* The unref functions: the list of an enumerate and the pipe of a monitor go
\* with it.
Unref(c) ==
  /\ Idle
  /\ held[c] > 0
  /\ obj' = unref(c)
  /\ held' = [held EXCEPT ![c] = @ - 1]
  /\ filter' = [x \in Cells |-> IF obj'[x].kind = "free" THEN NoFilter ELSE filter[x]]
  /\ result' = [x \in Cells |-> IF obj'[x].kind = "free" THEN <<>> ELSE result[x]]
  /\ pipes' = {m \in pipes : obj'[m].kind = "monitor"}
  /\ UNCHANGED <<scan, nodes, steady>>

-----------------------------------------------------------------------------
\* Devices.

\* A function that returns device_build(u, kind, num) as the caller's own.
NewDevice(u, kind, num) ==
  \E b \in device_build(obj, u, kind, num) :
    /\ obj' = b[1]
    /\ held' = IF b[2] = None THEN held ELSE [held EXCEPT ![b[2]] = 1]
    /\ UNCHANGED <<filter, result, pipes, scan, nodes, steady>>

udev_device_new_from_syspath(u, path) ==
  /\ Idle
  /\ FromSyspath(path) # <<>>
  /\ NewDevice(u, FromSyspath(path)[1], FromSyspath(path)[2])

\* Also udev_device_new_from_device_id: the number of a node that exists, and
\* the directories of cards and of events searched for it.
udev_device_new_from_devnum(u, node) ==
  /\ Idle
  /\ node \in nodes
  /\ NewDevice(u, KindOf(node[1]), node[2])

\* The names cardN, eventN and inputN, and the one of the PCI device; none of
\* them names a device in another subsystem.
udev_device_new_from_subsystem_sysname(u, kind, num) ==
  /\ Idle
  /\ kind = "pci" => num = 0
  /\ NewDevice(u, kind, num)

\* Mutant: the parent is built whenever it is asked for.
GotParentAnew(o, d) ==
  LET build(kind, num) == {[b[1] EXCEPT ![d].parent = b[2], ![d].parent_done = TRUE] :
                             b \in device_build(o, o[d].udev, kind, num)}
  IN CASE o[d].kind = "drm"    -> build("pci", 0)
       [] o[d].kind = "event"  -> build("input", o[d].num)
       [] OTHER                -> {o}

\* Mutant: the parent of an event is built as an event.
GotParentEvent(o, d) ==
  LET asked == [o EXCEPT ![d].parent_done = TRUE]
      build(kind, num) == {[b[1] EXCEPT ![d].parent = b[2]] :
                             b \in device_build(asked, o[d].udev, kind, num)}
  IN IF o[d].parent_done THEN {o}
     ELSE CASE o[d].kind = "drm"    -> build("pci", 0)
            [] o[d].kind = "event"  -> build("event", o[d].num)
            [] OTHER                -> {asked}

\* The parent of a device is built at most once, when it is first asked for:
\* a failure is kept as well.
GotParent(o, d) ==
  LET asked == [o EXCEPT ![d].parent_done = TRUE]
      build(kind, num) == {[b[1] EXCEPT ![d].parent = b[2]] :
                             b \in device_build(asked, o[d].udev, kind, num)}
  IN IF o[d].parent_done THEN {o}
     ELSE CASE o[d].kind = "drm"    -> build("pci", 0)
            [] o[d].kind = "event"  -> build("input", o[d].num)
            [] OTHER                -> {asked}

udev_device_get_parent(d) ==
  /\ Idle
  /\ obj' \in GotParent(obj, d)
  /\ UNCHANGED <<held, filter, result, pipes, scan, nodes, steady>>

Fits(o, p, subsystem, devtype) ==
  /\ subsystem \in {None, Subsystem(o[p].kind)}
  /\ devtype \in {None, Devtype(o[p].kind)}

\* The parent, and when it does not fit the parent of the parent, which is
\* asked for but is never there.
udev_device_get_parent_with_subsystem_devtype(d, subsystem, devtype) ==
  /\ Idle
  /\ \E o \in GotParent(obj, d) :
       IF o[d].parent = None \/ Fits(o, o[d].parent, subsystem, devtype)
       THEN obj' = o
       ELSE obj' \in GotParent(o, o[d].parent)
  /\ UNCHANGED <<held, filter, result, pipes, scan, nodes, steady>>

-----------------------------------------------------------------------------
\* Monitors: a pipe nobody writes to.

\* calloc, then pipe, then the reference on the context; the pipe may fail.
udev_monitor_new_from_netlink(u) ==
  /\ Idle
  /\ \E m \in Room(obj) :
       /\ obj' = Made(obj, m, u, "monitor", 0)
       /\ held' = [held EXCEPT ![m] = 1]
       /\ pipes' = pipes \union {m}
  /\ UNCHANGED <<filter, result, scan, nodes, steady>>

-----------------------------------------------------------------------------
\* Enumerates.

udev_enumerate_new(u) ==
  /\ Idle
  /\ \E e \in Room(obj) :
       /\ obj' = Made(obj, e, u, "enumerate", 0)
       /\ held' = [held EXCEPT ![e] = 1]
  /\ UNCHANGED <<filter, result, pipes, scan, nodes, steady>>

\* Mutant: the array is full one pattern later.
add_match_subsystem_late(e, pattern) ==
  /\ Idle
  /\ Len(filter[e].subsystems) <= MaxMatches
  /\ filter' = [filter EXCEPT ![e].subsystems = Append(@, pattern)]
  /\ UNCHANGED <<obj, held, result, pipes, scan, nodes, steady>>

\* A pattern is dropped (-ENOMEM) when its array is full.
udev_enumerate_add_match_subsystem(e, pattern) ==
  /\ Idle
  /\ Len(filter[e].subsystems) < MaxMatches
  /\ filter' = [filter EXCEPT ![e].subsystems = Append(@, pattern)]
  /\ UNCHANGED <<obj, held, result, pipes, scan, nodes, steady>>

udev_enumerate_add_match_sysname(e, pattern) ==
  /\ Idle
  /\ Len(filter[e].sysnames) < MaxMatches
  /\ filter' = [filter EXCEPT ![e].sysnames = Append(@, pattern)]
  /\ UNCHANGED <<obj, held, result, pipes, scan, nodes, steady>>

udev_enumerate_add_syspath(e, path) ==
  /\ Idle
  /\ Len(result[e]) < MaxResult
  /\ result' = [result EXCEPT ![e] = Append(@, path)]
  /\ UNCHANGED <<obj, held, filter, pipes, scan, nodes, steady>>

udev_enumerate_scan_subsystems(e) ==
  /\ Idle
  /\ result' = [result EXCEPT ![e] = ClassPaths]
  /\ UNCHANGED <<obj, held, filter, pipes, scan, nodes, steady>>

\* No pattern asks for everything, several for what any of them matches.
subsystem_wanted(e, class) ==
  LET wanted == filter[e].subsystems
  IN wanted = <<>> \/ class \in UNION ToSet(wanted)

sysname_wanted(e, node) ==
  LET wanted == filter[e].sysnames
  IN wanted = <<>> \/ node \in UNION ToSet(wanted)

\* udev_enumerate_scan_devices runs in steps, because nodes come and go while
\* it does: it empties the list and reads /dev/dri, then /dev/input.
udev_enumerate_scan_devices(e) ==
  /\ Idle
  /\ result' = [result EXCEPT ![e] = <<>>]
  /\ scan' = [NoScan EXCEPT !.enum = e]
  /\ steady' = nodes
  /\ UNCHANGED <<obj, held, filter, pipes, nodes>>

\* qsort: the numbers of a set in order.
Ascending(S) ==
  CHOOSE s \in [1 .. Cardinality(S) -> S] : \A i, j \in DOMAIN s : i < j => s[i] < s[j]

\* Mutant: the loop over the directory stops one number early.
ScannedFewer(e, class) ==
  LET found == {n \in Nums : <<class, n>> \in nodes /\ sysname_wanted(e, <<class, n>>)}
  IN IF ~subsystem_wanted(e, class) THEN {{}}
     ELSE IF Cardinality(found) < MaxScan THEN {found}
     ELSE {S \in SUBSET found : Cardinality(S) = MaxScan - 1}

\* The numbers the directory of the class gives: all those wanted, or in any
\* order as many as nums holds.
ScannedNums(e, class) ==
  LET found == {n \in Nums : <<class, n>> \in nodes /\ sysname_wanted(e, <<class, n>>)}
  IN IF ~subsystem_wanted(e, class) THEN {{}}
     ELSE IF Cardinality(found) <= MaxScan THEN {found}
     ELSE {S \in SUBSET found : Cardinality(S) = MaxScan}

\* scan_class: reading the directory, and sorting.
ScanRead ==
  /\ ~Idle /\ ~scan.read
  /\ \E S \in ScannedNums(scan.enum, scan.class) :
       scan' = [scan EXCEPT !.todo = Ascending(S), !.count = Cardinality(S), !.read = TRUE]
  /\ UNCHANGED <<obj, held, filter, result, pipes, nodes, steady>>

\* The syspath of a device built for the purpose, and unreferenced at once.
Listed(e, kind, num) ==
  IF \E b \in device_build(obj, obj[e].udev, kind, num) : b[2] # None
  THEN Append(result[e], Syspath(kind, num))
  ELSE result[e]

\* scan_class: one device of the list.
ScanBuild ==
  /\ ~Idle /\ scan.read /\ scan.todo # <<>>
  /\ result' = [result EXCEPT ![scan.enum] =
                  Listed(scan.enum, KindOf(scan.class), Head(scan.todo))]
  /\ scan' = [scan EXCEPT !.todo = Tail(@)]
  /\ UNCHANGED <<obj, held, filter, pipes, nodes, steady>>

\* The end of scan_class, and after the second class of the whole scan.
ScanNext ==
  /\ ~Idle /\ scan.read /\ scan.todo = <<>>
  /\ scan' = IF scan.class = "drm"
             THEN [NoScan EXCEPT !.enum = scan.enum, !.class = "input"]
             ELSE NoScan
  /\ steady' = IF scan.class = "drm" THEN steady ELSE {}
  /\ UNCHANGED <<obj, held, filter, result, pipes, nodes>>

-----------------------------------------------------------------------------
\* The kernel.

NodeAppears(node) ==
  /\ node \notin nodes
  /\ nodes' = nodes \union {node}
  /\ UNCHANGED <<heap, scan, steady>>

NodeGoes(node) ==
  /\ node \in nodes
  /\ nodes' = nodes \ {node}
  /\ steady' = steady \ {node}
  /\ UNCHANGED <<heap, scan>>

-----------------------------------------------------------------------------
Init ==
  /\ obj = [c \in Cells |-> Free]
  /\ held = [c \in Cells |-> 0]
  /\ filter = [c \in Cells |-> NoFilter]
  /\ result = [c \in Cells |-> <<>>]
  /\ pipes = {}
  /\ scan = NoScan
  /\ nodes \in SUBSET Nodes
  /\ steady = {}

CallContext ==
  \/ udev_new
  \/ \E u \in Has({"udev"}) :
       \/ \E path \in Paths : udev_device_new_from_syspath(u, path)
       \/ \E node \in Nodes : udev_device_new_from_devnum(u, node)
       \/ \E kind \in Kinds, num \in Nums :
            udev_device_new_from_subsystem_sysname(u, kind, num)
       \/ udev_monitor_new_from_netlink(u)
       \/ udev_enumerate_new(u)

CallAny ==
  \/ \E c \in Has(Kinds \union {"udev", "enumerate", "monitor"}) : Ref(c)
  \/ \E c \in Cells : Unref(c)

CallDevice ==
  \E d \in Has(Kinds) :
    \/ udev_device_get_parent(d)
    \/ \E subsystem \in {None, "pci", "input", "drm"}, devtype \in {None, "drm_minor"} :
         udev_device_get_parent_with_subsystem_devtype(d, subsystem, devtype)

CallEnumerate ==
  \E e \in Has({"enumerate"}) :
    \/ \E p \in SubsystemPatterns : udev_enumerate_add_match_subsystem(e, p)
    \/ \E p \in SysnamePatterns : udev_enumerate_add_match_sysname(e, p)
    \/ \E path \in Paths : udev_enumerate_add_syspath(e, path)
    \/ udev_enumerate_scan_subsystems(e)
    \/ udev_enumerate_scan_devices(e)

Scanning == ScanRead \/ ScanBuild \/ ScanNext

Kernel == \E node \in Nodes : NodeAppears(node) \/ NodeGoes(node)

Next == CallContext \/ CallAny \/ CallDevice \/ CallEnumerate \/ Scanning \/ Kernel

Spec == Init /\ [][Next]_vars

-----------------------------------------------------------------------------
\* Properties.

\* Every cell is free or holds an object with a count of references, within
\* what the caller may hold and what the objects may point to.
TypeOK ==
  /\ obj \in [Cells -> [kind : Kinds \union {"free", "udev", "enumerate", "monitor"},
                        refs : Nat, udev : Cells \union {None}, num : Nums \union {0},
                        parent : Cells \union {None}, parent_done : BOOLEAN]]
  /\ held \in [Cells -> 0 .. MaxHeld]
  /\ \A c \in Cells :
       /\ Len(filter[c].subsystems) <= MaxMatches
       /\ Len(filter[c].sysnames) <= MaxMatches
       /\ result[c] \in Seq(Paths)
  /\ pipes = {c \in Cells : obj[c].kind = "monitor"}
  /\ scan.enum # None => obj[scan.enum].kind = "enumerate"
  /\ scan.count \in 0 .. MaxScan
  /\ nodes \subseteq Nodes /\ steady \subseteq nodes

\* The count of references of an object is the number of references there are:
\* the caller's, one of each device whose parent it is, and one of each object
\* whose context it is; a device owns the parent it handed out and only it
\* (the caller gets it without a reference).
RefsExact ==
  \A c \in Cells :
    obj[c].refs = held[c] + Cardinality({d \in Cells : obj[d].parent = c})
                          + Cardinality({d \in Cells : obj[d].udev = c})

\* What the caller can still use has not been freed: an object it holds, and
\* the parent and the context of a device it holds, whatever it let go of.
InUseIsLive ==
  \A c \in Cells : held[c] > 0 \/ Borrows(c) => obj[c].kind # "free"

\* When the caller has let go of everything, nothing is left: no memory, no
\* pipe, whatever failed or was built on the way (a parent, a context kept
\* alive by its devices).
NothingLeft ==
  (\A c \in Cells : held[c] = 0) =>
    /\ \A c \in Cells : obj[c] = Free /\ filter[c] = NoFilter /\ result[c] = <<>>
    /\ pipes = {}

\* The parent of a device is the one the kernel would give: the PCI device of a
\* card, the input device of the same number of an event, of the same context.
ParentRight ==
  \A d \in Cells : obj[d].parent # None =>
    LET p == obj[obj[d].parent]
    IN /\ <<obj[d].kind, p.kind>> \in {<<"drm", "pci">>, <<"event", "input">>}
       /\ p.num = obj[d].num \/ p.kind = "pci"
       /\ p.udev = obj[d].udev

\* What udev_device_get_parent answered once it answers as long as the device
\* lives: the pointer the caller borrowed stays the parent.
ParentStays ==
  [][\A d \in Cells : obj[d].parent_done /\ obj'[d].kind # "free" =>
       obj'[d].parent = obj[d].parent]_vars

\* While a class is scanned, each wanted node of it that
\* has been there since the scan began is listed or about to be, unless the
\* directory held more than nums does or there is no memory for its device.
NothingMissed ==
  \A n \in Nums :
    /\ scan.enum # None /\ scan.read /\ scan.count < MaxScan /\ Room(obj) # {}
    /\ <<scan.class, n>> \in steady
    /\ subsystem_wanted(scan.enum, scan.class)
    /\ sysname_wanted(scan.enum, <<scan.class, n>>)
    => \/ n \in ToSet(scan.todo)
       \/ Syspath(KindOf(scan.class), n) \in ToSet(result[scan.enum])

\* The list of a scan is in order, cards before events and by number, whatever
\* the order of the directories: each path once; and no wanted node is missing.
Before(p, q) ==
  LET x == FromSyspath(p)
      y == FromSyspath(q)
  IN \/ x[1] = "drm" /\ y[1] = "event"
     \/ x[1] = y[1] /\ x[2] < y[2]

ScanRight ==
  scan.enum # None =>
    LET coming == [i \in DOMAIN scan.todo |-> Syspath(KindOf(scan.class), scan.todo[i])]
        list == result[scan.enum] \o coming
    IN /\ \A i, j \in DOMAIN list : i < j => Before(list[i], list[j])
       /\ NothingMissed

=============================================================================
