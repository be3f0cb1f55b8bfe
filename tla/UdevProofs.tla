----------------------------- MODULE UdevProofs -----------------------------
(***************************************************************************)
(* The objects of libudev-cervus live exactly as long as they are needed,   *)
(* and its scans list what is there, in order: for any memory, any device   *)
(* nodes and any use of the library.                                        *)
(***************************************************************************)
EXTENDS Udev, FiniteSetTheorems, SequenceTheorems, WellFoundedInduction, TLAPS

\* The kinds of objects that belong to a context.
Owned == Kinds \union {"enumerate", "monitor"}

Object == [kind : Owned \union {"free", "udev"}, refs : Nat, udev : Cells \union {None},
           num : Nums \union {0}, parent : Cells \union {None}, parent_done : BOOLEAN]

Filter == [subsystems : Seq(SubsystemPatterns), sysnames : Seq(SysnamePatterns)]

Children(o, x) == {d \in Cells : o[d].parent = x}
Users(o, x) == {d \in Cells : o[d].udev = x}

\* The references there are to x, when the caller holds h[x].
References(o, h, x) == h[x] + Cardinality(Children(o, x)) + Cardinality(Users(o, x))

\* An object is there as long as there is a reference to it, and a cell without
\* one is clean.
Counted(o, h, x) ==
  /\ o[x].refs = References(o, h, x)
  /\ o[x].kind = "free" <=> o[x].refs = 0
  /\ o[x].kind = "free" => o[x] = Free

\* What an object points to is of the kind it should be: so it is not free.
Linked(o, x) ==
  /\ o[x].kind \in Owned => o[x].udev # None /\ o[o[x].udev].kind = "udev"
  /\ o[x].kind = "udev" => o[x].udev = None
  /\ o[x].parent # None =>
       LET p == o[o[x].parent]
       IN /\ o[x].parent_done
          /\ \/ o[x].kind = "drm" /\ p.kind = "pci"
             \/ o[x].kind = "event" /\ p.kind = "input" /\ p.num = o[x].num
          /\ p.udev = o[x].udev

HeapOK(o, h) ==
  /\ o \in [Cells -> Object] /\ h \in [Cells -> 0 .. MaxHeld]
  /\ \A x \in Cells : Counted(o, h, x) /\ Linked(o, x)

\* What an object keeps outside its cell goes with it.
ListsOK ==
  /\ filter \in [Cells -> Filter] /\ result \in [Cells -> Seq(Paths)]
  /\ \A x \in Cells :
       /\ Len(filter[x].subsystems) <= MaxMatches /\ Len(filter[x].sysnames) <= MaxMatches
       /\ obj[x].kind = "free" => filter[x] = NoFilter /\ result[x] = <<>>
  /\ pipes = {m \in Cells : obj[m].kind = "monitor"}

ScanOK ==
  /\ scan \in [enum : Cells \union {None}, class : Classes, todo : Seq(Nums),
               count : 0 .. MaxScan, read : BOOLEAN]
  /\ scan.enum # None => obj[scan.enum].kind = "enumerate"
  /\ nodes \subseteq Nodes /\ steady \subseteq nodes

Inv == HeapOK(obj, held) /\ ListsOK /\ ScanOK
-----------------------------------------------------------------------------
\* The list of the scan, which ends with the devices still to be built.
Coming == [i \in DOMAIN scan.todo |-> Syspath(KindOf(scan.class), scan.todo[i])]
Listing == result[scan.enum] \o Coming

Sorted(list) == \A i, j \in DOMAIN list : i < j => Before(list[i], list[j])

\* The list of the first class has cards alone, and the next class starts after
\* them.
Cards(list) == \A i \in DOMAIN list : \E n \in Nums : list[i] = Syspath("drm", n)

ScanInv ==
  scan.enum # None =>
    /\ Sorted(Listing) /\ NothingMissed
    /\ ~scan.read => scan.todo = <<>>
    /\ scan.class = "drm" \/ ~scan.read => Cards(result[scan.enum])
    /\ scan.class = "drm" /\ ~scan.read => result[scan.enum] = <<>>
-----------------------------------------------------------------------------
LEMMA CellSets ==
  ASSUME NEW S, S \subseteq Cells
  PROVE  IsFiniteSet(S) /\ Cardinality(S) \in Nat
  BY UdevAssumption, FS_Subset, FS_CardinalityType

LEMMA NoneInIt ==
  ASSUME NEW S, S \subseteq Cells
  PROVE  Cardinality(S) = 0 <=> S = {}
  BY CellSets, FS_EmptySet

\* What a set of cells loses with the cells that go.
LEMMA SomeGo ==
  ASSUME NEW S, S \subseteq Cells, NEW F
  PROVE  /\ Cardinality(S \ F) = Cardinality(S) - Cardinality(S \cap F)
         /\ Cardinality(S \cap F) <= Cardinality(S)
         /\ Cardinality(S \cap F) \in Nat /\ Cardinality(S \ F) \in Nat
  <1>1. IsFiniteSet(S \cap F) /\ IsFiniteSet(S \ F) /\ IsFiniteSet(S)
        /\ Cardinality(S \cap F) \in Nat /\ Cardinality(S \ F) \in Nat /\ Cardinality(S) \in Nat
    BY CellSets
  <1>2. Cardinality(S \cap F) <= Cardinality(S)
    BY <1>1, FS_Subset
  <1>3. (S \cap F) \cup (S \ F) = S /\ (S \cap F) \cap (S \ F) = {}
    OBVIOUS
  <1>4. Cardinality((S \cap F) \cup (S \ F))
          = Cardinality(S \cap F) + Cardinality(S \ F) - Cardinality((S \cap F) \cap (S \ F))
    BY <1>1, FS_Union
  <1>5. Cardinality(S) = Cardinality(S \cap F) + Cardinality(S \ F) - 0
    BY <1>3, <1>4, FS_EmptySet
  <1> QED
    BY <1>1, <1>2, <1>5

LEMMA CellType ==
  ASSUME NEW o, NEW h, HeapOK(o, h), NEW x \in Cells
  PROVE  /\ o[x] \in Object /\ h[x] \in 0 .. MaxHeld /\ h[x] \in Nat
         /\ Cardinality(Children(o, x)) \in Nat /\ Cardinality(Users(o, x)) \in Nat
         /\ Counted(o, h, x) /\ Linked(o, x)
  <1>1. Cardinality(Children(o, x)) \in Nat /\ Cardinality(Users(o, x)) \in Nat
    BY CellSets DEF Children, Users
  <1> QED
    BY <1>1, UdevAssumption DEF HeapOK

\* Nothing points to a free cell.
LEMMA Fresh ==
  ASSUME NEW o, NEW h, HeapOK(o, h), NEW c \in Room(o)
  PROVE  /\ c \in Cells /\ o[c] = Free /\ h[c] = 0
         /\ Children(o, c) = {} /\ Users(o, c) = {}
         /\ \A d \in Cells : o[d].parent # c /\ o[d].udev # c
  <1>1. c \in Cells /\ o[c].kind = "free"
    BY DEF Room
  <1>2. o[c].refs = 0 /\ o[c].refs = References(o, h, c) /\ o[c] = Free
    BY <1>1, CellType DEF Counted, Free
  <1>3. h[c] = 0 /\ Cardinality(Children(o, c)) = 0 /\ Cardinality(Users(o, c)) = 0
    BY <1>1, <1>2, CellType DEF References
  <1>4. Children(o, c) = {} /\ Users(o, c) = {}
    BY <1>3, NoneInIt DEF Children, Users
  <1> QED
    BY <1>1, <1>2, <1>3, <1>4 DEF Children, Users

\* The heap after an object is made, field by field.
LEMMA MadeFields ==
  ASSUME NEW o \in [Cells -> Object], NEW c \in Cells, NEW u \in Cells, c # u,
         NEW kind \in Owned, NEW num \in Nums \union {0}
  PROVE  LET m == Made(o, c, u, kind, num) IN
         /\ m \in [Cells -> Object]
         /\ m[c].kind = kind /\ m[c].refs = 1 /\ m[c].udev = u /\ m[c].num = num
         /\ m[c].parent = None /\ ~m[c].parent_done
         /\ m[u] = [o[u] EXCEPT !.refs = o[u].refs + 1]
         /\ \A x \in Cells \ {c, u} : m[x] = o[x]
  <1> DEFINE new == [Free EXCEPT !.kind = kind, !.refs = 1, !.udev = u, !.num = num]
             user == [o[u] EXCEPT !.refs = o[u].refs + 1]
             m == Made(o, c, u, kind, num)
  <1>1. Free \in Object /\ Free.parent = None /\ ~Free.parent_done
    BY DEF Free, Object
  <1>2. /\ new \in Object
        /\ new.kind = kind /\ new.refs = 1 /\ new.udev = u /\ new.num = num
        /\ new.parent = None /\ ~new.parent_done
    BY <1>1 DEF Object
  <1>3. o[u] \in Object
    OBVIOUS
  <1>4. user \in Object
    BY <1>3 DEF Object
  <1>5. m = [o EXCEPT ![c] = new, ![u] = user]
    BY DEF Made
  <1> HIDE DEF new, user, m
  <1>6. /\ m \in [Cells -> Object] /\ m[c] = new /\ m[u] = user
        /\ \A x \in Cells \ {c, u} : m[x] = o[x]
    BY <1>2, <1>4, <1>5
  <1> QED
    BY <1>2, <1>6 DEF m, user

\* A new object is the caller's, and one more user of its context.
LEMMA MadeKeeps ==
  ASSUME NEW o, NEW h, HeapOK(o, h), NEW c \in Room(o), NEW u \in Cells, o[u].kind = "udev",
         NEW kind \in Owned, NEW num \in Nums \union {0}
  PROVE  HeapOK(Made(o, c, u, kind, num), [h EXCEPT ![c] = 1])
  <1> DEFINE m == Made(o, c, u, kind, num)
             k == [h EXCEPT ![c] = 1]
  <1>1. /\ c \in Cells /\ o[c] = Free /\ h[c] = 0
        /\ Children(o, c) = {} /\ Users(o, c) = {}
        /\ \A d \in Cells : o[d].parent # c /\ o[d].udev # c
    BY Fresh
  <1>2. c # u
    BY <1>1 DEF Free
  <1>3. o \in [Cells -> Object] /\ h \in [Cells -> 0 .. MaxHeld]
    BY DEF HeapOK
  <1>4. /\ m \in [Cells -> Object]
        /\ m[c].kind = kind /\ m[c].refs = 1 /\ m[c].udev = u /\ m[c].num = num
        /\ m[c].parent = None /\ ~m[c].parent_done
        /\ m[u] = [o[u] EXCEPT !.refs = o[u].refs + 1]
        /\ \A x \in Cells \ {c, u} : m[x] = o[x]
    BY <1>1, <1>2, <1>3, MadeFields
  <1>5. k \in [Cells -> 0 .. MaxHeld] /\ k[c] = 1 /\ \A x \in Cells \ {c} : k[x] = h[x]
    BY <1>1, <1>3, UdevAssumption
  <1>6. o[u] \in Object
    BY <1>3
  <1>7. /\ m[u].refs = o[u].refs + 1 /\ m[u].kind = "udev" /\ m[u].udev = o[u].udev
        /\ m[u].num = o[u].num /\ m[u].parent = o[u].parent
        /\ m[u].parent_done = o[u].parent_done
    BY <1>4, <1>6 DEF Object
  <1> HIDE DEF m, k
  <1>8. \A x \in Cells \ {c} :
          /\ m[x].kind = o[x].kind /\ m[x].udev = o[x].udev /\ m[x].num = o[x].num
          /\ m[x].parent = o[x].parent /\ m[x].parent_done = o[x].parent_done
    BY <1>4, <1>7
  <1>9. \A x \in Cells : Children(m, x) = Children(o, x)
    <2>1. o[c].parent = None
      BY <1>1 DEF Free
    <2> QED
      BY <1>1, <1>4, <1>8, <2>1 DEF Children
  <1>10. Users(m, u) = Users(o, u) \cup {c} /\ c \notin Users(o, u)
    <2>1. o[c].udev = None
      BY <1>1 DEF Free
    <2> QED
      BY <1>1, <1>4, <1>8, <2>1, UdevAssumption DEF Users
  <1>11. \A x \in Cells \ {u} : Users(m, x) = Users(o, x)
    <2>1. o[c].udev = None
      BY <1>1 DEF Free
    <2> QED
      BY <1>1, <1>4, <1>8, <2>1, UdevAssumption DEF Users
  <1>12. Cardinality(Users(m, u)) = Cardinality(Users(o, u)) + 1
    BY <1>10, CellSets, FS_AddElement DEF Users
  <1>13. ASSUME NEW x \in Cells PROVE Counted(m, k, x)
    <2>1. CASE x = c
      <3>1. Children(m, c) = {} /\ Users(m, c) = {}
        BY <1>1, <1>2, <1>9, <1>11
      <3>2. References(m, k, c) = 1
        BY <1>5, <3>1, FS_EmptySet DEF References
      <3>3. m[c].kind # "free"
        BY <1>4 DEF Owned, Kinds
      <3> QED
        BY <1>4, <2>1, <3>2, <3>3 DEF Counted
    <2>2. CASE x = u
      <3>1. Counted(o, h, u) /\ References(o, h, u) \in Nat
        BY CellType DEF References
      <3>2. References(m, k, u) = References(o, h, u) + 1
        BY <1>2, <1>5, <1>9, <1>12, CellType DEF References
      <3> QED
        BY <1>7, <2>2, <3>1, <3>2 DEF Counted
    <2>3. CASE x \notin {c, u}
      <3>1. Counted(o, h, x) /\ References(m, k, x) = References(o, h, x)
        BY <1>5, <1>9, <1>11, <2>3, CellType DEF References
      <3> QED
        BY <1>4, <2>3, <3>1 DEF Counted
    <2> QED
      BY <2>1, <2>2, <2>3
  <1>14. ASSUME NEW x \in Cells PROVE Linked(m, x)
    <2>1. CASE x = c
      BY <1>2, <1>4, <1>7, <2>1, UdevAssumption DEF Linked, Owned, Kinds
    <2>2. CASE x # c
      <3>1. Linked(o, x) /\ o[x] \in Object
        BY CellType
      <3>2. o[x].udev # c /\ o[x].parent # c
        BY <1>1
      <3>3. o[x].udev \in Cells \union {None} /\ o[x].parent \in Cells \union {None}
        BY <3>1 DEF Object
      <3> QED
        BY <1>8, <2>2, <3>1, <3>2, <3>3 DEF Linked
    <2> QED
      BY <2>1, <2>2
  <1> QED
    BY <1>4, <1>5, <1>13, <1>14 DEF HeapOK, m, k

\* The device the caller gave up is the parent of another.
LEMMA AdoptedKeeps ==
  ASSUME NEW o, NEW h, HeapOK(o, h), NEW d \in Cells, NEW c \in Cells, c # d, h[c] = 1,
         o[d].parent = None, o[d].parent_done, o[c].udev = o[d].udev,
         \/ o[d].kind = "drm" /\ o[c].kind = "pci"
         \/ o[d].kind = "event" /\ o[c].kind = "input" /\ o[c].num = o[d].num
  PROVE  HeapOK([o EXCEPT ![d].parent = c], [h EXCEPT ![c] = 0])
  <1> DEFINE m == [o EXCEPT ![d].parent = c]
             k == [h EXCEPT ![c] = 0]
  <1>1. o \in [Cells -> Object] /\ h \in [Cells -> 0 .. MaxHeld] /\ o[d] \in Object
    BY DEF HeapOK
  <1>2. \A r \in Object : LET n == [r EXCEPT !.parent = c] IN
          /\ n \in Object /\ n.parent = c /\ n.kind = r.kind /\ n.refs = r.refs
          /\ n.udev = r.udev /\ n.num = r.num /\ n.parent_done = r.parent_done
    BY DEF Object
  <1>3. m \in [Cells -> Object] /\ m[d] = [o[d] EXCEPT !.parent = c]
        /\ \A x \in Cells \ {d} : m[x] = o[x]
    BY <1>1, <1>2
  <1>4. k \in [Cells -> 0 .. MaxHeld] /\ k[c] = 0 /\ \A x \in Cells \ {c} : k[x] = h[x]
    BY <1>1, UdevAssumption
  <1> HIDE DEF m, k
  <1>5. /\ m[d].parent = c
        /\ \A x \in Cells : 
             /\ m[x].kind = o[x].kind /\ m[x].udev = o[x].udev /\ m[x].num = o[x].num
             /\ m[x].refs = o[x].refs /\ m[x].parent_done = o[x].parent_done
             /\ x # d => m[x].parent = o[x].parent
    <2>1. LET n == [o[d] EXCEPT !.parent = c] IN
            /\ n.parent = c /\ n.kind = o[d].kind /\ n.refs = o[d].refs
            /\ n.udev = o[d].udev /\ n.num = o[d].num /\ n.parent_done = o[d].parent_done
      BY <1>1, <1>2
    <2> QED
      BY <1>3, <2>1
  <1>6. Children(m, c) = Children(o, c) \cup {d} /\ d \notin Children(o, c)
    BY <1>5, UdevAssumption DEF Children
  <1>7. \A x \in Cells \ {c} : Children(m, x) = Children(o, x)
    BY <1>5, UdevAssumption DEF Children
  <1>8. \A x \in Cells : Users(m, x) = Users(o, x)
    BY <1>5 DEF Users
  <1>9. Cardinality(Children(m, c)) = Cardinality(Children(o, c)) + 1
    BY <1>6, CellSets, FS_AddElement DEF Children
  <1>10. \A x \in Cells : References(m, k, x) = References(o, h, x)
    BY <1>4, <1>7, <1>8, <1>9, CellType DEF References
  <1>11. ASSUME NEW x \in Cells PROVE Counted(m, k, x)
    <2>1. x = d => m[x].kind # "free"
      BY <1>5
    <2> QED
      BY <1>3, <1>5, <1>10, <2>1, CellType DEF Counted
  <1>12. ASSUME NEW x \in Cells PROVE Linked(m, x)
    <2>1. Linked(o, x) /\ o[x] \in Object
      BY CellType
    <2>2. o[x].udev \in Cells \union {None} /\ o[x].parent \in Cells \union {None}
      BY <2>1 DEF Object
    <2>3. CASE x = d
      BY <1>5, <2>1, <2>2, <2>3 DEF Linked
    <2>4. CASE x # d
      BY <1>5, <2>1, <2>2, <2>4 DEF Linked
    <2> QED
      BY <2>3, <2>4
  <1> QED
    BY <1>3, <1>4, <1>11, <1>12 DEF HeapOK, m, k

LEMMA AskedKeeps ==
  ASSUME NEW o, NEW h, HeapOK(o, h), NEW d \in Cells, o[d].kind # "free"
  PROVE  HeapOK([o EXCEPT ![d].parent_done = TRUE], h)
  <1> DEFINE m == [o EXCEPT ![d].parent_done = TRUE]
  <1>1. o \in [Cells -> Object] /\ h \in [Cells -> 0 .. MaxHeld] /\ o[d] \in Object
    BY DEF HeapOK
  <1>2. LET n == [o[d] EXCEPT !.parent_done = TRUE] IN
          /\ n \in Object /\ n.kind = o[d].kind /\ n.refs = o[d].refs /\ n.udev = o[d].udev
          /\ n.num = o[d].num /\ n.parent = o[d].parent /\ n.parent_done
    BY <1>1 DEF Object
  <1>3. m \in [Cells -> Object] /\ m[d] = [o[d] EXCEPT !.parent_done = TRUE]
        /\ \A x \in Cells \ {d} : m[x] = o[x]
    BY <1>1, <1>2
  <1> HIDE DEF m
  <1>4. \A x \in Cells : 
          /\ m[x].kind = o[x].kind /\ m[x].udev = o[x].udev /\ m[x].num = o[x].num
          /\ m[x].refs = o[x].refs /\ m[x].parent = o[x].parent
          /\ o[x].parent_done => m[x].parent_done
    BY <1>2, <1>3
  <1>5. \A x \in Cells : Children(m, x) = Children(o, x) /\ Users(m, x) = Users(o, x)
    BY <1>4 DEF Children, Users
  <1>6. ASSUME NEW x \in Cells PROVE Counted(m, h, x)
    <2>1. x # d => m[x] = o[x]
      BY <1>3
    <2> QED
      BY <1>4, <1>5, <2>1, CellType DEF Counted, References
  <1>7. ASSUME NEW x \in Cells PROVE Linked(m, x)
    <2>1. Linked(o, x) /\ o[x] \in Object
      BY CellType
    <2>2. o[x].udev \in Cells \union {None} /\ o[x].parent \in Cells \union {None}
      BY <2>1 DEF Object
    <2> QED
      BY <1>4, <2>1, <2>2 DEF Linked
  <1> QED
    BY <1>1, <1>3, <1>6, <1>7 DEF HeapOK, m

LEMMA RefKeeps ==
  ASSUME NEW o, NEW h, HeapOK(o, h), NEW c \in Cells, o[c].kind # "free", h[c] < MaxHeld
  PROVE  HeapOK([o EXCEPT ![c].refs = @ + 1], [h EXCEPT ![c] = @ + 1])
  <1> DEFINE m == [o EXCEPT ![c].refs = @ + 1]
             k == [h EXCEPT ![c] = @ + 1]
             user == [o[c] EXCEPT !.refs = o[c].refs + 1]
  <1>1. o \in [Cells -> Object] /\ h \in [Cells -> 0 .. MaxHeld] /\ o[c] \in Object
    BY DEF HeapOK
  <1>2. /\ user \in Object /\ user.kind = o[c].kind /\ user.refs = o[c].refs + 1
        /\ user.udev = o[c].udev /\ user.num = o[c].num /\ user.parent = o[c].parent
        /\ user.parent_done = o[c].parent_done
    BY <1>1 DEF Object
  <1>3. m = [o EXCEPT ![c] = user]
    OBVIOUS
  <1>4. k \in [Cells -> 0 .. MaxHeld] /\ k[c] = h[c] + 1 /\ \A x \in Cells \ {c} : k[x] = h[x]
    BY <1>1, UdevAssumption
  <1> HIDE DEF m, k, user
  <1>5. m \in [Cells -> Object] /\ m[c] = user /\ \A x \in Cells \ {c} : m[x] = o[x]
    BY <1>1, <1>2, <1>3
  <1>6. \A x \in Cells : 
          /\ m[x].kind = o[x].kind /\ m[x].udev = o[x].udev /\ m[x].num = o[x].num
          /\ m[x].parent = o[x].parent /\ m[x].parent_done = o[x].parent_done
    BY <1>2, <1>5
  <1>7. \A x \in Cells : Children(m, x) = Children(o, x) /\ Users(m, x) = Users(o, x)
    BY <1>6 DEF Children, Users
  <1>8. ASSUME NEW x \in Cells PROVE Counted(m, k, x)
    <2>1. Counted(o, h, x) /\ References(o, h, x) \in Nat
      BY CellType DEF References
    <2>2. CASE x = c
      <3>1. References(m, k, c) = References(o, h, c) + 1
        BY <1>4, <1>7, CellType DEF References
      <3> QED
        BY <1>2, <1>5, <2>1, <2>2, <3>1 DEF Counted
    <2>3. CASE x # c
      <3>1. References(m, k, x) = References(o, h, x)
        BY <1>4, <1>7, <2>3 DEF References
      <3> QED
        BY <1>5, <2>1, <2>3, <3>1 DEF Counted
    <2> QED
      BY <2>2, <2>3
  <1>9. ASSUME NEW x \in Cells PROVE Linked(m, x)
    <2>1. Linked(o, x) /\ o[x] \in Object
      BY CellType
    <2>2. o[x].udev \in Cells \union {None} /\ o[x].parent \in Cells \union {None}
      BY <2>1 DEF Object
    <2> QED
      BY <1>6, <2>1, <2>2 DEF Linked
  <1> QED
    BY <1>4, <1>5, <1>8, <1>9 DEF HeapOK, m, k

LEMMA ContextKeeps ==
  ASSUME NEW o, NEW h, HeapOK(o, h), NEW c \in Room(o)
  PROVE  HeapOK([o EXCEPT ![c] = [Free EXCEPT !.kind = "udev", !.refs = 1]], [h EXCEPT ![c] = 1])
  <1> DEFINE new == [Free EXCEPT !.kind = "udev", !.refs = 1]
             m == [o EXCEPT ![c] = new]
             k == [h EXCEPT ![c] = 1]
  <1>1. /\ c \in Cells /\ o[c] = Free /\ h[c] = 0
        /\ Children(o, c) = {} /\ Users(o, c) = {}
        /\ \A d \in Cells : o[d].parent # c /\ o[d].udev # c
    BY Fresh
  <1>2. o \in [Cells -> Object] /\ h \in [Cells -> 0 .. MaxHeld]
    BY DEF HeapOK
  <1>3. Free \in Object /\ Free.udev = None /\ Free.parent = None
    BY DEF Free, Object
  <1>4. /\ new \in Object /\ new.kind = "udev" /\ new.refs = 1 /\ new.udev = None
        /\ new.parent = None
    BY <1>3 DEF Object
  <1>5. k \in [Cells -> 0 .. MaxHeld] /\ k[c] = 1 /\ \A x \in Cells \ {c} : k[x] = h[x]
    BY <1>1, <1>2, UdevAssumption
  <1> HIDE DEF k, new
  <1>6. m \in [Cells -> Object] /\ m[c] = new /\ \A x \in Cells \ {c} : m[x] = o[x]
    BY <1>1, <1>2, <1>4
  <1> HIDE DEF m
  <1>7. \A x \in Cells : Children(m, x) = Children(o, x) /\ Users(m, x) = Users(o, x)
    BY <1>1, <1>3, <1>4, <1>6 DEF Children, Users
  <1>8. ASSUME NEW x \in Cells PROVE Counted(m, k, x)
    <2>1. CASE x = c
      <3>1. References(m, k, c) = 1
        <4>1. Children(m, c) = {} /\ Users(m, c) = {}
          BY <1>1, <1>7
        <4> QED
          BY <1>5, <4>1, FS_EmptySet DEF References
      <3> QED
        BY <1>4, <1>6, <2>1, <3>1 DEF Counted
    <2>2. CASE x # c
      BY <1>5, <1>6, <1>7, <2>2, CellType DEF Counted, References
    <2> QED
      BY <2>1, <2>2
  <1>9. ASSUME NEW x \in Cells PROVE Linked(m, x)
    <2>1. CASE x = c
      BY <1>4, <1>6, <2>1 DEF Linked, Owned, Kinds
    <2>2. CASE x # c
      <3>1. Linked(o, x) /\ o[x] \in Object /\ o[x].udev # c /\ o[x].parent # c
        BY <1>1, CellType
      <3>2. o[x].udev \in Cells \union {None} /\ o[x].parent \in Cells \union {None}
        BY <3>1 DEF Object
      <3> QED
        BY <1>6, <2>2, <3>1, <3>2 DEF Linked
    <2> QED
      BY <2>1, <2>2
  <1> QED
    BY <1>5, <1>6, <1>8, <1>9 DEF HeapOK, m, k, new
-----------------------------------------------------------------------------
\* A heap with more devices: what was there has stayed, and what
\* udev_device_get_parent has answered is the answer still.
Grown(o, p) ==
  \A x \in Cells :
    /\ o[x].kind # "free" => p[x].kind = o[x].kind
    /\ o[x].kind = "free" => p[x].kind \in Kinds \union {"free"}
    /\ o[x].parent_done => p[x].parent_done /\ p[x].parent = o[x].parent

LEMMA GrownTwice ==
  ASSUME NEW o, NEW p, NEW q, Grown(o, p), Grown(p, q)
  PROVE  Grown(o, q)
  BY DEF Grown, Kinds

LEMMA MadeGrown ==
  ASSUME NEW o, NEW h, HeapOK(o, h), NEW c \in Room(o), NEW u \in Cells, o[u].kind = "udev",
         NEW kind \in Kinds, NEW num \in Nums \union {0}
  PROVE  LET m == Made(o, c, u, kind, num) IN
         /\ Grown(o, m)
         /\ m[c].kind = kind /\ m[c].udev = u /\ m[c].num = num
         /\ \A x \in Cells \ {c} : /\ m[x].kind = o[x].kind /\ m[x].num = o[x].num
                                   /\ m[x].udev = o[x].udev /\ m[x].parent = o[x].parent
                                   /\ m[x].parent_done = o[x].parent_done
  <1> DEFINE m == Made(o, c, u, kind, num)
  <1>1. c \in Cells /\ o[c] = Free
    BY Fresh
  <1>2. c # u /\ kind \in Owned /\ o[c].kind = "free" /\ ~o[c].parent_done
    BY <1>1 DEF Free, Owned
  <1>3. o \in [Cells -> Object] /\ o[u] \in Object
    BY DEF HeapOK
  <1>4. /\ m[c].kind = kind /\ m[c].udev = u /\ m[c].num = num
        /\ m[u] = [o[u] EXCEPT !.refs = o[u].refs + 1]
        /\ \A x \in Cells \ {c, u} : m[x] = o[x]
    BY <1>1, <1>2, <1>3, MadeFields
  <1>5. /\ m[u].kind = o[u].kind /\ m[u].num = o[u].num /\ m[u].udev = o[u].udev
        /\ m[u].parent = o[u].parent /\ m[u].parent_done = o[u].parent_done
    BY <1>3, <1>4 DEF Object
  <1> HIDE DEF m
  <1>6. \A x \in Cells \ {c} : /\ m[x].kind = o[x].kind /\ m[x].num = o[x].num
                               /\ m[x].udev = o[x].udev /\ m[x].parent = o[x].parent
                               /\ m[x].parent_done = o[x].parent_done
    BY <1>4, <1>5
  <1>7. Grown(o, m)
    BY <1>2, <1>4, <1>6 DEF Grown
  <1> QED
    BY <1>4, <1>6, <1>7 DEF m

\* A parent that udev_device_get_parent builds.
LEMMA ParentBuilt ==
  ASSUME NEW o, NEW h, HeapOK(o, h), NEW d \in Cells, ~o[d].parent_done,
         NEW kind, NEW num \in Nums \union {0},
         \/ o[d].kind = "drm" /\ kind = "pci"
         \/ o[d].kind = "event" /\ kind = "input" /\ num = o[d].num,
         NEW b \in device_build([o EXCEPT ![d].parent_done = TRUE], o[d].udev, kind, num)
  PROVE  LET p == [b[1] EXCEPT ![d].parent = b[2]] IN HeapOK(p, h) /\ Grown(o, p)
  <1> DEFINE asked == [o EXCEPT ![d].parent_done = TRUE]
             u == o[d].udev
             p == [b[1] EXCEPT ![d].parent = b[2]]
  <1>1. o \in [Cells -> Object] /\ o[d] \in Object /\ Linked(o, d) /\ o[d].kind \in Kinds
        /\ kind \in Kinds
    BY CellType DEF HeapOK, Kinds
  <1>2. u \in Cells /\ o[u].kind = "udev" /\ u # d /\ o[d].parent = None
    BY <1>1 DEF Linked, Object, Owned, Kinds
  <1>3. HeapOK(asked, h)
    BY <1>1, AskedKeeps DEF Kinds
  <1>4. LET n == [o[d] EXCEPT !.parent_done = TRUE] IN
          /\ n \in Object /\ n.kind = o[d].kind /\ n.udev = u /\ n.num = o[d].num
          /\ n.parent = None /\ n.parent_done
    BY <1>1, <1>2 DEF Object
  <1>5. /\ asked \in [Cells -> Object] /\ \A x \in Cells \ {d} : asked[x] = o[x]
        /\ asked[d].kind = o[d].kind /\ asked[d].udev = u /\ asked[d].num = o[d].num
        /\ asked[d].parent = None /\ asked[d].parent_done
    BY <1>1, <1>4
  <1> HIDE DEF asked
  <1>6. Grown(o, asked)
    BY <1>1, <1>5 DEF Grown, Kinds
  <1>7. CASE b = <<asked, None>>
    <2>1. asked[d] \in Object
      BY <1>5
    <2>2. [asked[d] EXCEPT !.parent = None] = asked[d]
      BY <1>5, <2>1 DEF Object
    <2>3. [asked EXCEPT ![d].parent = None] = asked
      BY <1>5, <2>2
    <2>4. p = asked
      BY <1>7, <2>3
    <2> QED
      BY <1>3, <1>6, <2>4
  <1>8. ASSUME NEW c \in Room(asked), b = <<Made(asked, c, u, kind, num), c>>
        PROVE HeapOK(p, h) /\ Grown(o, p)
    <2> DEFINE m == Made(asked, c, u, kind, num)
               k == [h EXCEPT ![c] = 1]
    <2>1. c \in Cells /\ asked[c] = Free /\ h[c] = 0 /\ h \in [Cells -> 0 .. MaxHeld]
      BY <1>3, Fresh DEF HeapOK
    <2>2. c # d
      BY <1>1, <1>5, <2>1 DEF Free, Kinds
    <2>3. asked[u].kind = "udev" /\ kind \in Owned
      BY <1>1, <1>2, <1>5 DEF Owned
    <2>4. HeapOK(m, k)
      BY <1>2, <1>3, <2>3, MadeKeeps
    <2>5. /\ Grown(asked, m)
          /\ m[c].kind = kind /\ m[c].udev = u /\ m[c].num = num
          /\ m[d].kind = asked[d].kind /\ m[d].num = asked[d].num /\ m[d].udev = asked[d].udev
          /\ m[d].parent = asked[d].parent /\ m[d].parent_done = asked[d].parent_done
      BY <1>1, <1>2, <1>3, <2>2, <2>3, MadeGrown
    <2>6. k[c] = 1 /\ [k EXCEPT ![c] = 0] = h
      BY <2>1
    <2>7. p = [m EXCEPT ![d].parent = c]
      BY <1>8
    <2> HIDE DEF m, k
    <2>8. HeapOK([m EXCEPT ![d].parent = c], [k EXCEPT ![c] = 0])
      <3>1. /\ m[d].parent = None /\ m[d].parent_done /\ m[c].udev = m[d].udev
            /\ \/ m[d].kind = "drm" /\ m[c].kind = "pci"
               \/ m[d].kind = "event" /\ m[c].kind = "input" /\ m[c].num = m[d].num
        BY <1>5, <2>5
      <3>2. c \in Cells /\ d \in Cells /\ k[c] = 1
        BY <2>1, <2>6
      <3> QED
        BY <2>2, <2>4, <3>1, <3>2, AdoptedKeeps
    <2>9. Grown(o, [m EXCEPT ![d].parent = c])
      <3>1. m \in [Cells -> Object] /\ m[d] \in Object
        BY <2>4 DEF HeapOK
      <3>2. LET n == [m[d] EXCEPT !.parent = c] IN
              n.kind = m[d].kind /\ n.parent_done = m[d].parent_done
        BY <3>1 DEF Object
      <3>3. \A x \in Cells :
              LET q == [m EXCEPT ![d].parent = c] IN
              /\ q[x].kind = m[x].kind /\ q[x].parent_done = m[x].parent_done
              /\ x # d => q[x].parent = m[x].parent
        BY <3>1, <3>2
      <3>4. Grown(o, m)
        BY <1>6, <2>5, GrownTwice
      <3> QED
        BY <3>3, <3>4 DEF Grown
    <2> QED
      BY <2>6, <2>7, <2>8, <2>9
  <1> QED
    BY <1>7, <1>8 DEF device_build, BuildGone, asked

\* The parent is built for the device that asked, and kept.
LEMMA GotParentKeeps ==
  ASSUME NEW o, NEW h, HeapOK(o, h), NEW d \in Cells, o[d].kind # "free",
         NEW p \in GotParent(o, d)
  PROVE  HeapOK(p, h) /\ Grown(o, p)
  <1> DEFINE asked == [o EXCEPT ![d].parent_done = TRUE]
  <1>1. CASE o[d].parent_done
    BY <1>1 DEF GotParent, Grown
  <1>2. CASE ~o[d].parent_done /\ o[d].kind = "drm"
    <2>1. PICK b \in device_build(asked, o[d].udev, "pci", 0) : p = [b[1] EXCEPT ![d].parent = b[2]]
      BY <1>2 DEF GotParent
    <2> QED
      BY <1>2, <2>1, ParentBuilt
  <1>3. CASE ~o[d].parent_done /\ o[d].kind = "event"
    <2>1. PICK b \in device_build(asked, o[d].udev, "input", o[d].num) :
                 p = [b[1] EXCEPT ![d].parent = b[2]]
      BY <1>3 DEF GotParent
    <2>2. o[d].num \in Nums \union {0}
      BY CellType DEF Object
    <2> QED
      BY <1>3, <2>1, <2>2, ParentBuilt
  <1>4. CASE ~o[d].parent_done /\ o[d].kind \notin {"drm", "event"}
    <2>1. p = asked
      BY <1>4 DEF GotParent
    <2>2. o \in [Cells -> Object] /\ o[d] \in Object
      BY DEF HeapOK
    <2>3. [o[d] EXCEPT !.parent_done = TRUE].kind = o[d].kind
      BY <2>2 DEF Object
    <2>4. \A x \in Cells : asked[x].kind = o[x].kind /\ (x # d => asked[x] = o[x])
      BY <2>2, <2>3
    <2>5. Grown(o, asked)
      BY <1>4, <2>4 DEF Grown
    <2> QED
      BY <2>1, <2>5, AskedKeeps
  <1> QED
    BY <1>1, <1>2, <1>3, <1>4
-----------------------------------------------------------------------------
\* An unreference drops one reference of each object freed on each it points to,
\* and at most as many as there are.
LEMMA DroppedOf ==
  ASSUME HeapOK(obj, held), NEW c \in Cells, held[c] > 0, NEW x \in Cells
  PROVE  LET rest == References(obj, [held EXCEPT ![c] = @ - 1], x)
                       - Cardinality(Children(obj, x) \cap Freed(c))
                       - Cardinality(Users(obj, x) \cap Freed(c))
         IN /\ Dropped(c, x) \in Nat /\ rest \in Nat
            /\ obj[x].refs - Dropped(c, x) = rest
            /\ rest = [held EXCEPT ![c] = @ - 1][x] + Cardinality(Children(obj, x) \ Freed(c))
                        + Cardinality(Users(obj, x) \ Freed(c))
  <1> DEFINE k == [held EXCEPT ![c] = @ - 1]
             F == Freed(c)
  <1>1. F \subseteq Cells
    BY DEF Freed
  <1>2. {y \in F : obj[y].parent = x} = Children(obj, x) \cap F
        /\ {y \in F : obj[y].udev = x} = Users(obj, x) \cap F
    BY <1>1 DEF Children, Users
  <1>3. Dropped(c, x) = (IF x = c THEN 1 ELSE 0) + Cardinality(Children(obj, x) \cap F)
                           + Cardinality(Users(obj, x) \cap F)
    BY <1>2 DEF Dropped
  <1>4. Children(obj, x) \subseteq Cells /\ Users(obj, x) \subseteq Cells
    BY DEF Children, Users
  <1>5. /\ Cardinality(Children(obj, x) \ F)
             = Cardinality(Children(obj, x)) - Cardinality(Children(obj, x) \cap F)
        /\ Cardinality(Children(obj, x) \cap F) \in Nat /\ Cardinality(Children(obj, x) \ F) \in Nat
    BY <1>4, SomeGo
  <1>6. /\ Cardinality(Users(obj, x) \ F)
             = Cardinality(Users(obj, x)) - Cardinality(Users(obj, x) \cap F)
        /\ Cardinality(Users(obj, x) \cap F) \in Nat /\ Cardinality(Users(obj, x) \ F) \in Nat
    BY <1>4, SomeGo
  <1>7. obj[x].refs = held[x] + Cardinality(Children(obj, x)) + Cardinality(Users(obj, x))
        /\ held[x] \in Nat /\ held[c] \in Nat
        /\ Cardinality(Children(obj, x)) \in Nat /\ Cardinality(Users(obj, x)) \in Nat
    BY CellType DEF Counted, References
  <1>8. k[x] = (IF x = c THEN held[x] - 1 ELSE held[x]) /\ k[x] \in Nat
    BY <1>7 DEF HeapOK
  <1> HIDE DEF F, k
  <1>9. References(obj, k, x) = k[x] + Cardinality(Children(obj, x)) + Cardinality(Users(obj, x))
    BY DEF References
  <1>10. LET rest == References(obj, k, x) - Cardinality(Children(obj, x) \cap F)
                       - Cardinality(Users(obj, x) \cap F)
         IN /\ Dropped(c, x) \in Nat /\ rest \in Nat
            /\ obj[x].refs - Dropped(c, x) = rest
            /\ rest = k[x] + Cardinality(Children(obj, x) \ F) + Cardinality(Users(obj, x) \ F)
    BY <1>3, <1>5, <1>6, <1>7, <1>8, <1>9
  <1> QED
    BY <1>10 DEF F, k

\* Of the objects that others point to as their parent or context, those that go
\* are the ones freed; a context may go with the last object that used it.
LEMMA GoneAreFreed ==
  ASSUME HeapOK(obj, held), NEW c \in Cells, held[c] > 0, NEW x \in Cells,
         obj[x].kind # "free"
  PROVE  /\ x \in Freed(c) => obj[x].refs = Dropped(c, x)
         /\ obj[x].refs = Dropped(c, x) => x \in Freed(c) \/ obj[x].kind = "udev"
  <1> DEFINE F == Freed(c)
             P == {y \in F : obj[y].parent = x}
             U == {y \in F : obj[y].udev = x}
  <1> USE DEF Freed
  <1>1. F \subseteq Cells
    OBVIOUS
  <1>2. Dropped(c, x) = (IF x = c THEN 1 ELSE 0) + Cardinality(P)
                           + Cardinality(U)
    BY DEF Dropped
  <1>3. \A z \in Cells : /\ obj[z].refs = held[z] + Cardinality(Children(obj, z)) + Cardinality(Users(obj, z))
                         /\ held[z] \in Nat /\ obj[z].refs \in Nat
                         /\ Cardinality(Children(obj, z)) \in Nat
                         /\ Cardinality(Users(obj, z)) \in Nat
    BY CellType DEF Counted, References, Object
  <1>4. \A z \in Cells : Linked(obj, z) /\ obj[z] \in Object /\ (obj[z].kind = "free" => obj[z] = Free)
    BY CellType DEF Counted
  <1>5. \A y \in Cells : obj[y].parent = x => obj[x].parent = None /\ obj[y].kind # "free"
    BY <1>4, UdevAssumption DEF Linked, Free
  <1>6. ASSUME x = c, obj[c].refs = 1 PROVE Dropped(c, x) = 1
    <2>1. Children(obj, c) = {} /\ Users(obj, c) = {}
      <3>1. Cardinality(Children(obj, c)) = 0 /\ Cardinality(Users(obj, c)) = 0
        <4>1. /\ obj[c].refs = held[c] + Cardinality(Children(obj, c)) + Cardinality(Users(obj, c))
              /\ held[c] \in Nat
              /\ Cardinality(Children(obj, c)) \in Nat /\ Cardinality(Users(obj, c)) \in Nat
          BY <1>3
        <4> QED
          BY <1>6, <4>1
      <3> QED
        BY <3>1, NoneInIt DEF Children, Users
    <2>2. P = {} /\ U = {}
      BY <1>1, <1>6, <2>1 DEF Children, Users
    <2> HIDE DEF F, P, U
    <2> QED
      BY <1>2, <1>6, <2>2, FS_EmptySet
  <1>7. ASSUME x # c, x = obj[c].parent, obj[c].refs = 1, obj[x].refs = 1 PROVE Dropped(c, x) = 1
    <2>1. c \in Children(obj, x)
      BY <1>7 DEF Children
    <2>2. Cardinality(Children(obj, x)) # 0
      BY <2>1, NoneInIt DEF Children
    <2>3. Cardinality(Children(obj, x)) = 1 /\ Cardinality(Users(obj, x)) = 0
      <3>1. /\ obj[x].refs = held[x] + Cardinality(Children(obj, x)) + Cardinality(Users(obj, x))
            /\ held[x] \in Nat
            /\ Cardinality(Children(obj, x)) \in Nat /\ Cardinality(Users(obj, x)) \in Nat
        BY <1>3
      <3> QED
        BY <1>7, <2>2, <3>1
    <2>4. Users(obj, x) = {}
      BY <2>3, NoneInIt DEF Users
    <2>5. P = {c} /\ U = {}
      <3>1. obj[x].parent = None
        BY <1>5, <1>7
      <3> QED
        BY <1>1, <1>7, <2>4, <3>1, UdevAssumption DEF Users
    <2>6. Cardinality({c}) = 1
      BY FS_Singleton
    <2> HIDE DEF F, P, U
    <2> QED
      BY <1>2, <1>7, <2>5, FS_EmptySet, <2>6
  <1>8. x \in F => obj[x].refs = Dropped(c, x)
    <2>1. obj[c].refs > 1 \/ obj[c].refs = 1
      BY <1>3
    <2> QED
      BY <1>6, <1>7, <2>1
  <1>9. ASSUME obj[x].refs = Dropped(c, x), x \notin F, obj[x].kind # "udev" PROVE FALSE
    <2>1. \A y \in Cells : obj[y].udev # x
      <3>1. \A y \in Cells : obj[y].kind \in Owned \union {"free", "udev"}
        BY <1>4 DEF Object
      <3> QED
        BY <1>4, <1>9, <3>1, UdevAssumption DEF Linked, Free
    <2>2. U = {} /\ obj[x].refs # 0
      BY <1>1, <2>1, CellType DEF Counted
    <2>3. CASE obj[c].refs > 1
      <3>1. F = {}
        BY <2>3
      <3>2. Dropped(c, x) = IF x = c THEN 1 ELSE 0
        <4>1. P = {}
          BY <3>1
        <4> HIDE DEF F, P, U
        <4> QED
          BY <1>2, <2>2, <4>1, FS_EmptySet
      <3> QED
        BY <1>9, <2>2, <2>3, <3>2
    <2>4. CASE obj[c].refs = 1
      <3>1. c \in F /\ x # c
        BY <1>9, <2>4
      <3>2. P = IF x = obj[c].parent THEN {c} ELSE {}
        <4>1. \A y \in F : y # c => obj[y].parent # x
          <5>1. SUFFICES ASSUME NEW y \in F, y # c, obj[y].parent = x PROVE FALSE
            OBVIOUS
          <5>2. y = obj[c].parent /\ obj[y].parent # None
            BY <5>1, UdevAssumption
          <5> QED
            BY <1>1, <1>4, <5>1, <5>2, UdevAssumption DEF Linked
        <4> QED
          BY <3>1, <4>1
      <3>3. Dropped(c, x) = IF x = obj[c].parent THEN 1 ELSE 0
        <4>1. Cardinality({c}) = 1
          BY FS_Singleton
        <4> HIDE DEF F, P, U
        <4> QED
          BY <1>2, <2>2, <3>1, <3>2, <4>1, FS_EmptySet
      <3> QED
        BY <1>9, <2>2, <2>4, <3>3
    <2>5. obj[c].refs >= 1
      BY <1>3
    <2> QED
      BY <2>3, <2>4, <2>5, <1>3
  <1> QED
    BY <1>8, <1>9

\* What unreferencing an object leaves of each cell.
LEMMA UnrefFields ==
  ASSUME HeapOK(obj, held), NEW c \in Cells, held[c] > 0, NEW x \in Cells
  PROVE  LET m == unref(c) IN
         /\ m[x] \in Object /\ m[x].refs = obj[x].refs - Dropped(c, x)
         /\ obj[x].refs = Dropped(c, x) => m[x] = Free
         /\ obj[x].refs # Dropped(c, x) =>
              /\ m[x].kind = obj[x].kind /\ m[x].udev = obj[x].udev /\ m[x].num = obj[x].num
              /\ m[x].parent = obj[x].parent /\ m[x].parent_done = obj[x].parent_done
  <1>1. /\ obj[x] \in Object /\ Dropped(c, x) \in Nat /\ obj[x].refs - Dropped(c, x) \in Nat
    BY CellType, DroppedOf
  <1>2. unref(c)[x] = IF obj[x].refs = Dropped(c, x) THEN Free
                      ELSE [obj[x] EXCEPT !.refs = obj[x].refs - Dropped(c, x)]
    BY DEF unref
  <1>3. CASE obj[x].refs = Dropped(c, x)
    <2>1. obj[x].refs - Dropped(c, x) = 0
      BY <1>1, <1>3
    <2>2. Free \in Object /\ Free.refs = 0
      BY DEF Free, Object
    <2> QED
      BY <1>2, <1>3, <2>1, <2>2
  <1>4. CASE obj[x].refs # Dropped(c, x)
    <2> DEFINE n == obj[x].refs - Dropped(c, x)
    <2>1. n \in Nat
      BY <1>1
    <2> HIDE DEF n
    <2>2. LET new == [obj[x] EXCEPT !.refs = n] IN
            /\ new \in Object /\ new.refs = n
            /\ new.kind = obj[x].kind /\ new.udev = obj[x].udev /\ new.num = obj[x].num
            /\ new.parent = obj[x].parent /\ new.parent_done = obj[x].parent_done
      BY <1>1, <2>1 DEF Object
    <2>3. unref(c)[x] = [obj[x] EXCEPT !.refs = n]
      BY <1>2, <1>4 DEF n
    <2> QED
      BY <1>4, <2>2, <2>3 DEF n
  <1> QED
    BY <1>3, <1>4

\* What the caller lets go of is freed when nothing else needs it, and takes
\* along what only it needed.
LEMMA UnrefKeeps ==
  ASSUME HeapOK(obj, held), NEW c \in Cells, held[c] > 0
  PROVE  HeapOK(unref(c), [held EXCEPT ![c] = @ - 1])
  <1> DEFINE m == unref(c)
             k == [held EXCEPT ![c] = @ - 1]
             F == Freed(c)
             Gone(x) == obj[x].refs = Dropped(c, x)
  <1>1. \A x \in Cells :
          /\ m[x] \in Object /\ m[x].refs = obj[x].refs - Dropped(c, x)
          /\ Gone(x) => m[x] = Free
          /\ ~Gone(x) =>
               /\ m[x].kind = obj[x].kind /\ m[x].udev = obj[x].udev /\ m[x].num = obj[x].num
               /\ m[x].parent = obj[x].parent /\ m[x].parent_done = obj[x].parent_done
    BY UnrefFields
  <1>2. m \in [Cells -> Object] /\ k \in [Cells -> 0 .. MaxHeld]
    <2>1. held \in [Cells -> 0 .. MaxHeld] /\ held[c] - 1 \in 0 .. MaxHeld
      BY UdevAssumption DEF HeapOK
    <2>2. m = [x \in Cells |-> m[x]]
      BY DEF unref
    <2> QED
      BY <1>1, <2>1, <2>2
  <1>3. \A x \in Cells : 
          /\ Dropped(c, x) \in Nat
          /\ m[x].refs = k[x] + Cardinality(Children(obj, x) \ F) + Cardinality(Users(obj, x) \ F)
    BY <1>1, DroppedOf
  <1>4. \A x \in Cells : obj[x].kind # "free" /\ obj[x].kind # "udev" => (Gone(x) <=> x \in F)
    BY GoneAreFreed
  <1>5. \A x \in Cells : Linked(obj, x) /\ obj[x] \in Object /\ Counted(obj, held, x)
    BY CellType
  <1>6. Free.parent = None /\ Free.udev = None /\ Free.kind = "free" /\ Free.refs = 0
    BY DEF Free
  <1>7. \A x \in Cells : (obj[x].parent # None \/ obj[x].udev # None) =>
                            obj[x].kind # "free" /\ obj[x].kind # "udev"
    BY <1>5, <1>6 DEF Linked, Counted
  <1> HIDE DEF m, k, F, Gone
  <1>8. ASSUME NEW x \in Cells
        PROVE Children(m, x) = Children(obj, x) \ F /\ Users(m, x) = Users(obj, x) \ F
    <2>1. x # None
      BY UdevAssumption
    <2>2. \A d \in Cells : m[d].parent = x <=> obj[d].parent = x /\ d \notin F
      BY <1>1, <1>4, <1>6, <1>7, <2>1
    <2>3. \A d \in Cells : m[d].udev = x <=> obj[d].udev = x /\ d \notin F
      BY <1>1, <1>4, <1>6, <1>7, <2>1
    <2> QED
      BY <2>2, <2>3 DEF Children, Users
  <1>9. \A x \in Cells : m[x].refs = References(m, k, x)
    BY <1>3, <1>8 DEF References
  <1>10. ASSUME NEW x \in Cells PROVE Counted(m, k, x)
    <2>1. CASE Gone(x)
      BY <1>1, <1>6, <1>9, <2>1 DEF Counted
    <2>2. CASE ~Gone(x)
      <3>1. m[x].refs # 0
        <4>1. obj[x].refs \in Nat /\ Dropped(c, x) \in Nat /\ obj[x].refs # Dropped(c, x)
          BY <1>3, <1>5, <2>2 DEF Object, Gone
        <4> QED
          BY <1>1, <4>1
      <3>2. obj[x].kind # "free"
        <4>1. obj[x].refs \in Nat /\ m[x].refs \in Nat /\ Dropped(c, x) \in Nat
              /\ m[x].refs = obj[x].refs - Dropped(c, x)
          BY <1>1, <1>3, <1>5 DEF Object
        <4>2. obj[x].refs # 0
          BY <3>1, <4>1
        <4> QED
          BY <1>5, <4>2 DEF Counted
      <3> QED
        BY <1>1, <1>9, <2>2, <3>1, <3>2 DEF Counted
    <2> QED
      BY <2>1, <2>2
  <1>11. ASSUME NEW x \in Cells, NEW y \in Cells, m[x].parent = y \/ m[x].udev = y
         PROVE ~Gone(x) /\ ~Gone(y)
    <2>1. ~Gone(x)
      BY <1>1, <1>6, <1>11, UdevAssumption
    <2>2. x \in Children(m, y) \/ x \in Users(m, y)
      BY <1>11 DEF Children, Users
    <2>3. Cardinality(Children(m, y)) \in Nat /\ Cardinality(Users(m, y)) \in Nat /\ k[y] \in Nat
      BY <1>2, UdevAssumption, CellSets DEF Children, Users
    <2>4. Cardinality(Children(m, y)) # 0 \/ Cardinality(Users(m, y)) # 0
      BY <2>2, NoneInIt DEF Children, Users
    <2>5. m[y].refs # 0
      BY <1>9, <2>3, <2>4 DEF References
    <2> QED
      BY <1>1, <1>6, <2>1, <2>5
  <1>12. ASSUME NEW x \in Cells PROVE Linked(m, x)
    <2>1. CASE Gone(x)
      BY <1>1, <1>6, <2>1 DEF Linked, Owned, Kinds
    <2>2. CASE ~Gone(x)
      <3>1. /\ m[x].kind = obj[x].kind /\ m[x].udev = obj[x].udev /\ m[x].num = obj[x].num
            /\ m[x].parent = obj[x].parent /\ m[x].parent_done = obj[x].parent_done
        BY <1>1, <2>2
      <3>2. obj[x].udev \in Cells \union {None} /\ obj[x].parent \in Cells \union {None}
        BY <1>5 DEF Object
      <3>3. \A y \in {obj[x].udev, obj[x].parent} \ {None} :
              /\ m[y].kind = obj[y].kind /\ m[y].num = obj[y].num /\ m[y].udev = obj[y].udev
        BY <1>1, <1>11, <3>1, <3>2
      <3>4. Linked(obj, x)
        BY <1>5
      <3> QED
        BY <3>1, <3>3, <3>4 DEF Linked
    <2> QED
      BY <2>1, <2>2
  <1> QED
    BY <1>2, <1>10, <1>12 DEF HeapOK, m, k
-----------------------------------------------------------------------------
\* A device is found again by its path.
LEMMA PathFound ==
  ASSUME NEW kind \in Kinds, NEW num \in Nums
  PROVE  FromSyspath(Syspath(kind, num)) = <<kind, IF kind = "pci" THEN 0 ELSE num>>
  <1>1. CASE kind = "pci"
    BY <1>1 DEF Syspath, FromSyspath
  <1>2. CASE kind = "drm"
    BY <1>2 DEF Syspath, FromSyspath
  <1>3. CASE kind = "input"
    BY <1>3 DEF Syspath, FromSyspath
  <1>4. CASE kind = "event"
    BY <1>4 DEF Syspath, FromSyspath
  <1> QED
    BY <1>1, <1>2, <1>3, <1>4 DEF Kinds

LEMMA PathTypes ==
  ASSUME NEW path \in Paths, FromSyspath(path) # <<>>
  PROVE  FromSyspath(path)[1] \in Kinds /\ FromSyspath(path)[2] \in Nums \union {0}
  <1>1. CASE \E kind \in Kinds, num \in Nums : path = Syspath(kind, num)
    BY <1>1, PathFound
  <1>2. CASE path \in ToSet(ClassPaths)
    <2>1. path = <<"class", "drm">> \/ path = <<"class", "input">>
      BY <1>2 DEF ToSet, ClassPaths
    <2>2. FromSyspath(path) = <<>>
      BY <2>1 DEF FromSyspath
    <2> QED
      BY <2>2
  <1> QED
    BY <1>1, <1>2 DEF Paths

\* What a function of the library does that makes a device.
LEMMA NewDeviceKeeps ==
  ASSUME HeapOK(obj, held), NEW u \in Cells, obj[u].kind = "udev",
         NEW kind \in Kinds, NEW num \in Nums \union {0}, NewDevice(u, kind, num)
  PROVE  HeapOK(obj, held)' /\ Grown(obj, obj')
  <1>1. PICK b \in device_build(obj, u, kind, num) :
               obj' = b[1] /\ held' = IF b[2] = None THEN held ELSE [held EXCEPT ![b[2]] = 1]
    BY DEF NewDevice
  <1>2. CASE b = <<obj, None>>
    <2>1. obj' = obj /\ held' = held
      BY <1>1, <1>2
    <2>2. Grown(obj, obj)
      BY DEF Grown
    <2> QED
      BY <2>1, <2>2
  <1>3. ASSUME NEW c \in Room(obj), b = <<Made(obj, c, u, kind, num), c>>
        PROVE HeapOK(obj, held)' /\ Grown(obj, obj')
    <2>1. c # None /\ kind \in Owned
      BY UdevAssumption DEF Room, Owned
    <2>2. obj' = Made(obj, c, u, kind, num) /\ held' = [held EXCEPT ![c] = 1]
      BY <1>1, <1>3, <2>1
    <2>3. HeapOK(Made(obj, c, u, kind, num), [held EXCEPT ![c] = 1])
      BY <2>1, MadeKeeps
    <2>4. Grown(obj, Made(obj, c, u, kind, num))
      BY MadeGrown
    <2> QED
      BY <2>2, <2>3, <2>4
  <1> QED
    BY <1>1, <1>2, <1>3 DEF device_build, BuildGone
-----------------------------------------------------------------------------
\* What the caller can use has not been freed.
LEMMA UsableIsLive ==
  ASSUME HeapOK(obj, held), NEW c \in Cells, held[c] > 0 \/ Borrows(c)
  PROVE  obj[c].kind # "free"
  <1>1. \A x \in Cells : Linked(obj, x) /\ Counted(obj, held, x) /\ obj[x] \in Object
    BY CellType
  <1>2. ASSUME NEW x \in Cells, held[x] > 0 PROVE obj[x].kind # "free"
    <2>1. held[x] \in Nat /\ Cardinality(Children(obj, x)) \in Nat
          /\ Cardinality(Users(obj, x)) \in Nat
      BY CellType
    <2>2. References(obj, held, x) # 0
      BY <1>2, <2>1 DEF References
    <2> QED
      BY <1>1, <2>2 DEF Counted
  <1>3. ASSUME NEW d \in Cells, held[d] > 0, c = obj[d].parent \/ c = obj[d].udev
        PROVE obj[c].kind # "free"
    <2>1. obj[d].kind # "free" /\ c # None
      BY <1>2, <1>3, UdevAssumption
    <2>2. obj[d].kind \in Owned \/ obj[d].kind = "udev"
      BY <1>1, <2>1 DEF Object
    <2> QED
      BY <1>1, <1>3, <2>1, <2>2 DEF Linked
  <1> QED
    BY <1>2, <1>3 DEF Borrows

\* What udev_device_get_parent has answered is the answer while the device lives.
ParentKept ==
  \A d \in Cells : obj[d].parent_done /\ obj'[d].kind # "free" => obj'[d].parent = obj[d].parent

\* A call that makes devices, and does nothing else.
LEMMA GrownKeeps ==
  ASSUME Inv, Idle, HeapOK(obj, held)', Grown(obj, obj'),
         UNCHANGED <<filter, result, pipes, scan, nodes, steady>>
  PROVE  Inv' /\ ParentKept
  <1>1. \A x \in Cells : /\ obj'[x].kind = "free" => obj[x].kind = "free"
                         /\ obj'[x].kind = "monitor" <=> obj[x].kind = "monitor"
    BY DEF Grown, Kinds
  <1>2. ListsOK'
    BY <1>1 DEF Inv, ListsOK
  <1>3. ScanOK'
    BY DEF Inv, ScanOK, Idle
  <1>4. ParentKept
    BY DEF Grown, ParentKept
  <1> QED
    BY <1>2, <1>3, <1>4 DEF Inv

\* A new object that is not a device.
LEMMA NewKeeps ==
  ASSUME Inv, Idle, NEW c \in Room(obj), NEW u \in Cells, obj[u].kind = "udev",
         NEW kind \in {"enumerate", "monitor"}, obj' = Made(obj, c, u, kind, 0),
         held' = [held EXCEPT ![c] = 1],
         pipes' = IF kind = "monitor" THEN pipes \union {c} ELSE pipes,
         UNCHANGED <<filter, result, scan, nodes, steady>>
  PROVE  Inv' /\ ParentKept
  <1>1. kind \in Owned /\ HeapOK(obj, held) /\ 0 \in Nums \union {0}
    BY DEF Owned, Inv
  <1>2. HeapOK(obj, held)'
    BY <1>1, MadeKeeps
  <1>3. c \in Cells /\ obj[c].kind = "free" /\ c # u
    BY DEF Room
  <1>4. obj \in [Cells -> Object] /\ obj[u] \in Object
    BY <1>1 DEF HeapOK
  <1>5. /\ obj'[c].kind = kind /\ obj'[u] = [obj[u] EXCEPT !.refs = obj[u].refs + 1]
        /\ \A x \in Cells \ {c, u} : obj'[x] = obj[x]
    BY <1>1, <1>3, <1>4, MadeFields
  <1>6. \A x \in Cells \ {c} : obj'[x].kind = obj[x].kind
    <2>1. [obj[u] EXCEPT !.refs = obj[u].refs + 1].kind = obj[u].kind
      BY <1>4 DEF Object
    <2> QED
      BY <1>5, <2>1
  <1>7. ListsOK'
    <2>1. pipes' = {m \in Cells : obj'[m].kind = "monitor"}
      BY <1>3, <1>5, <1>6 DEF Inv, ListsOK
    <2> QED
      BY <1>5, <1>6, <2>1 DEF Inv, ListsOK
  <1>8. ScanOK'
    BY DEF Inv, ScanOK, Idle
  <1>9. ParentKept
    <2>1. ~obj[c].parent_done
      BY <1>1, Fresh DEF Free
    <2>2. [obj[u] EXCEPT !.refs = obj[u].refs + 1].parent = obj[u].parent
      BY <1>4 DEF Object
    <2> QED
      BY <1>5, <2>1, <2>2 DEF ParentKept
  <1> QED
    BY <1>2, <1>7, <1>8, <1>9 DEF Inv

LEMMA ContextStep == Inv /\ CallContext => Inv' /\ ParentKept
  <1> SUFFICES ASSUME Inv, CallContext PROVE Inv' /\ ParentKept
    OBVIOUS
  <1>1. HeapOK(obj, held)
    BY DEF Inv
  <1>2. CASE udev_new
    <2>1. PICK c \in Room(obj) :
                 /\ obj' = [obj EXCEPT ![c] = [Free EXCEPT !.kind = "udev", !.refs = 1]]
                 /\ held' = [held EXCEPT ![c] = 1]
      BY <1>2 DEF udev_new
    <2>2. HeapOK(obj, held)'
      BY <1>1, <2>1, ContextKeeps
    <2>3. c \in Cells /\ obj[c].kind = "free" /\ obj \in [Cells -> Object] /\ Free \in Object
      BY <1>1 DEF Room, HeapOK, Free, Object
    <2>4. obj'[c].kind = "udev" /\ \A x \in Cells \ {c} : obj'[x] = obj[x]
      <3>1. [Free EXCEPT !.kind = "udev", !.refs = 1].kind = "udev"
        BY <2>3 DEF Object
      <3> QED
        BY <2>1, <2>3, <3>1
    <2>5. ListsOK'
      BY <1>2, <2>3, <2>4 DEF Inv, ListsOK, udev_new
    <2>6. ScanOK'
      BY <1>2 DEF Inv, ScanOK, Idle, udev_new
    <2>7. ParentKept
      <3>1. ~obj[c].parent_done
        BY <1>1, Fresh DEF Free
      <3> QED
        BY <2>4, <3>1 DEF ParentKept
    <2> QED
      BY <2>2, <2>5, <2>6, <2>7 DEF Inv
  <1>3. ASSUME NEW u \in Has({"udev"}), NEW path \in Paths, udev_device_new_from_syspath(u, path)
        PROVE Inv' /\ ParentKept
    <2>1. u \in Cells /\ obj[u].kind = "udev"
      BY DEF Has
    <2>2. FromSyspath(path)[1] \in Kinds /\ FromSyspath(path)[2] \in Nums \union {0}
      BY <1>3, PathTypes DEF udev_device_new_from_syspath
    <2> DEFINE kind == FromSyspath(path)[1]
               num == FromSyspath(path)[2]
    <2>3. NewDevice(u, kind, num) /\ Idle
      BY <1>3 DEF udev_device_new_from_syspath
    <2> HIDE DEF kind, num
    <2> QED
      BY <1>1, <2>1, <2>2, <2>3, NewDeviceKeeps, GrownKeeps DEF NewDevice, kind, num
  <1>4. ASSUME NEW u \in Has({"udev"}), NEW node \in Nodes, udev_device_new_from_devnum(u, node)
        PROVE Inv' /\ ParentKept
    <2>1. u \in Cells /\ obj[u].kind = "udev"
      BY DEF Has
    <2>2. KindOf(node[1]) \in Kinds /\ node[2] \in Nums \union {0}
      BY DEF KindOf, Kinds, Nums
    <2>3. NewDevice(u, KindOf(node[1]), node[2]) /\ Idle
      BY <1>4 DEF udev_device_new_from_devnum
    <2> QED
      BY <1>1, <2>1, <2>2, <2>3, NewDeviceKeeps, GrownKeeps DEF NewDevice
  <1>5. ASSUME NEW u \in Has({"udev"}), NEW kind \in Kinds, NEW num \in Nums,
               udev_device_new_from_subsystem_sysname(u, kind, num)
        PROVE Inv' /\ ParentKept
    <2>1. u \in Cells /\ obj[u].kind = "udev" /\ num \in Nums \union {0}
      BY DEF Has
    <2>2. NewDevice(u, kind, num) /\ Idle
      BY <1>5 DEF udev_device_new_from_subsystem_sysname
    <2> QED
      BY <1>1, <2>1, <2>2, NewDeviceKeeps, GrownKeeps DEF NewDevice
  <1>6. ASSUME NEW u \in Has({"udev"}), udev_monitor_new_from_netlink(u) PROVE Inv' /\ ParentKept
    <2>1. u \in Cells /\ obj[u].kind = "udev"
      BY DEF Has
    <2> QED
      BY <1>6, <2>1, NewKeeps DEF udev_monitor_new_from_netlink
  <1>7. ASSUME NEW u \in Has({"udev"}), udev_enumerate_new(u) PROVE Inv' /\ ParentKept
    <2>1. u \in Cells /\ obj[u].kind = "udev"
      BY DEF Has
    <2> QED
      BY <1>7, <2>1, NewKeeps DEF udev_enumerate_new
  <1> QED
    BY <1>2, <1>3, <1>4, <1>5, <1>6, <1>7 DEF CallContext

\* Calls that touch no object.
LEMMA ObjectsSame ==
  ASSUME UNCHANGED <<obj, held>>, HeapOK(obj, held)
  PROVE  HeapOK(obj, held)' /\ ParentKept
  <1>1. obj' = obj /\ held' = held
    OBVIOUS
  <1>2. ParentKept
    BY DEF ParentKept
  <1> QED
    BY <1>1, <1>2

LEMMA AnyStep == Inv /\ CallAny => Inv' /\ ParentKept
  <1> SUFFICES ASSUME Inv, CallAny PROVE Inv' /\ ParentKept
    OBVIOUS
  <1>1. HeapOK(obj, held) /\ obj \in [Cells -> Object]
    BY DEF Inv, HeapOK
  <1>2. ASSUME NEW c \in Has(Kinds \union {"udev", "enumerate", "monitor"}), Ref(c)
        PROVE Inv' /\ ParentKept
    <2>1. c \in Cells /\ obj[c].kind # "free" /\ obj[c] \in Object
      BY <1>1 DEF Has, Kinds
    <2>2. HeapOK([obj EXCEPT ![c].refs = @ + 1], [held EXCEPT ![c] = @ + 1])
      BY <1>1, <1>2, <2>1, RefKeeps DEF Ref
    <2>3. HeapOK(obj, held)'
      BY <1>2, <2>2 DEF Ref
    <2>4. obj' = [obj EXCEPT ![c] = [obj[c] EXCEPT !.refs = obj[c].refs + 1]]
      BY <1>2 DEF Ref
    <2>5. LET n == [obj[c] EXCEPT !.refs = obj[c].refs + 1] IN
            n.kind = obj[c].kind /\ n.parent = obj[c].parent
      BY <2>1 DEF Object
    <2>6. \A x \in Cells : obj'[x].kind = obj[x].kind /\ obj'[x].parent = obj[x].parent
      BY <1>1, <2>1, <2>4, <2>5
    <2>7. ListsOK'
      BY <1>2, <2>6 DEF Inv, ListsOK, Ref
    <2>8. ScanOK'
      BY <1>2 DEF Inv, ScanOK, Idle, Ref
    <2> QED
      BY <2>3, <2>6, <2>7, <2>8 DEF Inv, ParentKept
  <1>3. ASSUME NEW c \in Cells, Unref(c) PROVE Inv' /\ ParentKept
    <2>1. held[c] > 0 /\ obj' = unref(c) /\ held' = [held EXCEPT ![c] = @ - 1]
      BY <1>3 DEF Unref
    <2>2. HeapOK(obj, held)'
      BY <1>1, <2>1, UnrefKeeps
    <2>3. \A x \in Cells : obj'[x] = Free \/ (obj'[x].kind = obj[x].kind /\ obj'[x].parent = obj[x].parent)
      <3>1. \A x \in Cells : unref(c)[x] = Free \/ (/\ unref(c)[x].kind = obj[x].kind
                                                     /\ unref(c)[x].parent = obj[x].parent)
        BY <1>1, <2>1, UnrefFields
      <3> QED
        BY <2>1, <3>1
    <2>4. Free.kind = "free"
      BY DEF Free
    <2>5. ListsOK'
      <3>1. NoFilter \in Filter /\ Len(NoFilter.subsystems) = 0 /\ Len(NoFilter.sysnames) = 0
            /\ <<>> \in Seq(Paths) /\ MaxMatches \in Nat
        BY UdevAssumption DEF NoFilter, Filter
      <3>2. filter' \in [Cells -> Filter] /\ result' \in [Cells -> Seq(Paths)]
        BY <1>3, <3>1 DEF Unref, Inv, ListsOK
      <3>3. \A x \in Cells :
              /\ Len(filter'[x].subsystems) <= MaxMatches /\ Len(filter'[x].sysnames) <= MaxMatches
              /\ obj'[x].kind = "free" => filter'[x] = NoFilter /\ result'[x] = <<>>
        BY <1>3, <3>1 DEF Unref, Inv, ListsOK
      <3>4. pipes' = {m \in Cells : obj'[m].kind = "monitor"}
        BY <1>3, <2>3, <2>4 DEF Unref, Inv, ListsOK
      <3> QED
        BY <3>2, <3>3, <3>4 DEF ListsOK
    <2>6. ScanOK'
      BY <1>3 DEF Inv, ScanOK, Idle, Unref
    <2>7. ParentKept
      BY <2>3, <2>4 DEF ParentKept
    <2> QED
      BY <2>2, <2>5, <2>6, <2>7 DEF Inv
  <1> QED
    BY <1>2, <1>3 DEF CallAny

LEMMA DeviceStep == Inv /\ CallDevice => Inv' /\ ParentKept
  <1> SUFFICES ASSUME Inv, CallDevice PROVE Inv' /\ ParentKept
    OBVIOUS
  <1>1. HeapOK(obj, held)
    BY DEF Inv
  <1>2. PICK d \in Has(Kinds) :
          \/ udev_device_get_parent(d)
          \/ \E subsystem \in {None, "pci", "input", "drm"}, devtype \in {None, "drm_minor"} :
               udev_device_get_parent_with_subsystem_devtype(d, subsystem, devtype)
    BY DEF CallDevice
  <1>3. d \in Cells /\ obj[d].kind # "free"
    BY DEF Has, Kinds
  <1>4. \A o \in GotParent(obj, d) : HeapOK(o, held) /\ Grown(obj, o)
    BY <1>1, <1>3, GotParentKeeps
  <1>5. Idle /\ UNCHANGED <<held, filter, result, pipes, scan, nodes, steady>>
    BY <1>2 DEF udev_device_get_parent, udev_device_get_parent_with_subsystem_devtype
  <1>6. ASSUME NEW o \in GotParent(obj, d), o[d].parent # None, obj' \in GotParent(o, o[d].parent)
        PROVE HeapOK(obj', held) /\ Grown(obj, obj')
    <2>1. HeapOK(o, held) /\ Grown(obj, o)
      BY <1>4
    <2>2. Linked(o, d) /\ o[d] \in Object
      BY <1>3, <2>1, CellType
    <2>3. o[d].parent \in Cells /\ o[o[d].parent].kind # "free"
      BY <1>6, <2>2 DEF Linked, Object
    <2>4. HeapOK(obj', held) /\ Grown(o, obj')
      BY <1>6, <2>1, <2>3, GotParentKeeps
    <2> QED
      BY <2>1, <2>4, GrownTwice
  <1>7. HeapOK(obj', held) /\ Grown(obj, obj')
    <2>1. CASE udev_device_get_parent(d)
      BY <1>4, <2>1 DEF udev_device_get_parent
    <2>2. ASSUME NEW subsystem \in {None, "pci", "input", "drm"}, NEW devtype \in {None, "drm_minor"},
                 udev_device_get_parent_with_subsystem_devtype(d, subsystem, devtype)
          PROVE HeapOK(obj', held) /\ Grown(obj, obj')
      <3>1. PICK o \in GotParent(obj, d) :
                   IF o[d].parent = None \/ Fits(o, o[d].parent, subsystem, devtype)
                   THEN obj' = o
                   ELSE obj' \in GotParent(o, o[d].parent)
        BY <2>2 DEF udev_device_get_parent_with_subsystem_devtype
      <3> QED
        BY <1>4, <1>6, <3>1
    <2> QED
      BY <1>2, <2>1, <2>2
  <1>8. HeapOK(obj, held)'
    BY <1>5, <1>7
  <1> QED
    BY <1>5, <1>7, <1>8, GrownKeeps
-----------------------------------------------------------------------------
\* The numbers of a set, in order.
InOrder(s) == \A i, j \in DOMAIN s : i < j => s[i] < s[j]

LEMMA LeastNumber ==
  ASSUME NEW S, S \subseteq Nat, S # {}
  PROVE  \E x \in S : \A y \in S : x <= y
  <1>1. PICK x \in S : \A y \in S : ~ (<<y, x>> \in OpToRel(<, Nat))
    BY NatLessThanWellFounded, WFMin
  <1>2. \A y \in S : ~ (y < x)
    BY <1>1 DEF OpToRel
  <1> QED
    BY <1>2

\* A set without its least number put in order, after the least number.
LEMMA OneMore ==
  ASSUME NEW T, T \subseteq Nat, IsFiniteSet(T), NEW m \in T, \A y \in T : m <= y,
         NEW n \in Nat, Cardinality(T) = n + 1,
         NEW s \in [1 .. n -> T \ {m}], InOrder(s)
  PROVE  \E t \in [1 .. Cardinality(T) -> T] : InOrder(t)
  <1> DEFINE t == [i \in 1 .. n + 1 |-> IF i = 1 THEN m ELSE s[i - 1]]
  <1>1. \A i \in 2 .. n + 1 : i - 1 \in 1 .. n /\ s[i - 1] \in T \ {m}
    OBVIOUS
  <1>2. t \in [1 .. n + 1 -> T]
    BY <1>1
  <1>3. ASSUME NEW i \in 1 .. n + 1, NEW j \in 1 .. n + 1, i < j PROVE t[i] < t[j]
    <2>1. j \in 2 .. n + 1 /\ t[j] = s[j - 1]
      BY <1>3
    <2>2. CASE i = 1
      <3>1. t[i] = m /\ s[j - 1] \in T /\ s[j - 1] # m
        BY <1>1, <2>1, <2>2
      <3>2. m <= s[j - 1] /\ m \in Nat /\ s[j - 1] \in Nat
        BY <3>1
      <3> QED
        BY <2>1, <3>1, <3>2
    <2>3. CASE i # 1
      <3>1. i \in 2 .. n + 1 /\ t[i] = s[i - 1]
        BY <1>3, <2>3
      <3>2. i - 1 \in DOMAIN s /\ j - 1 \in DOMAIN s /\ i - 1 < j - 1
        BY <1>3, <2>1, <3>1
      <3> QED
        BY <2>1, <3>1, <3>2 DEF InOrder
    <2> QED
      BY <2>2, <2>3
  <1>4. InOrder(t)
    BY <1>3 DEF InOrder
  <1> HIDE DEF t
  <1> QED
    BY <1>2, <1>4

LEMMA OrderExists ==
  ASSUME NEW S, S \subseteq Nat, IsFiniteSet(S)
  PROVE  \E s \in [1 .. Cardinality(S) -> S] : InOrder(s)
  <1> DEFINE Good(T) == \E s \in [1 .. Cardinality(T) -> T] : InOrder(s)
             Bad == {n \in Nat : \E T \in SUBSET S : Cardinality(T) = n /\ ~Good(T)}
  <1> HIDE DEF Good
  <1>1. \A T \in SUBSET S : IsFiniteSet(T) /\ Cardinality(T) \in Nat /\ T \subseteq Nat
    BY FS_Subset, FS_CardinalityType
  <1>2. Bad = {}
    <2> SUFFICES ASSUME Bad # {} PROVE FALSE
      OBVIOUS
    <2>1. PICK n \in Bad : \A k \in Bad : n <= k
      BY LeastNumber
    <2>2. PICK T \in SUBSET S : Cardinality(T) = n /\ ~Good(T)
      BY <2>1
    <2>3. CASE T = {}
      <3>1. Cardinality(T) = 0
        BY <2>3, FS_EmptySet
      <3>2. [i \in 1 .. 0 |-> 0] \in [1 .. 0 -> T] /\ InOrder([i \in 1 .. 0 |-> 0])
        BY DEF InOrder
      <3> QED
        BY <2>2, <3>1, <3>2 DEF Good
    <2>4. CASE T # {}
      <3>1. PICK m \in T : \A y \in T : m <= y
        BY <1>1, <2>4, LeastNumber
      <3>2. Cardinality(T \ {m}) = n - 1
        BY <1>1, <2>2, FS_RemoveElement
      <3>3. n - 1 \in Nat /\ n \in Nat
        BY <1>1, <3>2, <2>1
      <3>4. n - 1 \notin Bad
        BY <2>1, <3>3
      <3>5. Good(T \ {m})
        BY <3>2, <3>3, <3>4
      <3>6. PICK s \in [1 .. n - 1 -> T \ {m}] : InOrder(s)
        BY <3>2, <3>5 DEF Good
      <3>7. Cardinality(T) = (n - 1) + 1
        BY <2>2, <3>3
      <3>8. Good(T)
        BY <1>1, <3>1, <3>3, <3>6, <3>7, OneMore DEF Good
      <3> QED
        BY <2>2, <3>8
    <2> QED
      BY <2>3, <2>4
  <1>3. Good(S)
    BY <1>1, <1>2
  <1> QED
    BY <1>3 DEF Good

LEMMA AscendingIs ==
  ASSUME NEW S, S \subseteq Nat, IsFiniteSet(S)
  PROVE  /\ Ascending(S) \in Seq(S) /\ InOrder(Ascending(S))
         /\ Len(Ascending(S)) = Cardinality(S)
         /\ \A x \in S : \E i \in DOMAIN Ascending(S) : Ascending(S)[i] = x
  <1> DEFINE n == Cardinality(S)
             s == Ascending(S)
  <1>1. n \in Nat
    BY FS_CardinalityType
  <1>2. \E t \in [1 .. n -> S] : \A i, j \in DOMAIN t : i < j => t[i] < t[j]
    BY OrderExists DEF InOrder
  <1>3. s \in [1 .. n -> S] /\ \A i, j \in DOMAIN s : i < j => s[i] < s[j]
    BY <1>2 DEF Ascending
  <1> HIDE DEF s
  <1>4. s \in Seq(S) /\ Len(s) = n /\ InOrder(s)
    BY <1>1, <1>3 DEF InOrder
  <1>5. ASSUME NEW i \in 1 .. n, NEW j \in 1 .. n, s[i] = s[j] PROVE i = j
    <2>1. s[i] \in Nat
      BY <1>3
    <2>2. ~(s[i] < s[j]) /\ ~(s[j] < s[i])
      BY <1>5, <2>1
    <2>3. ~(i < j) /\ ~(j < i)
      BY <1>3, <2>2
    <2> QED
      BY <2>3
  <1>6. s \in Injection(1 .. n, S)
    BY <1>3, <1>5 DEF Injection, IsInjective
  <1>7. Cardinality(1 .. n) = n
    BY <1>1, FS_Interval
  <1>8. s \in Surjection(1 .. n, S)
    BY <1>6, <1>7, FS_Injection
  <1>9. \A x \in S : \E i \in 1 .. n : s[i] = x
    BY <1>8 DEF Surjection
  <1> QED
    BY <1>3, <1>4, <1>9 DEF s
-----------------------------------------------------------------------------
\* What the caller does with an enumerate it can use.
LEMMA EnumerateStep == Inv /\ CallEnumerate => Inv' /\ ParentKept
  <1> SUFFICES ASSUME Inv, CallEnumerate PROVE Inv' /\ ParentKept
    OBVIOUS
  <1>1. PICK e \in Has({"enumerate"}) :
          \/ \E p \in SubsystemPatterns : udev_enumerate_add_match_subsystem(e, p)
          \/ \E p \in SysnamePatterns : udev_enumerate_add_match_sysname(e, p)
          \/ \E path \in Paths : udev_enumerate_add_syspath(e, path)
          \/ udev_enumerate_scan_subsystems(e)
          \/ udev_enumerate_scan_devices(e)
    BY DEF CallEnumerate
  <1>2. e \in Cells /\ obj[e].kind = "enumerate"
    BY DEF Has
  <1>3. UNCHANGED <<obj, held, pipes>>
    BY <1>1 DEF udev_enumerate_add_match_subsystem, udev_enumerate_add_match_sysname,
      udev_enumerate_add_syspath, udev_enumerate_scan_subsystems, udev_enumerate_scan_devices
  <1>4. HeapOK(obj, held)' /\ ParentKept
    BY <1>3, ObjectsSame DEF Inv
  <1>5. filter[e] \in Filter /\ filter \in [Cells -> Filter] /\ result \in [Cells -> Seq(Paths)]
        /\ \A x \in Cells :
             /\ Len(filter[x].subsystems) <= MaxMatches /\ Len(filter[x].sysnames) <= MaxMatches
             /\ obj[x].kind = "free" => filter[x] = NoFilter /\ result[x] = <<>>
        /\ pipes = {m \in Cells : obj[m].kind = "monitor"}
    BY <1>2 DEF Inv, ListsOK
  <1>6. ASSUME NEW p \in SubsystemPatterns, udev_enumerate_add_match_subsystem(e, p)
        PROVE ListsOK' /\ ScanOK'
    <2> DEFINE new == [filter[e] EXCEPT !.subsystems = Append(filter[e].subsystems, p)]
    <2>1. filter[e].subsystems \in Seq(SubsystemPatterns) /\ filter[e].sysnames \in Seq(SysnamePatterns)
      BY <1>5 DEF Filter
    <2>2. Append(filter[e].subsystems, p) \in Seq(SubsystemPatterns)
          /\ Len(Append(filter[e].subsystems, p)) = Len(filter[e].subsystems) + 1
          /\ Len(filter[e].subsystems) \in Nat /\ MaxMatches \in Nat
      BY <2>1, UdevAssumption
    <2>3. new \in Filter /\ Len(new.subsystems) <= MaxMatches /\ new.sysnames = filter[e].sysnames
      <3> DEFINE list == Append(filter[e].subsystems, p)
      <3>1. Len(list) <= MaxMatches
        BY <1>6, <2>2 DEF udev_enumerate_add_match_subsystem
      <3>2. \A q \in Seq(SubsystemPatterns), r \in Filter :
              LET n == [r EXCEPT !.subsystems = q] IN n \in Filter /\ n.subsystems = q /\ n.sysnames = r.sysnames
        BY DEF Filter
      <3> HIDE DEF list
      <3>3. list \in Seq(SubsystemPatterns) /\ new = [filter[e] EXCEPT !.subsystems = list]
        BY <2>2 DEF list
      <3> HIDE DEF new
      <3> QED
        BY <1>5, <3>1, <3>2, <3>3
    <2>4. filter' = [filter EXCEPT ![e] = new]
      BY <1>6 DEF udev_enumerate_add_match_subsystem
    <2> HIDE DEF new
    <2>5. ListsOK'
      BY <1>2, <1>3, <1>5, <1>6, <2>3, <2>4 DEF ListsOK, udev_enumerate_add_match_subsystem
    <2> QED
      BY <1>6, <2>5 DEF Inv, ScanOK, udev_enumerate_add_match_subsystem
  <1>7. ASSUME NEW p \in SysnamePatterns, udev_enumerate_add_match_sysname(e, p)
        PROVE ListsOK' /\ ScanOK'
    <2> DEFINE new == [filter[e] EXCEPT !.sysnames = Append(filter[e].sysnames, p)]
    <2>1. filter[e].subsystems \in Seq(SubsystemPatterns) /\ filter[e].sysnames \in Seq(SysnamePatterns)
      BY <1>5 DEF Filter
    <2>2. Append(filter[e].sysnames, p) \in Seq(SysnamePatterns)
          /\ Len(Append(filter[e].sysnames, p)) = Len(filter[e].sysnames) + 1
          /\ Len(filter[e].sysnames) \in Nat /\ MaxMatches \in Nat
      BY <2>1, UdevAssumption
    <2>3. new \in Filter /\ Len(new.sysnames) <= MaxMatches /\ new.subsystems = filter[e].subsystems
      <3> DEFINE list == Append(filter[e].sysnames, p)
      <3>1. Len(list) <= MaxMatches
        BY <1>7, <2>2 DEF udev_enumerate_add_match_sysname
      <3>2. \A q \in Seq(SysnamePatterns), r \in Filter :
              LET n == [r EXCEPT !.sysnames = q] IN n \in Filter /\ n.sysnames = q /\ n.subsystems = r.subsystems
        BY DEF Filter
      <3> HIDE DEF list
      <3>3. list \in Seq(SysnamePatterns) /\ new = [filter[e] EXCEPT !.sysnames = list]
        BY <2>2 DEF list
      <3> HIDE DEF new
      <3> QED
        BY <1>5, <3>1, <3>2, <3>3
    <2>4. filter' = [filter EXCEPT ![e] = new]
      BY <1>7 DEF udev_enumerate_add_match_sysname
    <2> HIDE DEF new
    <2>5. ListsOK'
      BY <1>2, <1>3, <1>5, <1>7, <2>3, <2>4 DEF ListsOK, udev_enumerate_add_match_sysname
    <2> QED
      BY <1>7, <2>5 DEF Inv, ScanOK, udev_enumerate_add_match_sysname
  <1>8. ASSUME NEW list \in Seq(Paths), filter' = filter, result' = [result EXCEPT ![e] = list]
        PROVE ListsOK'
    BY <1>2, <1>3, <1>5, <1>8 DEF ListsOK
  <1>9. ASSUME NEW path \in Paths, udev_enumerate_add_syspath(e, path) PROVE ListsOK' /\ ScanOK'
    <2>1. Append(result[e], path) \in Seq(Paths)
      BY <1>2, <1>5
    <2> QED
      BY <1>8, <1>9, <2>1 DEF udev_enumerate_add_syspath, Inv, ScanOK
  <1>10. CASE udev_enumerate_scan_subsystems(e)
    <2>1. ClassPaths \in Seq(Paths)
      BY DEF ClassPaths, Paths, ToSet
    <2> QED
      BY <1>4, <1>8, <1>10, <2>1 DEF udev_enumerate_scan_subsystems, Inv, ScanOK
  <1>11. CASE udev_enumerate_scan_devices(e)
    <2>1. ListsOK'
      <3>1. <<>> \in Seq(Paths)
        OBVIOUS
      <3> QED
        BY <1>8, <1>11, <3>1 DEF udev_enumerate_scan_devices
    <2>2. scan' = [enum |-> e, class |-> "drm", todo |-> <<>>, count |-> 0, read |-> FALSE]
      BY <1>11 DEF udev_enumerate_scan_devices, NoScan
    <2>3. ScanOK'
      <3>1. <<>> \in Seq(Nums) /\ 0 \in 0 .. MaxScan /\ "drm" \in Classes
        BY UdevAssumption DEF Classes
      <3>2. scan' \in [enum : Cells \union {None}, class : Classes, todo : Seq(Nums),
                       count : 0 .. MaxScan, read : BOOLEAN]
        BY <1>2, <2>2, <3>1
      <3>3. scan'.enum = e /\ obj' = obj /\ nodes' = nodes /\ steady' = nodes
        BY <1>3, <1>11, <2>2 DEF udev_enumerate_scan_devices
      <3> QED
        BY <1>2, <3>2, <3>3 DEF Inv, ScanOK
    <2> QED
      BY <1>4, <2>1, <2>3 DEF Inv
  <1> QED
    BY <1>1, <1>4, <1>6, <1>7, <1>9, <1>10, <1>11 DEF Inv
-----------------------------------------------------------------------------
LEMMA NumsFinite == IsFiniteSet(Nums) /\ Nums \subseteq Nat
  <1> DEFINE f == [node \in Nodes |-> node[2]]
  <1>1. f \in Surjection(Nodes, Nums)
    BY DEF Surjection, Nums
  <1>2. IsFiniteSet(Nodes) /\ Nums \subseteq Nat
    BY UdevAssumption DEF Nums
  <1> HIDE DEF f
  <1> QED
    BY <1>1, <1>2, FS_Surjection

\* What a directory gives: no more than the array holds, and when there is room
\* left in it, all that is wanted.
LEMMA ScannedIs ==
  ASSUME NEW e, NEW class, NEW S \in ScannedNums(e, class)
  PROVE  /\ S \subseteq Nums /\ IsFiniteSet(S) /\ Cardinality(S) \in 0 .. MaxScan
         /\ subsystem_wanted(e, class) /\ Cardinality(S) < MaxScan =>
              \A n \in Nums : <<class, n>> \in nodes /\ sysname_wanted(e, <<class, n>>) => n \in S
  <1> DEFINE found == {n \in Nums : <<class, n>> \in nodes /\ sysname_wanted(e, <<class, n>>)}
  <1>1. \/ S = {} /\ ~subsystem_wanted(e, class)
        \/ S = found /\ Cardinality(found) <= MaxScan
        \/ S \in SUBSET found /\ Cardinality(S) = MaxScan
    BY DEF ScannedNums
  <1>2. S \subseteq Nums
    BY <1>1
  <1>3. IsFiniteSet(S) /\ Cardinality(S) \in Nat /\ MaxScan \in Nat
    BY <1>2, NumsFinite, FS_Subset, FS_CardinalityType, UdevAssumption
  <1>4. Cardinality({}) = 0
    BY FS_EmptySet
  <1>5. Cardinality(S) <= MaxScan
    <2> HIDE DEF found
    <2> QED
      BY <1>1, <1>3, <1>4
  <1>6. subsystem_wanted(e, class) /\ Cardinality(S) < MaxScan => S = found
    <2> HIDE DEF found
    <2> QED
      BY <1>1, <1>3
  <1> QED
    BY <1>2, <1>3, <1>5, <1>6

LEMMA ScanStep == Inv /\ Scanning => Inv' /\ ParentKept
  <1> SUFFICES ASSUME Inv, Scanning PROVE Inv' /\ ParentKept
    OBVIOUS
  <1>1. UNCHANGED <<obj, held, filter, pipes, nodes>> /\ ~Idle
    BY DEF Scanning, ScanRead, ScanBuild, ScanNext
  <1>2. HeapOK(obj, held)' /\ ParentKept
    BY <1>1, ObjectsSame DEF Inv
  <1>3. /\ scan \in [enum : Cells \union {None}, class : Classes, todo : Seq(Nums),
                     count : 0 .. MaxScan, read : BOOLEAN]
        /\ scan.enum \in Cells /\ obj[scan.enum].kind = "enumerate"
        /\ nodes \subseteq Nodes /\ steady \subseteq nodes
    BY <1>1 DEF Inv, ScanOK, Idle
  <1>4. ASSUME NEW list \in Seq(Paths), result' = [result EXCEPT ![scan.enum] = list]
        PROVE ListsOK'
    BY <1>1, <1>3, <1>4 DEF Inv, ListsOK
  <1>5. result' = result => ListsOK'
    BY <1>1 DEF Inv, ListsOK
  <1>6. CASE ScanRead
    <2>1. PICK S \in ScannedNums(scan.enum, scan.class) :
            scan' = [scan EXCEPT !.todo = Ascending(S), !.count = Cardinality(S), !.read = TRUE]
      BY <1>6 DEF ScanRead
    <2>2. Cardinality(S) \in 0 .. MaxScan /\ S \subseteq Nums /\ IsFiniteSet(S) /\ S \subseteq Nat
      BY ScannedIs, NumsFinite
    <2>3. Ascending(S) \in Seq(Nums)
      <3>1. Ascending(S) \in Seq(S)
        BY <2>2, AscendingIs
      <3> QED
        BY <2>2, <3>1, SeqMonotonic
    <2>4. scan' \in [enum : Cells \union {None}, class : Classes, todo : Seq(Nums),
                     count : 0 .. MaxScan, read : BOOLEAN] /\ scan'.enum = scan.enum
      BY <1>3, <2>1, <2>2, <2>3
    <2> QED
      BY <1>1, <1>2, <1>3, <1>5, <1>6, <2>4 DEF ScanRead, Inv, ScanOK
  <1>7. CASE ScanBuild
    <2>1. scan.todo \in Seq(Nums) /\ scan.todo # <<>>
      BY <1>3, <1>7 DEF ScanBuild
    <2>2. Head(scan.todo) \in Nums /\ Tail(scan.todo) \in Seq(Nums)
      BY <2>1
    <2>3. Listed(scan.enum, KindOf(scan.class), Head(scan.todo)) \in Seq(Paths)
      <3>1. Syspath(KindOf(scan.class), Head(scan.todo)) \in Paths
        BY <2>2 DEF Paths, KindOf, Kinds
      <3>2. result[scan.enum] \in Seq(Paths)
        BY <1>3 DEF Inv, ListsOK
      <3> QED
        BY <3>1, <3>2 DEF Listed
    <2>4. ListsOK'
      BY <1>4, <1>7, <2>3 DEF ScanBuild
    <2>5. scan' \in [enum : Cells \union {None}, class : Classes, todo : Seq(Nums),
                     count : 0 .. MaxScan, read : BOOLEAN] /\ scan'.enum = scan.enum
      BY <1>3, <1>7, <2>2 DEF ScanBuild
    <2> QED
      BY <1>1, <1>2, <1>3, <1>7, <2>4, <2>5 DEF ScanBuild, Inv, ScanOK
  <1>8. CASE ScanNext
    <2>1. NoScan \in [enum : Cells \union {None}, class : Classes, todo : Seq(Nums),
                      count : 0 .. MaxScan, read : BOOLEAN] /\ NoScan.enum = None
      <3>1. <<>> \in Seq(Nums) /\ 0 \in 0 .. MaxScan /\ "drm" \in Classes
        BY UdevAssumption DEF Classes
      <3> QED
        BY <3>1 DEF NoScan
    <2>2. CASE scan.class = "drm"
      <3>1. scan' = [NoScan EXCEPT !.enum = scan.enum, !.class = "input"] /\ steady' = steady
        BY <1>8, <2>2 DEF ScanNext
      <3>2. "input" \in Classes
        BY DEF Classes
      <3>3. scan' \in [enum : Cells \union {None}, class : Classes, todo : Seq(Nums),
                       count : 0 .. MaxScan, read : BOOLEAN] /\ scan'.enum = scan.enum
        BY <1>3, <2>1, <3>1, <3>2
      <3> QED
        BY <1>1, <1>2, <1>3, <1>5, <1>8, <3>1, <3>3 DEF ScanNext, Inv, ScanOK
    <2>3. CASE scan.class # "drm"
      <3>1. scan' = NoScan /\ steady' = {}
        BY <1>8, <2>3 DEF ScanNext
      <3> QED
        BY <1>1, <1>2, <1>3, <1>5, <1>8, <2>1, <3>1 DEF ScanNext, Inv, ScanOK
    <2> QED
      BY <2>2, <2>3
  <1> QED
    BY <1>6, <1>7, <1>8 DEF Scanning

LEMMA KernelStep == Inv /\ Kernel => Inv' /\ ParentKept
  <1> SUFFICES ASSUME Inv, Kernel PROVE Inv' /\ ParentKept
    OBVIOUS
  <1>1. UNCHANGED <<obj, held, filter, result, pipes, scan>>
    BY DEF Kernel, NodeAppears, NodeGoes, heap
  <1>2. HeapOK(obj, held)' /\ ParentKept
    BY <1>1, ObjectsSame DEF Inv
  <1>3. nodes' \subseteq Nodes /\ steady' \subseteq nodes'
    BY DEF Kernel, NodeAppears, NodeGoes, Inv, ScanOK
  <1> QED
    BY <1>1, <1>2, <1>3 DEF Inv, ListsOK, ScanOK

LEMMA InitOK == Init => Inv
  <1> SUFFICES ASSUME Init PROVE Inv
    OBVIOUS
  <1> USE DEF Init
  <1>1. Free \in Object /\ Free.kind = "free" /\ Free.refs = 0 /\ Free.udev = None /\ Free.parent = None
    BY DEF Free, Object
  <1>2. \A x \in Cells : Children(obj, x) = {} /\ Users(obj, x) = {}
    BY <1>1, UdevAssumption DEF Children, Users
  <1>3. \A x \in Cells : References(obj, held, x) = 0
    <2> SUFFICES ASSUME NEW x \in Cells PROVE References(obj, held, x) = 0
      OBVIOUS
    <2>1. Cardinality(Children(obj, x)) = 0 /\ Cardinality(Users(obj, x)) = 0 /\ held[x] = 0
      BY <1>2, FS_EmptySet
    <2> QED
      BY <2>1 DEF References
  <1>4. \A x \in Cells : Counted(obj, held, x)
    BY <1>1, <1>3 DEF Counted
  <1>5. \A x \in Cells : Linked(obj, x)
    BY <1>1 DEF Linked, Owned, Kinds
  <1>6. HeapOK(obj, held)
    BY <1>1, <1>4, <1>5, UdevAssumption DEF HeapOK
  <1>7. NoFilter \in Filter /\ Len(NoFilter.subsystems) = 0 /\ Len(NoFilter.sysnames) = 0
        /\ <<>> \in Seq(Paths) /\ MaxMatches \in Nat
    BY UdevAssumption DEF NoFilter, Filter
  <1>8. ListsOK
    BY <1>1, <1>7 DEF ListsOK
  <1>9. NoScan \in [enum : Cells \union {None}, class : Classes, todo : Seq(Nums),
                    count : 0 .. MaxScan, read : BOOLEAN] /\ NoScan.enum = None
    <2>1. <<>> \in Seq(Nums) /\ 0 \in 0 .. MaxScan /\ "drm" \in Classes
      BY UdevAssumption DEF Classes
    <2> QED
      BY <2>1 DEF NoScan
  <1>10. ScanOK
    BY <1>9 DEF ScanOK
  <1> QED
    BY <1>6, <1>8, <1>10 DEF Inv

LEMMA StepOK == Inv /\ [Next]_vars => Inv' /\ ParentKept
  <1> SUFFICES ASSUME Inv, [Next]_vars PROVE Inv' /\ ParentKept
    OBVIOUS
  <1>1. CASE UNCHANGED vars
    <2>1. UNCHANGED <<obj, held, filter, result, pipes, scan, nodes, steady>>
      BY <1>1 DEF vars
    <2>2. HeapOK(obj, held)' /\ ParentKept
      BY <2>1, ObjectsSame DEF Inv
    <2> QED
      BY <2>1, <2>2 DEF Inv, ListsOK, ScanOK
  <1> QED
    BY <1>1, ContextStep, AnyStep, DeviceStep, EnumerateStep, ScanStep, KernelStep DEF Next

\* The whole of the invariant, and the action property with it.
LEMMA InvHolds == Spec => [](Inv) /\ [][ParentKept]_vars
  <1>1. Init => Inv
    BY InitOK
  <1>2. Inv /\ [Next]_vars => Inv'
    BY StepOK
  <1>3. Inv /\ [Next]_vars => ParentKept
    BY StepOK
  <1> QED
    BY <1>1, <1>2, <1>3, PTL DEF Spec

\* The heap, the lists of the enumerates, the monitors' pipes and the scan are
\* what the library takes them for, in any memory and with any device nodes.
THEOREM TypeCorrect == Spec => []TypeOK
  <1>1. Inv => TypeOK
    <2> SUFFICES ASSUME Inv PROVE TypeOK
      OBVIOUS
    <2>1. Owned \union {"free", "udev"} = Kinds \union {"free", "udev", "enumerate", "monitor"}
      BY DEF Owned
    <2>2. obj \in [Cells -> [kind : Kinds \union {"free", "udev", "enumerate", "monitor"},
                             refs : Nat, udev : Cells \union {None}, num : Nums \union {0},
                             parent : Cells \union {None}, parent_done : BOOLEAN]]
      BY <2>1 DEF Inv, HeapOK, Object
    <2> QED
      BY <2>2 DEF Inv, HeapOK, ListsOK, ScanOK, TypeOK
  <1> QED
    BY <1>1, InvHolds, PTL

\* The count of every object is the number of references there are to it: the
\* caller's, its children's and its users' (libudev.c: the refs of each struct).
THEOREM CountsAreExact == Spec => []RefsExact
  <1>1. Inv => RefsExact
    BY CellType DEF Inv, RefsExact, Counted, References, Children, Users
  <1> QED
    BY <1>1, InvHolds, PTL

\* Nothing the caller holds or borrows is ever freed.
THEOREM NoUseAfterFree == Spec => []InUseIsLive
  <1>1. Inv => InUseIsLive
    BY UsableIsLive DEF Inv, InUseIsLive
  <1> QED
    BY <1>1, InvHolds, PTL

\* Without references of the caller's there are none at all: first the objects
\* nobody points to go, then the parents, then the contexts.
LEMMA NothingKept ==
  ASSUME Inv, \A c \in Cells : held[c] = 0
  PROVE  \A c \in Cells : obj[c].kind = "free"
  <1>1. HeapOK(obj, held)
    BY DEF Inv
  <1>2. \A x \in Cells : Linked(obj, x) /\ obj[x] \in Object
    BY <1>1, CellType
  <1>3. ASSUME NEW x \in Cells, Children(obj, x) = {}, Users(obj, x) = {}
        PROVE obj[x].kind = "free"
    <2>1. Cardinality(Children(obj, x)) = 0 /\ Cardinality(Users(obj, x)) = 0
      BY <1>3, NoneInIt DEF Children, Users
    <2>2. References(obj, held, x) = 0
      BY <2>1 DEF References
    <2> QED
      BY <1>1, <2>2, CellType DEF Counted
  <1>4. \A x \in Cells : obj[x].kind # "udev" => Users(obj, x) = {}
    <2>1. \A x, y \in Cells : obj[y].udev = x => obj[x].kind = "udev"
      <3> SUFFICES ASSUME NEW x \in Cells, NEW y \in Cells, obj[y].udev = x
                   PROVE  obj[x].kind = "udev"
        OBVIOUS
      <3>1. obj[y].kind # "free"
        BY <1>1, CellType, UdevAssumption DEF Counted, Free
      <3>2. obj[y].kind \in Owned \/ obj[y].kind = "udev"
        BY <1>2, <3>1 DEF Object
      <3> QED
        BY <1>2, <3>2, UdevAssumption DEF Linked
    <2> QED
      BY <2>1 DEF Users
  <1>5. \A x, y \in Cells : obj[y].parent = x =>
          obj[x].kind \in {"pci", "input"} /\ obj[y].kind \in {"drm", "event"}
    BY <1>2, UdevAssumption DEF Linked
  <1>6. \A x \in Cells : obj[x].kind \notin {"pci", "input", "udev"} => obj[x].kind = "free"
    BY <1>3, <1>4, <1>5 DEF Children
  <1>7. \A x \in Cells : obj[x].kind # "udev" => obj[x].kind = "free"
    BY <1>3, <1>4, <1>5, <1>6 DEF Children
  <1>8. ASSUME NEW x \in Cells, obj[x].kind = "udev" PROVE FALSE
    <2>1. Children(obj, x) = {}
      BY <1>5, <1>8 DEF Children
    <2>2. \A y \in Cells : obj[y].udev # x
      <3> SUFFICES ASSUME NEW y \in Cells, obj[y].udev = x PROVE FALSE
        OBVIOUS
      <3>1. obj[y].kind = "udev" \/ obj[y] = Free
        BY <1>1, <1>7, CellType DEF Counted
      <3> QED
        BY <1>2, <3>1, UdevAssumption DEF Linked, Free
    <2> QED
      BY <1>3, <1>8, <2>1, <2>2 DEF Users
  <1> QED
    BY <1>7, <1>8

\* When the caller has let go of everything, every cell is free again and every
\* pipe closed.
THEOREM NoLeak == Spec => []NothingLeft
  <1>1. Inv => NothingLeft
    <2> SUFFICES ASSUME Inv, \A c \in Cells : held[c] = 0
                 PROVE  /\ \A c \in Cells : obj[c] = Free /\ filter[c] = NoFilter /\ result[c] = <<>>
                        /\ pipes = {}
      BY DEF NothingLeft
    <2>1. \A c \in Cells : obj[c].kind = "free"
      BY NothingKept
    <2>2. \A c \in Cells : obj[c] = Free
      BY <2>1, CellType DEF Inv, Counted
    <2> QED
      BY <2>1, <2>2 DEF Inv, ListsOK
  <1> QED
    BY <1>1, InvHolds, PTL

\* The parent of a device is the one the kernel would give.
THEOREM ParentsAreRight == Spec => []ParentRight
  <1>1. Inv => ParentRight
    BY CellType DEF Inv, ParentRight, Linked
  <1> QED
    BY <1>1, InvHolds, PTL

\* A parent once given stays the parent as long as the device lives.
THEOREM ParentsStay == Spec => ParentStays
  <1>1. Spec => [][ParentKept]_vars
    BY InvHolds, PTL
  <1> QED
    BY <1>1 DEF ParentStays, ParentKept
-----------------------------------------------------------------------------
\* Paths in order.
LEMMA InOneClass ==
  ASSUME NEW kind \in {"drm", "event"}, NEW a \in Nums, NEW b \in Nums, a < b
  PROVE  Before(Syspath(kind, a), Syspath(kind, b))
  BY PathFound DEF Before, Kinds

LEMMA CardFirst ==
  ASSUME NEW a \in Nums, NEW b \in Nums
  PROVE  Before(Syspath("drm", a), Syspath("event", b))
  BY PathFound DEF Before, Kinds

LEMMA ComingIs ==
  ASSUME NEW todo \in Seq(Nums), NEW class \in Classes
  PROVE  LET c == [i \in DOMAIN todo |-> Syspath(KindOf(class), todo[i])] IN
         /\ c \in Seq(Paths) /\ Len(c) = Len(todo)
         /\ \A i \in 1 .. Len(todo) : todo[i] \in Nums /\ c[i] = Syspath(KindOf(class), todo[i])
         /\ KindOf(class) \in {"drm", "event"}
  <1>1. KindOf(class) \in {"drm", "event"}
    BY DEF KindOf
  <1>2. \A n \in Nums : Syspath(KindOf(class), n) \in Paths
    BY <1>1 DEF Paths, Kinds
  <1> QED
    BY <1>1, <1>2

LEMMA SortedTogether ==
  ASSUME NEW s \in Seq(Paths), NEW t \in Seq(Paths), Sorted(s), Sorted(t),
         \A i \in DOMAIN s, j \in DOMAIN t : Before(s[i], t[j])
  PROVE  Sorted(s \o t)
  <1> SUFFICES ASSUME NEW i \in DOMAIN (s \o t), NEW j \in DOMAIN (s \o t), i < j
               PROVE  Before((s \o t)[i], (s \o t)[j])
    BY DEF Sorted
  <1>1. /\ Len(s) \in Nat /\ Len(t) \in Nat /\ DOMAIN s = 1 .. Len(s) /\ DOMAIN t = 1 .. Len(t)
        /\ i \in 1 .. Len(s) + Len(t) /\ j \in 1 .. Len(s) + Len(t)
    OBVIOUS
  <1>2. \A n \in 1 .. Len(s) + Len(t) :
          (s \o t)[n] = IF n <= Len(s) THEN s[n] ELSE t[n - Len(s)]
    OBVIOUS
  <1>3. CASE j <= Len(s)
    BY <1>1, <1>2, <1>3 DEF Sorted
  <1>4. CASE i > Len(s)
    <2>1. i - Len(s) \in DOMAIN t /\ j - Len(s) \in DOMAIN t /\ i - Len(s) < j - Len(s)
      BY <1>1, <1>4
    <2>2. (s \o t)[i] = t[i - Len(s)] /\ (s \o t)[j] = t[j - Len(s)]
      BY <1>1, <1>2, <1>4
    <2> QED
      BY <2>1, <2>2 DEF Sorted
  <1>5. CASE i <= Len(s) /\ j > Len(s)
    <2>1. i \in DOMAIN s /\ j - Len(s) \in DOMAIN t
      BY <1>1, <1>5
    <2>2. (s \o t)[i] = s[i] /\ (s \o t)[j] = t[j - Len(s)]
      BY <1>1, <1>2, <1>5
    <2> QED
      BY <2>1, <2>2
  <1> QED
    BY <1>1, <1>3, <1>4, <1>5

\* The numbers of a class are listed after what the scan has already.
LEMMA ReadKeeps ==
  ASSUME Inv, ScanInv, ScanRead
  PROVE  ScanInv'
  <1> DEFINE e == scan.enum
  <1>1. PICK S \in ScannedNums(scan.enum, scan.class) :
          scan' = [scan EXCEPT !.todo = Ascending(S), !.count = Cardinality(S), !.read = TRUE]
    BY DEF ScanRead
  <1>2. /\ S \subseteq Nums /\ IsFiniteSet(S) /\ S \subseteq Nat
        /\ subsystem_wanted(e, scan.class) /\ Cardinality(S) < MaxScan =>
             \A n \in Nums : <<scan.class, n>> \in nodes /\ sysname_wanted(e, <<scan.class, n>>) => n \in S
    BY ScannedIs, NumsFinite
  <1>3. /\ scan'.enum = e /\ scan'.class = scan.class /\ scan'.todo = Ascending(S)
        /\ scan'.count = Cardinality(S) /\ scan'.read
    BY <1>1 DEF Inv, ScanOK
  <1>4. /\ UNCHANGED <<obj, held, filter, result, pipes, nodes, steady>>
        /\ ~scan.read /\ e # None /\ scan.class \in Classes /\ e \in Cells
    BY DEF ScanRead, Idle, Inv, ScanOK
  <1>5. Inv' /\ result[e] \in Seq(Paths) /\ result'[e] = result[e]
    BY <1>4, ScanStep DEF Scanning, Inv, ListsOK
  <1>6. /\ Coming' \in Seq(Paths) /\ Len(Coming') = Len(scan'.todo)
        /\ \A i \in 1 .. Len(scan'.todo) :
             /\ scan'.todo[i] \in Nums
             /\ Coming'[i] = Syspath(KindOf(scan.class), scan'.todo[i])
        /\ KindOf(scan.class) \in {"drm", "event"}
    <2>1. scan'.todo \in Seq(Nums) /\ scan'.class \in Classes
      BY <1>5 DEF Inv, ScanOK
    <2> QED
      BY <1>3, <2>1, ComingIs DEF Coming
  <1>7. InOrder(scan'.todo) /\ \A x \in S : \E i \in DOMAIN scan'.todo : scan'.todo[i] = x
    <2>1. /\ InOrder(Ascending(S))
          /\ \A x \in S : \E i \in DOMAIN Ascending(S) : Ascending(S)[i] = x
      BY <1>2, AscendingIs
    <2> QED
      BY <1>3, <2>1
  <1>8. Sorted(Coming')
    <2> SUFFICES ASSUME NEW i \in DOMAIN Coming', NEW j \in DOMAIN Coming', i < j
                 PROVE  Before(Coming'[i], Coming'[j])
      BY DEF Sorted
    <2>1. i \in 1 .. Len(scan'.todo) /\ j \in 1 .. Len(scan'.todo) /\ DOMAIN scan'.todo = 1 .. Len(scan'.todo)
      BY <1>6, <1>5 DEF Inv, ScanOK
    <2>2. scan'.todo[i] < scan'.todo[j]
      BY <1>7, <2>1 DEF InOrder
    <2> QED
      BY <1>6, <2>1, <2>2, InOneClass
  <1>9. Sorted(result[e]) /\ Cards(result[e]) /\ (scan.class = "drm" => result[e] = <<>>)
    <2>1. scan.todo = <<>>
      BY <1>4 DEF ScanInv
    <2>2. Coming = <<>>
      BY <2>1 DEF Coming
    <2>3. Listing = result[e]
      BY <1>5, <2>2 DEF Listing
    <2> QED
      BY <1>4, <2>3 DEF ScanInv
  <1>10. \A i \in DOMAIN result[e], j \in DOMAIN Coming' : Before(result[e][i], Coming'[j])
    <2> SUFFICES ASSUME NEW i \in DOMAIN result[e], NEW j \in DOMAIN Coming'
                 PROVE  Before(result[e][i], Coming'[j])
      OBVIOUS
    <2>1. scan.class = "input"
      BY <1>4, <1>9 DEF Classes
    <2>2. PICK n \in Nums : result[e][i] = Syspath("drm", n)
      BY <1>9 DEF Cards
    <2>3. j \in 1 .. Len(scan'.todo)
      BY <1>6
    <2> QED
      BY <1>6, <2>1, <2>2, <2>3, CardFirst DEF KindOf
  <1>11. Sorted(Listing')
    <2>1. Listing' = result[e] \o Coming'
      BY <1>3, <1>5 DEF Listing
    <2> QED
      BY <1>5, <1>6, <1>8, <1>9, <1>10, <2>1, SortedTogether
  <1>12. NothingMissed'
    <2> SUFFICES ASSUME NEW n \in Nums, (scan.count < MaxScan)', (<<scan.class, n>> \in steady)',
                        subsystem_wanted(scan.enum, scan.class)',
                        sysname_wanted(scan.enum, <<scan.class, n>>)'
                 PROVE  (n \in ToSet(scan.todo))'
      BY DEF NothingMissed
    <2>1. /\ subsystem_wanted(scan.enum, scan.class)' <=> subsystem_wanted(e, scan.class)
          /\ sysname_wanted(scan.enum, <<scan.class, n>>)' <=> sysname_wanted(e, <<scan.class, n>>)
      BY <1>3, <1>4 DEF subsystem_wanted, sysname_wanted
    <2>2. <<scan.class, n>> \in nodes
      BY <1>3, <1>4 DEF Inv, ScanOK
    <2>3. n \in S
      BY <1>2, <1>3, <2>1, <2>2
    <2> QED
      BY <1>7, <2>3 DEF ToSet
  <1>13. scan'.class = "drm" \/ ~scan'.read => Cards(result'[scan'.enum])
    BY <1>3, <1>5, <1>9
  <1> QED
    BY <1>3, <1>11, <1>12, <1>13 DEF ScanInv

\* The first of the paths to come moves to the end of the list.
LEMMA FirstMoved ==
  ASSUME NEW s \in Seq(Paths), NEW p \in Paths, NEW t \in Seq(Paths), NEW u \in Seq(Paths),
         Len(t) = Len(u) + 1, t[1] = p, \A i \in 1 .. Len(u) : u[i] = t[i + 1]
  PROVE  Append(s, p) \o u = s \o t
  <1>1. <<p>> \o u \in Seq(Paths) /\ Len(<<p>> \o u) = Len(t)
    OBVIOUS
  <1>2. \A i \in 1 .. Len(t) : (<<p>> \o u)[i] = t[i]
    <2> SUFFICES ASSUME NEW i \in 1 .. Len(t) PROVE (<<p>> \o u)[i] = t[i]
      OBVIOUS
    <2>1. CASE i = 1
      BY <2>1
    <2>2. CASE i # 1
      <3>1. i - 1 \in 1 .. Len(u) /\ (i - 1) + 1 = i /\ Len(u) \in Nat
        BY <2>2
      <3>2. (<<p>> \o u)[i] = u[i - 1]
        BY <2>2, <3>1
      <3> QED
        BY <3>1, <3>2
    <2> QED
      BY <2>1, <2>2
  <1>3. t = <<p>> \o u
    BY <1>1, <1>2, SeqEqual
  <1>4. Append(s, p) = s \o <<p>>
    BY AppendIsConcat
  <1>5. (s \o <<p>>) \o u = s \o (<<p>> \o u)
    BY ConcatAssociative
  <1> QED
    BY <1>3, <1>4, <1>5

LEMMA Placed ==
  ASSUME NEW s \in Seq(Paths), NEW t \in Seq(Paths)
  PROVE  /\ Len(s) \in Nat /\ Len(t) \in Nat /\ s \o t \in Seq(Paths)
         /\ DOMAIN (s \o t) = 1 .. Len(s) + Len(t)
         /\ \A i \in 1 .. Len(s) + Len(t) :
              (s \o t)[i] = IF i <= Len(s) THEN s[i] ELSE t[i - Len(s)]
  BY ConcatProperties

\* The first of the paths to come is left out.
LEMMA FirstLeftOut ==
  ASSUME NEW s \in Seq(Paths), NEW t \in Seq(Paths), NEW u \in Seq(Paths),
         Len(t) = Len(u) + 1, \A i \in 1 .. Len(u) : u[i] = t[i + 1], Sorted(s \o t)
  PROVE  Sorted(s \o u)
  <1> DEFINE n == Len(s)
             a == s \o u
             b == s \o t
             At(i) == IF i <= n THEN i ELSE i + 1
  <1>1. /\ n \in Nat /\ Len(u) \in Nat /\ Len(t) = Len(u) + 1
        /\ DOMAIN a = 1 .. n + Len(u)
        /\ \A i \in 1 .. n + Len(u) : a[i] = IF i <= n THEN s[i] ELSE u[i - n]
    BY Placed
  <1>2. /\ Len(t) \in Nat /\ DOMAIN b = 1 .. n + Len(t)
        /\ \A i \in 1 .. n + Len(t) : b[i] = IF i <= n THEN s[i] ELSE t[i - n]
    BY Placed
  <1> HIDE DEF n, a, b
  <1>4. ASSUME NEW i \in 1 .. n + Len(u)
        PROVE At(i) \in 1 .. n + Len(t) /\ a[i] = b[At(i)]
    <2>1. CASE i <= n
      <3>1. i \in 1 .. n + Len(t)
        BY <1>1
      <3> QED
        BY <1>1, <1>2, <2>1, <3>1
    <2>2. CASE i > n
      <3>1. /\ i - n \in 1 .. Len(u) /\ (i - n) + 1 = (i + 1) - n /\ i + 1 \in 1 .. n + Len(t)
            /\ ~(i <= n) /\ ~(i + 1 <= n)
        BY <1>1, <2>2
      <3>2. a[i] = u[i - n]
        BY <1>1, <3>1
      <3>3. u[i - n] = t[(i - n) + 1]
        BY <3>1
      <3>4. b[i + 1] = t[(i + 1) - n]
        BY <1>2, <3>1
      <3> QED
        BY <3>1, <3>2, <3>3, <3>4
    <2> QED
      BY <1>1, <2>1, <2>2
  <1>5. \A i, j \in 1 .. n + Len(u) : i < j => At(i) < At(j)
    BY <1>1
  <1> HIDE DEF At
  <1>6. ASSUME NEW i \in 1 .. n + Len(u), NEW j \in 1 .. n + Len(u), i < j
        PROVE  Before(a[i], a[j])
    <2>1. Before(b[At(i)], b[At(j)])
      <3>1. Sorted(b)
        BY DEF b
      <3> QED
        BY <1>2, <1>4, <1>5, <1>6, <3>1 DEF Sorted
    <2> QED
      BY <1>4, <2>1
  <1>7. Sorted(a)
    BY <1>1, <1>6 DEF Sorted
  <1> QED
    BY <1>7 DEF a

\* One device of the list is tried: it is where it was, or left out.
LEMMA BuildKeeps ==
  ASSUME Inv, ScanInv, ScanBuild
  PROVE  ScanInv'
  <1> DEFINE e == scan.enum
             kind == KindOf(scan.class)
             h == Head(scan.todo)
             Made1 == \E b \in device_build(obj, obj[e].udev, kind, h) : b[2] # None
  <1>1. /\ UNCHANGED <<obj, held, filter, pipes, nodes, steady>>
        /\ e # None /\ e \in Cells /\ scan.read /\ scan.todo # <<>>
        /\ scan' = [scan EXCEPT !.todo = Tail(scan.todo)]
        /\ scan.todo \in Seq(Nums) /\ scan.class \in Classes
    BY DEF ScanBuild, Idle, Inv, ScanOK
  <1>2. /\ scan'.enum = e /\ scan'.class = scan.class /\ scan'.todo = Tail(scan.todo)
        /\ scan'.count = scan.count /\ scan'.read
    BY <1>1 DEF Inv, ScanOK
  <1>3. result[e] \in Seq(Paths)
        /\ result'[e] = IF Made1 THEN Append(result[e], Syspath(kind, h)) ELSE result[e]
    BY <1>1 DEF ScanBuild, Listed, Inv, ListsOK
  <1>4. /\ Tail(scan.todo) \in Seq(Nums) /\ h \in Nums
        /\ Len(scan.todo) \in Nat \ {0} /\ Len(Tail(scan.todo)) = Len(scan.todo) - 1
        /\ scan.todo[1] = h
        /\ \A i \in 1 .. Len(scan.todo) - 1 : Tail(scan.todo)[i] = scan.todo[i + 1]
    BY <1>1
  <1>5. /\ Coming \in Seq(Paths) /\ Len(Coming) = Len(scan.todo)
        /\ \A i \in 1 .. Len(scan.todo) : Coming[i] = Syspath(kind, scan.todo[i])
        /\ kind \in {"drm", "event"}
    BY <1>1, ComingIs DEF Coming
  <1>6. /\ Coming' \in Seq(Paths) /\ Len(Coming') = Len(scan.todo) - 1
        /\ \A i \in 1 .. Len(scan.todo) - 1 : Coming'[i] = Syspath(kind, scan.todo[i + 1])
    <2>1. Coming' = [i \in DOMAIN Tail(scan.todo) |-> Syspath(kind, Tail(scan.todo)[i])]
      BY <1>2 DEF Coming
    <2>2. /\ Coming' \in Seq(Paths) /\ Len(Coming') = Len(Tail(scan.todo))
          /\ \A i \in 1 .. Len(Tail(scan.todo)) : Coming'[i] = Syspath(kind, Tail(scan.todo)[i])
      BY <1>1, <1>4, <2>1, ComingIs
    <2> QED
      BY <1>4, <2>2
  <1>7. Syspath(kind, h) \in Paths
    BY <1>4, <1>5 DEF Paths, Kinds
  <1>8. Listing' = result'[e] \o Coming' /\ Listing = result[e] \o Coming
    BY <1>2 DEF Listing
  <1> HIDE DEF kind, h, Made1
  <1>9. Sorted(result[e] \o Coming)
    BY <1>1, <1>8 DEF ScanInv
  <1>10. ASSUME Made1 PROVE Sorted(Listing')
    <2>1. Append(result[e], Syspath(kind, h)) \o Coming' = result[e] \o Coming
      <3>1. Len(Coming) = Len(Coming') + 1 /\ Coming[1] = Syspath(kind, h)
        BY <1>4, <1>5, <1>6
      <3>2. \A i \in 1 .. Len(Coming') : Coming'[i] = Coming[i + 1]
        BY <1>4, <1>5, <1>6
      <3>3. result[e] \in Seq(Paths) /\ Coming \in Seq(Paths) /\ Coming' \in Seq(Paths)
        BY <1>3, <1>5, <1>6
      <3> DEFINE t == Coming
                 r == Coming'
                 s == result[e]
                 q == Syspath(kind, h)
      <3>4. s \in Seq(Paths) /\ q \in Paths /\ t \in Seq(Paths) /\ r \in Seq(Paths)
        BY <1>7, <3>3
      <3>5. Len(t) = Len(r) + 1 /\ t[1] = q /\ \A i \in 1 .. Len(r) : r[i] = t[i + 1]
        BY <3>1, <3>2
      <3> HIDE DEF t, r, s, q
      <3>6. Append(s, q) \o r = s \o t
        BY <3>4, <3>5, FirstMoved
      <3> QED
        BY <3>6 DEF t, r, s, q
    <2>2. result'[e] = Append(result[e], Syspath(kind, h))
      BY <1>3, <1>10
    <2> QED
      BY <1>8, <1>9, <2>1, <2>2
  <1>11. ASSUME ~Made1 PROVE Sorted(Listing')
    <2>1. Len(Coming) = Len(Coming') + 1 /\ \A i \in 1 .. Len(Coming') : Coming'[i] = Coming[i + 1]
      BY <1>4, <1>5, <1>6
    <2>2. result'[e] = result[e]
      BY <1>3, <1>11
    <2> QED
      BY <1>3, <1>5, <1>6, <1>8, <1>9, <2>1, <2>2, FirstLeftOut
  <1>12. Sorted(Listing')
    BY <1>10, <1>11
  <1>13. NothingMissed'
    <2> SUFFICES ASSUME NEW k \in Nums, (scan.count < MaxScan)', Room(obj)' # {},
                        (<<scan.class, k>> \in steady)',
                        subsystem_wanted(scan.enum, scan.class)',
                        sysname_wanted(scan.enum, <<scan.class, k>>)'
                 PROVE  \/ (k \in ToSet(scan.todo))'
                        \/ (Syspath(KindOf(scan.class), k) \in ToSet(result[scan.enum]))'
      BY DEF NothingMissed
    <2>1. /\ subsystem_wanted(scan.enum, scan.class)' <=> subsystem_wanted(e, scan.class)
          /\ sysname_wanted(scan.enum, <<scan.class, k>>)' <=> sysname_wanted(e, <<scan.class, k>>)
      BY <1>1, <1>2 DEF subsystem_wanted, sysname_wanted
    <2>2. Room(obj) # {} /\ <<scan.class, k>> \in steady
      BY <1>1, <1>2 DEF Room
    <2>3. NothingMissed
      BY <1>1 DEF ScanInv
    <2>4. k \in ToSet(scan.todo) \/ Syspath(kind, k) \in ToSet(result[e])
      BY <1>1, <1>2, <2>1, <2>2, <2>3 DEF NothingMissed, kind
    <2>5. CASE Syspath(kind, k) \in ToSet(result[e])
      <3>1. Syspath(kind, k) \in ToSet(result'[e])
        BY <1>3, <1>7, <2>5 DEF ToSet
      <3> QED
        BY <1>2, <3>1 DEF kind
    <2>6. CASE k \in ToSet(scan.todo) /\ k = h
      <3>1. NodeOf(kind, h) = <<scan.class, k>>
        BY <1>1, <2>6 DEF NodeOf, kind, KindOf, Classes
      <3>2. NodeOf(kind, h) \in nodes
        BY <2>2, <3>1 DEF Inv, ScanOK
      <3>3. PICK c \in Room(obj) : TRUE
        BY <2>2
      <3>4. c # None /\ <<Made(obj, c, obj[e].udev, kind, h), c>> \in device_build(obj, obj[e].udev, kind, h)
        BY <3>2, <3>3, UdevAssumption DEF device_build, Room
      <3>5. Made1
        BY <3>4 DEF Made1
      <3>6. result'[e] = Append(result[e], Syspath(kind, k))
        BY <1>3, <2>6, <3>5
      <3>7. Syspath(kind, k) \in ToSet(result'[e])
        <4>1. Syspath(kind, k) \in Paths
          BY <1>7, <2>6
        <4>2. \A q \in Seq(Paths), p \in Paths :
                Len(q) + 1 \in DOMAIN Append(q, p) /\ Append(q, p)[Len(q) + 1] = p
          OBVIOUS
        <4>3. \E i \in DOMAIN Append(result[e], Syspath(kind, k)) :
                Append(result[e], Syspath(kind, k))[i] = Syspath(kind, k)
          BY <1>3, <4>1, <4>2
        <4> QED
          BY <3>6, <4>3 DEF ToSet
      <3> QED
        BY <1>2, <3>7 DEF kind
    <2>7. CASE k \in ToSet(scan.todo) /\ k # h
      <3>1. DOMAIN scan.todo = 1 .. Len(scan.todo)
        BY <1>1
      <3>2. PICK i \in 1 .. Len(scan.todo) : scan.todo[i] = k
        BY <2>7, <3>1 DEF ToSet
      <3>3. i - 1 \in 1 .. Len(scan.todo) - 1 /\ (i - 1) + 1 = i
        BY <1>4, <2>7, <3>2
      <3>4. Tail(scan.todo)[i - 1] = k /\ i - 1 \in DOMAIN Tail(scan.todo)
        BY <1>4, <3>2, <3>3
      <3> QED
        BY <1>2, <3>4 DEF ToSet
    <2> QED
      BY <2>4, <2>5, <2>6, <2>7
  <1>14. scan'.class = "drm" => Cards(result'[scan'.enum])
    <2> SUFFICES ASSUME scan.class = "drm" PROVE Cards(result'[e])
      BY <1>2
    <2>1. Cards(result[e]) /\ kind = "drm"
      BY <1>1 DEF ScanInv, kind, KindOf
    <2> QED
      BY <1>3, <1>4, <1>7, <2>1 DEF Cards
  <1> QED
    BY <1>2, <1>12, <1>13, <1>14 DEF ScanInv

\* The cards are done, and the events come after them; or the scan is over.
LEMMA NextKeeps ==
  ASSUME Inv, ScanInv, ScanNext
  PROVE  ScanInv'
  <1>1. /\ UNCHANGED <<obj, held, filter, result, pipes, nodes>>
        /\ scan.enum # None /\ scan.enum \in Cells /\ scan.read /\ scan.todo = <<>>
    BY DEF ScanNext, Idle, Inv, ScanOK
  <1>2. CASE scan.class = "drm"
    <2>1. scan' = [NoScan EXCEPT !.enum = scan.enum, !.class = "input"]
      BY <1>2 DEF ScanNext
    <2>2. /\ scan'.enum = scan.enum /\ scan'.class = "input" /\ scan'.todo = <<>>
          /\ ~scan'.read
      BY <2>1 DEF NoScan
    <2>3. Coming' = <<>> /\ Coming = <<>>
      BY <1>1, <2>2 DEF Coming
    <2>4. result'[scan'.enum] = result[scan.enum] /\ result[scan.enum] \in Seq(Paths)
      BY <1>1, <2>2 DEF Inv, ListsOK
    <2>5. Listing' = Listing
      BY <2>3, <2>4 DEF Listing
    <2>6. Sorted(Listing') /\ Cards(result'[scan'.enum])
      BY <1>1, <1>2, <2>4, <2>5 DEF ScanInv
    <2>7. NothingMissed'
      BY <2>2 DEF NothingMissed
    <2> QED
      BY <2>2, <2>6, <2>7 DEF ScanInv
  <1>3. CASE scan.class # "drm"
    <2>1. scan'.enum = None
      BY <1>3 DEF ScanNext, NoScan
    <2> QED
      BY <2>1 DEF ScanInv
  <1> QED
    BY <1>2, <1>3

\* A scan starts with an empty list.
LEMMA StartKeeps ==
  ASSUME Inv, NEW e \in Cells, udev_enumerate_scan_devices(e)
  PROVE  ScanInv'
  <1>1. /\ scan' = [NoScan EXCEPT !.enum = e] /\ result' = [result EXCEPT ![e] = <<>>]
        /\ result \in [Cells -> Seq(Paths)]
    BY DEF udev_enumerate_scan_devices, Inv, ListsOK
  <1>2. /\ scan'.enum = e /\ scan'.class = "drm" /\ scan'.todo = <<>> /\ ~scan'.read
        /\ result'[e] = <<>>
    BY <1>1 DEF NoScan
  <1>3. Coming' = <<>>
    BY <1>2 DEF Coming
  <1>4. Listing' = <<>>
    BY <1>2, <1>3 DEF Listing
  <1>5. Sorted(Listing') /\ Cards(result'[scan'.enum])
    BY <1>2, <1>4 DEF Sorted, Cards
  <1>6. NothingMissed'
    BY <1>2 DEF NothingMissed
  <1> QED
    BY <1>2, <1>5, <1>6 DEF ScanInv

\* Nodes that come do not matter to a scan, and those that go need not be listed.
LEMMA KernelKeeps ==
  ASSUME ScanInv, Kernel
  PROVE  ScanInv'
  <1>1. UNCHANGED <<obj, held, filter, result, pipes, scan>> /\ steady' \subseteq steady
    BY DEF Kernel, NodeAppears, NodeGoes, heap
  <1>2. NothingMissed => NothingMissed'
    BY <1>1 DEF NothingMissed, Room, subsystem_wanted, sysname_wanted
  <1> QED
    BY <1>1, <1>2 DEF ScanInv, Listing, Coming

LEMMA ScanInvStep == Inv /\ ScanInv /\ [Next]_vars => ScanInv'
  <1> SUFFICES ASSUME Inv, ScanInv, [Next]_vars PROVE ScanInv'
    OBVIOUS
  <1>1. CASE UNCHANGED vars
    BY <1>1 DEF vars, ScanInv, Listing, Coming, NothingMissed, Room, subsystem_wanted,
      sysname_wanted
  <1>2. CASE Idle /\ scan' = scan
    BY <1>2 DEF Idle, ScanInv
  <1>3. CASE CallContext \/ CallAny \/ CallDevice
    <2>1. Idle /\ scan' = scan
      BY <1>3 DEF CallContext, CallAny, CallDevice, udev_new, udev_device_new_from_syspath,
        udev_device_new_from_devnum, udev_device_new_from_subsystem_sysname, NewDevice,
        udev_monitor_new_from_netlink, udev_enumerate_new, Ref, Unref, udev_device_get_parent,
        udev_device_get_parent_with_subsystem_devtype
    <2> QED
      BY <1>2, <2>1
  <1>4. CASE CallEnumerate
    <2>1. PICK e \in Has({"enumerate"}) :
            \/ \E p \in SubsystemPatterns : udev_enumerate_add_match_subsystem(e, p)
            \/ \E p \in SysnamePatterns : udev_enumerate_add_match_sysname(e, p)
            \/ \E path \in Paths : udev_enumerate_add_syspath(e, path)
            \/ udev_enumerate_scan_subsystems(e)
            \/ udev_enumerate_scan_devices(e)
      BY <1>4 DEF CallEnumerate
    <2>2. CASE udev_enumerate_scan_devices(e)
      BY <2>2, StartKeeps DEF Has
    <2>3. CASE ~udev_enumerate_scan_devices(e)
      BY <1>2, <2>1, <2>3 DEF udev_enumerate_add_match_subsystem,
        udev_enumerate_add_match_sysname, udev_enumerate_add_syspath, udev_enumerate_scan_subsystems
    <2> QED
      BY <2>2, <2>3
  <1>5. CASE Scanning
    BY <1>5, ReadKeeps, BuildKeeps, NextKeeps DEF Scanning
  <1>6. CASE Kernel
    BY <1>6, KernelKeeps
  <1> QED
    BY <1>1, <1>3, <1>4, <1>5, <1>6 DEF Next

\* The list a scan makes is in the order of qsort, each device once, and no
\* wanted node that stays is missed, whatever comes and goes meanwhile.
THEOREM ScansAreRight == Spec => []ScanRight
  <1>1. Init => ScanInv
    BY DEF Init, NoScan, ScanInv
  <1>2. ScanInv => ScanRight
    BY DEF ScanInv, ScanRight, Listing, Coming, Sorted
  <1>3. Spec => []Inv
    BY InvHolds, PTL
  <1> QED
    BY <1>1, <1>2, <1>3, ScanInvStep, PTL DEF Spec
=============================================================================
