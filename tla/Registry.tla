------------------------------ MODULE Registry ------------------------------
(***************************************************************************)
(* What the package registry promises the people who use it, with nothing  *)
(* said of how: one signed listing, changed one publication at a time, and  *)
(* announcements ("Published: ... herd install NAME") that are only made    *)
(* for records the listing has and stay true until a later publication      *)
(* replaces the record.  Accept.tla is shown to implement it.               *)
(***************************************************************************)
CONSTANT Listing0     \* the listing before the first publication: records with a .name

VARIABLES listing,    \* the records of the INDEX that verifies
          announced   \* the records whose author was told "Published"

vars == <<listing, announced>>

NamesOf(R) == {r.name : r \in R}

\* The listing I with the records of R added, each in place of the one it names.
Replace(I, R) == {r \in I : r.name \notin NamesOf(R)} \cup R

Init == listing = Listing0 /\ announced = {}

\* The records of R appear together; announcements they replace are withdrawn.
Publish(R) ==
  /\ listing' = Replace(listing, R)
  /\ announced' = {a \in announced : a.name \in NamesOf(R) => a \in R}

\* Only what is listed is announced.
Announce(R) ==
  /\ R \subseteq listing
  /\ announced' = Replace(announced, R)
  /\ UNCHANGED listing

\* What is published or announced is listed afterwards.
Next == \E R \in (SUBSET listing') \ {{}} : Publish(R) \/ Announce(R)

Spec == Init /\ [][Next]_vars
=============================================================================
