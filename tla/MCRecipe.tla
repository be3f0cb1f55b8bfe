------------------------------ MODULE MCRecipe ------------------------------
(***************************************************************************)
(* Instances of Recipe for TLC.                                            *)
(***************************************************************************)
EXTENDS Recipe, TLC

CONSTANTS r1, r2, nasm, ninja, neovim, sl

Archive(u) == [url |-> u, git |-> FALSE, sha256 |-> TRUE]

\* Recipes whose archives are all named v1 (as GitHub names those of a tag), one
\* of which is cloned from git at its second version.
TagNames == [u \in Urls |-> "v1"]
Tags ==
  <<ninja, 1>> :> Archive("ninja-1") @@ <<ninja, 2>> :> [url |-> "ninja", git |-> TRUE, sha256 |-> FALSE]
  @@ <<neovim, 1>> :> Archive("neovim-1")

\* recipes/sl: a branch, and a sha256.
Sl == [f \in {sl} \X {1, 2} |-> [url |-> "sl", git |-> TRUE, sha256 |-> TRUE]]

\* recipes/nasm alone.
Nasm == <<nasm, 1>> :> Archive("nasm-1") @@ <<nasm, 2>> :> Archive("nasm-2")

\* Runs are interchangeable.
RunSymmetry == Permutations(Runs)
=============================================================================
