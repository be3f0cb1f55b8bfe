\* Two runs at a time, of two recipes with two versions, dying at any step.
SPECIFICATION Spec
CONSTANTS
  r1 = r1
  r2 = r2
  nasm = nasm
  ninja = ninja
  neovim = neovim
  sl = sl
  Runs = {r1, r2}
  Names = {ninja, neovim}
  Urls = {"ninja-1", "ninja", "neovim-1"}
  Source <- Tags
  Basename <- TagNames
  MaxBuilds = 3
SYMMETRY RunSymmetry
INVARIANTS
  PackedIsChecked
  NeverAhead
  OneVersionListed
