\* The recipe of sl: a git branch, and a sha256.
SPECIFICATION Spec
CONSTANTS
  r1 = r1
  r2 = r2
  nasm = nasm
  ninja = ninja
  neovim = neovim
  sl = sl
  Runs = {r1}
  Names = {sl}
  Urls = {"sl"}
  Source <- Sl
  Basename <- TagNames
  MaxBuilds = 3
INVARIANTS
  SourceChecked
