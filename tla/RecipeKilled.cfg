\* One recipe, built again at the same version by a run that dies.
SPECIFICATION Spec
CONSTANTS
  r1 = r1
  r2 = r2
  nasm = nasm
  ninja = ninja
  neovim = neovim
  sl = sl
  Runs = {r1}
  Names = {nasm}
  Urls = {"nasm-1", "nasm-2"}
  Source <- Nasm
  Basename <- TagNames
  MaxBuilds = 3
INVARIANTS
  ManifestMatches
