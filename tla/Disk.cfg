SPECIFICATION Spec
CONSTANTS
  Sessions = {s1}
  Releases = {r1, r2}
  Jobs = {j1, j2}
  None = None
  Stale = Stale
SYMMETRY Symmetry
INVARIANT DiskFitsPin
INVARIANT CleanBootSucceeds
PROPERTY FilesAreKept
