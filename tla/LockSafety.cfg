\* Two clients, one path, two pool threads: the requests of both, or one
\* and an orphaned request or a datanode handshake.
SPECIFICATION Spec
CONSTANTS
  Clients = {c1, c2}
  Files = {f1}
  Workers = {w1, w2}
  NoClient = NoClient
SYMMETRY Symmetry
INVARIANT TypeOK
INVARIANT MutualExclusion
INVARIANT LockInv
