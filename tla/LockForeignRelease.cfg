SPECIFICATION Spec
CONSTANTS
  Clients = {c1, c2}
  Files = {f1}
  Workers = {w1, w2}
  NoClient = NoClient
PROPERTY ReleaseSurrendersOwnLock
