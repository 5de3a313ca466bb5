\* One pool thread is enough for a grant to outlive its client.
SPECIFICATION FairSpec
CONSTANTS
  Clients = {c1, c2}
  Files = {f1}
  Workers = {w1}
  NoClient = NoClient
PROPERTY LockEventuallyFreed
