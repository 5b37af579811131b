SPECIFICATION FairSpec
CONSTANTS
  Proc = {p1, p2}
  Pids = {i1, i2}
  TunNames = {t1, t2}
  None = None
  NAME_ATTEMPTS = 2
  Backends = {"nft", "iptables"}
INVARIANTS LeaseSound
PROPERTIES ScanVerdict LeaseImplemented TransactionsEnd
CHECK_DEADLOCK FALSE
