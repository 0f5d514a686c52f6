SPECIFICATION Spec
CONSTANTS
  t1 = t1
  t2 = t2
  Tasks = {t1, t2}
  Milestones = {1, 2}
  Contributors <- MCContributors
  Required <- MCRequired
  Gated <- MCGated
  Automatic = {2}
  Timed = {1, 2}
  Txns = {p, q}
  NoTxn = NoTxn
PROPERTIES
  ActsAtomically
  TransactionsEnd
