SPECIFICATION TransportsSpec
CONSTANTS
  MaxConnects = 3
  MaxResets = 1
  MaxQueue = 2
  Relabels = {TRUE, FALSE}
INVARIANTS
  TransportsTypeOK
  ShownIsSo
  SessionsNotJoined
