SPECIFICATION FairSpec

CONSTANTS
  t1 = t1
  t2 = t2
  Texts = {t1, t2}
  Senders <- MCSenders
  Tools = {"wl-copy", "wl-paste", "xclip", "pyperclip", "xdotool", "wtype", "pynput"}
  MaxCopies = 1
  MaxWatches = 1
  Faults = {"open", "snapshot", "write", "keys", "restore"}
  MaxFaults = 1
  Empty = Empty
  NoOne = NoOne

INVARIANTS
  KeeperInv
  CopyKept

PROPERTIES
  CallerReturns
