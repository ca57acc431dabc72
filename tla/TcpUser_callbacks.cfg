\* Two pcbs for a listener, for the application and for the callbacks of one to
\* act on the other; a window of one data segment and a FIN; the timer counter
\* wraps after three ticks.
CONSTANTS
  Pcb = {p, q}
  NoPcb = NoPcb
  CtrMod = 3
  Window = 2
  FinMayWait = FALSE
  MainOps = {"new", "connect", "close", "abort", "shutTx", "shutRx", "recved"}
  CallbackOps = {"connect", "close", "abort", "shutTx", "shutRx", "recved", "refuse"}
SYMMETRY Symmetry
SPECIFICATION Spec
INVARIANTS ListsAgree NoUseAfterFree NoDanglingRef NoOrphan RefusedOnActive EveryPcbTicked
