CHECK_DEADLOCK FALSE
CONSTANTS
  Pcb = {p}
  NoPcb = NoPcb
  CtrMod = 3
  Window = 2
  FinMayWait = TRUE
  MainOps = {"close"}
  CallbackOps = {"close"}
SPECIFICATION Spec
INVARIANTS FinSentBeforeClosed
