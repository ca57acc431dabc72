CHECK_DEADLOCK FALSE
CONSTANTS
  Pcb = {p, q}
  NoPcb = NoPcb
  CtrMod = 3
  Window = 2
  FinMayWait = FALSE
  MainOps = {}
  CallbackOps = {"abort", "refuse"}
SPECIFICATION Spec
INVARIANTS NoSpin
