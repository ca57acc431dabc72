CHECK_DEADLOCK FALSE
CONSTANTS
  Pcb = {p}
  NoPcb = NoPcb
  CtrMod = 3
  Window = 2
  FinMayWait = FALSE
SPECIFICATION AppSpec
INVARIANTS ServerFreesOnce
