CONSTANTS
  Operations = {w1, w2, w3}
  Callers = {d1, d2, d3}
  Unbounded = {d2}
  MaxActive = 2
  Observers = {o1}
  InnerDrop = inner
SPECIFICATION SignalSpec
INVARIANTS GateInv TokenInv
PROPERTIES BoundedDrainReturns EveryObserverReturns ImplementsContract
CHECK_DEADLOCK FALSE
