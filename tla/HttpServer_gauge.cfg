\* A GET with an amount that is not a number.
SPECIFICATION ServerSpec
CONSTANTS
  Connections = {c1}
  Faults <- BadArguments
  MaxDropped = 2
  None = None
INVARIANTS
  GaugeExact
