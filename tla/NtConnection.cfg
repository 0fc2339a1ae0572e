SPECIFICATION Spec
CONSTANTS
  Workers = {w1, w2}
  Ex = Ex
  Maker = Maker
  App = App
  Nobody = Nobody
  Kinds = {"stream", "listener", "dgram"}
  MaxBatch = 2
  MaxOps = 4
  MaxOut = 3
SYMMETRY Symmetry
CHECK_DEADLOCK FALSE
INVARIANTS RefsExact WrittenInOrder ReaderKept Drained
