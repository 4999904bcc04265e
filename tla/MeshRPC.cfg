CONSTANTS Calls = {r1, r2}
          MaxPendingCalls = 1
          WriterQueue = 1
          EventBuffer = 2
SPECIFICATION Spec
INVARIANTS NoCallLeft ReaderNeverBlocks HandlersCancellable LossReported
SYMMETRY CallSymmetry
CHECK_DEADLOCK FALSE
