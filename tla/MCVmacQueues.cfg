\* Four frames over the three lists; a queue entry's kmalloc may fail.
CONSTANTS
  AllocMayFail = TRUE
  MaxEnq = 4
SPECIFICATION Spec
INVARIANTS EachFrameOnce FifoPerQueue
PROPERTIES QueuedEventuallyDelivered ImplementsFifo
