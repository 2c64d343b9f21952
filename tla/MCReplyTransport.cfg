\* A ring of two slots; five replies wrap the sequence (modulus 4) and the ring.
CONSTANTS
  Capacity = 2
  Modulus = 4
  MaxReplies = 5
SPECIFICATION FairSpec
INVARIANTS
  TypeOK
  ThreadsAgree
PROPERTIES
  ImplementsFifo
  ReaderMakesProgress
