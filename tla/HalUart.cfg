SPECIFICATION Spec
CONSTANTS
  Bytes = {a, b}
  None = None
  Writers = {w1, w2}
  TxLen = 2
  RxLen = 2
INVARIANTS TypeOK NoByteStranded
PROPERTIES TransmitsInOrder ReceivesInOrder LastByteLeaves
