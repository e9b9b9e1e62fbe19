CONSTANTS
  Scripts <- Sessions
  Nobody = nobody
  Zero = zero
  Junk = junk
  MaxNotes = 1
SPECIFICATION FairSpec
INVARIANTS TypeOK InPhase OwnPayload ReadInv OutInv OutWhole
PROPERTIES SessionSpec ArrivedIsTaken EndOfService
