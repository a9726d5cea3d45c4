SPECIFICATION BoardSpec
CONSTANTS
  MaxChunks = 2
  MaxSectors = 2
INVARIANT TypeOK
INVARIANT CompletionIsOwn
INVARIANT StartsOnQuietBus
INVARIANT QuietAtRest
INVARIANT ReadyNeverLost
INVARIANT RemovalNotForgotten
INVARIANT RegistersClocked
INVARIANT ReadyCardWasBroughtUp
INVARIANT WholeOrError
INVARIANT TransferNeverLost
