SPECIFICATION PathSpec
CONSTANTS
  None = None
  endless = endless
  Endless = endless
  MaxBytes = 2
  MaxChunk = 2
  Width = 16
  Threshold = 128
  Scale = 65536
  RowsPerBlock = 5
  FeedLines = 4
  Documents <- MCDocuments
  Ppds <- MCPpds
  PageSizes <- MCPageSizes
  Copies = {0, 2}
INVARIANT PathInv
INVARIANT SpooledOnce
INVARIANT ReceiptIsWhole
INVARIANT BlackStaysBlack
INVARIANT MediaFits
INVARIANT SameVerdict
PROPERTY DownloadEnds
PROPERTY ImplementsFetch
