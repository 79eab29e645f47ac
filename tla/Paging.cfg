SPECIFICATION PagingSpec
CONSTANTS
  PageSize = 2
  MemoryMaps <- MCMemoryMaps
  KernelStart = 2
  BitmapPage = 4
  PagesPerBitmapPage = 16
  InitialHeapPages = 4
  LeastHeapPages = 2
  Indices = {0, 1}
  Virtual <- MCVirtual
  Frames = {2}
  P4 = 2
  P3 = 3
INVARIANTS UsedPagesCounted HandedOutOnce OnlyUsablePages FirstRunFound
           Translates TablesApart
CHECK_DEADLOCK FALSE
