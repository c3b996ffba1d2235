SPECIFICATION FetchSpec
CONSTANTS MaxStreams = 2
 MaxPages = 2
 Chunks = 2
 PageCap = 3
 MaxUnmapped = 50
INVARIANTS RawKept
CHECK_DEADLOCK FALSE
