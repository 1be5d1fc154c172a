\* Three threads: quitting, destroying, and a constructor that throws.
SPECIFICATION FairPoolSpec
CONSTANT NumThreads = 3
CHECK_DEADLOCK FALSE
INVARIANT NoUseAfterDelete
PROPERTIES QuitReturns
