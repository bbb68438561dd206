SPECIFICATION RequestSpec
CONSTANTS
  Calls <- MCCalls
  Foreigns <- MCForeigns
  Memories <- MCMemories
  Nil = Nil
INVARIANTS RequestTypeOK ReadIsMemory WriteIsExact WithinLimits ReadServed
