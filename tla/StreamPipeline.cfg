CONSTANTS
  Stoppers = {s1, s2}
SPECIFICATION PipelineFairSpec
INVARIANT Released
PROPERTY LifeSpec
CHECK_DEADLOCK FALSE
