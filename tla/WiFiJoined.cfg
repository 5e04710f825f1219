SPECIFICATION Spec
CONSTANTS
  MaxStarts = 3
  MaxPosts = 2
PROPERTY JoinedIsConfigured
CHECK_DEADLOCK FALSE
