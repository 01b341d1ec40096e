SPECIFICATION RecencySpec
CONSTANTS
  r1 = r1
  None = None
  Request = {r1}
  RotateAfter = 10
  Timeout = 4
  Period = 2
PROPERTIES
  RotatesOnRecentErrors
