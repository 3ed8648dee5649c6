CONSTANTS
  Lines <- MCLines
  FirmwareMasks <- MCFirmwareMasks
  MaxRequests = 4
SPECIFICATION FairSpec
INVARIANTS LinesKeepTheirVectors NeverPanics NothingLeftInService
PROPERTIES RequestsAreTaken
CHECK_DEADLOCK FALSE
