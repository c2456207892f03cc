\* Two jobs of a source that is a document or a directory, five calls.
SPECIFICATION Spec
CONSTANTS
  Jobs = {j1, j2}
  Addresses <- MCAddresses
  Documents <- MCDocumentsTwo
  Says <- MCSays
  Places <- MCPlaces
  MaxRedirects = 1
  MaxZoom = 3
  MaxRemotes = 1
  MaxCalls = 5
CHECK_DEADLOCK FALSE
INVARIANTS WaitersHaveAReader AnswersAreTrue
PROPERTIES EveryJobEnds
