SPECIFICATION Spec
CONSTANTS
  Uploads = {1, 2}
  Calls <- MCCalls
  ChunkSize = 2
INVARIANTS
  ProgressIsTaken
  DownloadIsOneFile
  HonestNeverMismatches
  RootBindsContent
PROPERTY
  UploadEnds
CHECK_DEADLOCK FALSE
