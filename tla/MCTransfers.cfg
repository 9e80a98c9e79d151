\* A directory of two files or two single transfers; two uploads (this module's own constants); three downloads; two transfers on a serial line, or two reads, or an input; files of three and four chunks with three or four faults; four names for a received file.
SPECIFICATION SuiteSpec
CONSTANTS
  None = None
  Torn = Torn
  f1 = f1
  f2 = f2
  t1 = t1
  t2 = t2
  c1 = c1
  Total = 2
  Metas = {0, 1}
  MaxVersions = 2
  MaxSources = 1
  MaxAttempts = 2
  MaxFaults = 2
INVARIANTS
  TransfersTruthful
  WriteExclusive
  SavedKept
  PublishedWhole
  UploadTruthful
  DownloadSound
  NoResidue
  TransferIsExact
  PublishSound
CHECK_DEADLOCK FALSE
