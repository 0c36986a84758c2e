\* Two imports with a locked file and a repeated movement, one retry, two failed calls and
\* one restart; documents of the parser, two movements with two PATCHes, reminders, and listings.
SPECIFICATION MCFairSpec
CONSTANTS
  j1 = j1 j2 = j2 f1 = f1 f2 = f2 f3 = f3 m1 = m1 m2 = m2 None = None
  t1 = t1 t2 = t2 p1 = p1 p2 = p2
  Jobs = {j1, j2}
  Files = {f1, f2, f3}
  Movements = {m1, m2}
  FilesOf <- MCFilesOf
  Content <- MCContent
  Locked = {f2}
  Foreign = {}
  Broken = {}
  Skips = {TRUE}
  Retries = {q1}
  MaxFaults = 2
  MaxCrashes = 1
  Rows = {1, 2}
  Patches = {p1, p2}
  Descriptions <- MCDescriptions
  Categories <- MCCategories
  SubsOf <- MCSubsOf
  CompanyDefault = "c2"
  MaxPatches = 2
  Empty = None
  Unset = None
  Ids = {1, 2, 3}
  Keys = {1, 2}
  Cap = 2
  Limits = {1, 2, 3}
  MaxWrites <- MCMaxWrites
  Nothing = None
INVARIANTS SuccessMeansStored ImportedOnce ReportMatchesFiles
  OwnWords EveryRowBooked  OccurrencesAnnounced PagesWhole
PROPERTIES SuccessFinal  ChainDrains UploadsEnd 
\* Once the imports and the retry are done nothing is left to do.
CHECK_DEADLOCK FALSE
