\* Two imports of the same movement.
SPECIFICATION Spec
CONSTANTS
  j1 = j1 j2 = j2 f1 = f1 f2 = f2 f3 = f3 m1 = m1 m2 = m2 None = None
  Jobs = {j1, j2}
  Files = {f1, f2, f3}
  Movements = {m1, m2}
  FilesOf <- MCFilesOf
  Content <- MCRepeated
  Locked = {f2}
  Foreign = {}
  Broken = {}
  Skips = {TRUE}
  Retries = {q1}
  MaxFaults = 0
  MaxCrashes = 0
PROPERTY ReuploadSkipsRegistered
\* Once the imports and the retry are done nothing is left to do.
CHECK_DEADLOCK FALSE
