CONSTANTS
  OciPackages = {"oci://image:1!p", "oci://image:2!p", "oci://other:latest!q"}
  LocalPackages = {"./local"}
  LatestTagged = {"oci://other:latest!q"}
  ConfigFiles <- MCConfigFiles
  Sources <- MCSources
  SourceOf <- MCSourceOf
  MaxVersion = 2
  Pinned = {"image:1", "image:2", "./local"}
  MaxAborts = 0
  Dirs <- MCDirs
  DirOf <- MCDirOf
SPECIFICATION Spec
INVARIANTS
  SuccessInstalls
