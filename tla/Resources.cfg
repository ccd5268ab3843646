\* One container of the user, three images, two volumes and one network.
SPECIFICATION Spec
CONSTANTS
  Names = {"app"}
  Images <- MCImages
  Backup <- MCBackup
  Volumes = {"v1", "v2"}
  Networks = {"net"}
  Helpers = {"calf-vol-export-1", "calf-vol-export-2"}
  Nothing = "nothing"
  MaxOps = 1
  MaxJobs = 2
INVARIANTS
  LeftoversAreRemoved
PROPERTIES
  PruneStaysWithinPreview
CHECK_DEADLOCK FALSE
