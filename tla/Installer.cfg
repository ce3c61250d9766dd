SPECIFICATION FairSpecInstaller
CONSTANTS
  None = None
  Broken = Broken
  Disks <- FourDisks
  Medium <- InstallerMedium
  device_path = None
  part_sizes <- Sizes
INVARIANTS
  RecordedIsWhole
  ChosenDiskFits
PROPERTIES
  IdIsKept
  InstallsInTheEnd
