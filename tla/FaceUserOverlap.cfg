SPECIFICATION FairSpec
CONSTANTS
  Users = {ann, bob, eve}
  MaxSaves = 2
  MaxFailures = 0
PROPERTIES
  DeletedStaysOut
