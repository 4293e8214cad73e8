\* A corner and its neighbours: points replace each other, voxels come and go.
CONSTANTS
  VoxelSize = 2
  MaxPoints = 2
  MaxRange = 3
  MinPoints = 2
  MaxDist = 4
  Points <- ScanPoints
  Queries <- QueryPlaces
  Origins <- RobotPlaces
  MaxSeen = 3
  MaxCopies = 1
SPECIFICATION Spec
INVARIANTS
  TypeOK
  PlanesFresh
  TargetFresh
  ClosestOfAll
  SampleUniform
PROPERTIES
  PrunedByRange
