SPECIFICATION FilesSpec
CONSTANTS
  Circuits <- MCCircuits
  CubeSets <- MCCubeSets
  Sources <- MCSources
  Indices <- MCIndices
  GroupBits = 1
  Width = 5
INVARIANTS
  FileAbortIffMisnumbered
  FileMeansSource
  GatesMeanInvariant
  CertificateReadsBack
