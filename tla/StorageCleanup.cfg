SPECIFICATION FairSpec
CONSTANTS
  Volume = {v1, v2}
  Trimmed = {v2}
  NoVolume = NoVolume
  MaxFaults = 2
INVARIANTS
  TypeOK
PROPERTIES
  NeverUnderPod
  MemberClaimKept
  ReleasedIsErased
CHECK_DEADLOCK FALSE
