CONSTANTS
  LeaderRaw <- MCLeaderRaw
  FollowerRaw <- MCFollowerRaw
  NoId = 0
  SyncNums = 2
  Threshold = 2
  TimeSpan = TRUE
  MaxFaults = 3
SPECIFICATION FairSpec
INVARIANTS IInv JoinedOnce NothingLost
PROPERTIES AllJoined LeaderEnds
\* A partition that has been joined is left alone.
CHECK_DEADLOCK FALSE
