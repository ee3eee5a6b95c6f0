SPECIFICATION Spec
CONSTANTS
  Step = 2
  Width = 16
  LonMax = 33
  LatMax = 32
  Members <- MCMembers
  ScoreLists <- MCScoreLists
  MemberLists <- MCMemberLists
  TripleLists <- MCTripleLists
INVARIANTS IndexesAgree ReadsAgree ReplicaSameMembers ReplicaSameOrder GeoRoundTrip
