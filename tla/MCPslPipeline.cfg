\* Three versions, one of them broken, one day, every course of three events.
SPECIFICATION FairSpec
CONSTANTS
  Labels = {"com", "ck", "www", "uk", "a b", "long", "x"}
  Strange = {"a b"}
  Overlong = {"long"}
  Snapshots <- MCSnapshots
  Own <- MCOwn
  Floor = 1
  Cases <- MCCases
  Official <- MCOfficial
  Named <- MCNamed
  Names <- MCNames
  Tld = "com"
  MaxAge = 0
  Horizon = 1
  Courses <- MCCourses
  Torn = Torn
INVARIANTS MergedIsSnapshot MergedLookupIsPsl
PROPERTY StaleIsRaised
