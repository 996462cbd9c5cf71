SPECIFICATION Spec
CONSTANTS
  HexTitle = {"0004000000030800"}
  OtherTitle = {"other"}
  Name <- MCName
  Publisher <- MCPublisher
  Extra <- MCExtra
  NameMax = 2
  PublisherMax = 2
  ExtraMax = 2
  MaxTicks = 2
  Absent = Absent
  NoSession = NoSession
  Nothing = Nothing
INVARIANTS
  TypeOK
  ActsAsAsked
PROPERTIES
  UnalteredPasses
  ReplyTellsTick
  ReloginIsNeeded
