SPECIFICATION Spec
CONSTANTS
  Threads = {user, reception}
  StreamTypes <- MCStreamTypes
  MetaTypes = {"plain", "plain array"}
  PlainArray = "plain array"
  Absent = Absent
  NoNumber = NoNumber
  IntMax = 511
  MaxMessageSize = 64
  DefaultProfile = DefaultProfile
INVARIANTS TypeOK SizeDecided
PROPERTY NeverRecreated
