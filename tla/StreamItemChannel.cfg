SPECIFICATION Spec
CONSTANTS
  Reception = reception
  Depth = 1
  MaxLost = 1
  MaxWritten = 3
  MaxAnnounced = 2
  MaxTransmits = 2
  NanosPerSecond = 10
  Modulus = 16
  Time <- MCTime
INVARIANTS TypeOK TimesKept InOnePlace NewestTypeKept
PROPERTIES ImplementsSampleChannel ImplementsTypeChannel TypeKnownOnReturn TransmittedIsSettled TypeFollowsSample
