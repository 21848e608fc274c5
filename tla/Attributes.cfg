SPECIFICATION Spec
CONSTANTS
  Attr <- MCAttr
  Value = {"x", "y"}
  Contents <- MCContents
  Order <- MCOrder
  MapTo <- MCMapTo
  System = {"userexpiry"}
  Dangerous = {"UniventionOffice365Data"}
  Field <- MCField
  Many = {"otherMails", "businessPhones"}
  FirstOnly = {"businessPhones"}
  CreateOnly = {"mobilePhone"}
  Config <- MCConfig
  MaxChanges = 4
  MaxCrashes = 1
INVARIANTS TypeOK InSync
PROPERTY OnlyAsWanted
CHECK_DEADLOCK FALSE
