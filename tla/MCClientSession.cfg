SPECIFICATION FairSpec
CONSTANTS
  Tabs = {a}
  Users = {"ana", "bo"}
  Tokens <- McTokens
  Owner <- McOwner
  NoToken = NoToken
  NoUser = NoUser
  MaxInFlight = 2
INVARIANT SignOutIsComplete
PROPERTY ActsAsShown
PROPERTY SignOutHasCause
PROPERTY WaitsEnd
