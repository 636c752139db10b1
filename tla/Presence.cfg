CONSTANTS
  first = first
  second = second
  again = again
  alice = alice
  bob = bob
  Conn <- Connections
  User <- Users
  UserOf <- MCUserOf
  MaxPlayers = 2
  Restless <- OneConnection
  Frail <- OneConnection
SPECIFICATION FairSpec
INVARIANT ShowsWhoIsThere ForgetsWhoLeft OverfullOnlyByRush
PROPERTY SilenceIsNoticed
CHECK_DEADLOCK FALSE
