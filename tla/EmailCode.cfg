SPECIFICATION Spec
CONSTANTS
  client = client
  other = other
  NONE = NONE
  GUESS = GUESS
  Sessions = {"s1"}
  Users = {client, other}
  Addresses <- MCAddresses
  Owner <- MCOwner
  AddressOf <- MCAddressOf
  Reads <- MCReads
  MaxSends = 2
  MaxWrong = 2
  QueueSize = 0
  Resend = 1
  Lifetime = 2
  Horizon = 4
INVARIANTS GuessesBounded
PROPERTIES SignInProves
