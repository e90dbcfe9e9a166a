SPECIFICATION TwinSpec
CONSTANTS
  client = client
  NONE = NONE
  GUESS = GUESS
  First = s1
  Second = s2
  Sessions = {s1, s2}
  Users = {client}
  Addresses <- MCAddresses
  Address <- MCAddress
  Owner <- MCOwner
  AddressOf <- MCAddressOf
  Reads <- MCReads
  MaxSends = 2
  MaxWrong = 2
  QueueSize = 1
  Resend = 2
  Lifetime = 3
  Horizon = 6
INVARIANTS SameAnswers
