SPECIFICATION WireSpec
CONSTANTS
  Values <- SmallValues
  Comms <- ShortAndLong
  FileNames <- ShortAndLongest
  Flags <- OpenFlags
  Addresses <- SomeAddresses
  Leftovers <- SomeBytes
  ContextReads <- AlwaysFails
INVARIANTS
  DestinationReal
  DestinationArrives
  NoStalePayload
  NameArrives
  WritesSeen
