SPECIFICATION Spec
CONSTANTS
  Symbols <- MCSymbols
  Dir = "/thor/"
  Answers <- MCAnswers
  Number <- MCNumber
  Addresses <- MCAddresses
  Certificates <- MCCertificates
  Directories <- MCDirectories
  Ephemeral <- MCEphemeral
INVARIANTS
  TypeOK
  
  SuitedServes
  PrintedIsBound
