SPECIFICATION Spec
CONSTANTS
  Maxlens = {255}
  Topdomains <- ShortTopdomains
  Switched <- MCSwitched
  Messages <- MCMessages
INVARIANTS
  NothingCut
