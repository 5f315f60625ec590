SPECIFICATION ExchangeSpec
CONSTANTS
  Maxlens <- MCMaxlens
  Topdomains <- MCTopdomains
  Switched <- MCSwitched
  Messages <- MCMessages
  Answered <- MCAnswered
  Types <- MCTypes
  Codecs <- MCCodecs
  Sizes <- MCSizes
  NameChars = 245
  MaxRecords = 4
INVARIANTS
  NameFits
  DefaultWhole
  QueryArrives
  AnswerWhole
  AnswerInOrder
