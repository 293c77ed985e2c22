CONSTANTS
  Imeis = {i1}
  None = None
  Messages <- Mixed
  Lookups = {TRUE, FALSE}
  Section <- NoSections
  Fallback <- Shipped
  Killable = {"rectifier", "termconfig"}
  MaxSent = 3
  SoundMessages <- Every
  SoundSection <- OwnSections
  SoundFallback <- WithTimes
  SoundSent = 2
  pmods <- Configured
  Typed <- CommandLines
  Clicked <- Buttons
  Width = 3
  Short = 2
  Letters = {"a", "b"}
  Digits = {"0", "1"}
  Pmods <- PmodTexts
  Addresses = {"addr"}
SPECIFICATION FairSpec
INVARIANTS AnsweredOnce ReportsInOrder ToldAlike SentIsMeant SubscriptionExact DecodedAsSent
PROPERTIES EveryRequestAnswered
