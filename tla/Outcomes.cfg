SPECIFICATION FairSpec
CONSTANTS
  Ops = {"exec", "keys", "create", "plain"}
  Limit = 2
  GuestSays <- Says
  Garbled <- Secrets
INVARIANTS TypeOK AnswersAreTrue ExitIsFaithful HungIs504 GuestNeverMistaken
PROPERTY CallsEnd
