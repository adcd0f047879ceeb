SPECIFICATION FairSpec
CONSTANTS
  c1 = c1
  c2 = c2
  s1 = s1
  s2 = s2
  Commands <- MCCommands
  Sessions <- MCSessions
  NoSession = NoSession
  MaxRestart = 1
INVARIANTS TypeOK OnMqttMeansFlag FlagMeansSession
PROPERTIES FlagComesDown QueueDrains MailboxSpec
