SPECIFICATION Spec
CONSTANTS
  n1 = n1
  n2 = n2
  d1 = d1
  d2 = d2
  d3 = d3
  domain = domain
  context = context
  topic = topic
  question = question
  other = other
  answer = answer
  q1 = q1
  r1 = r1
  Names = {n1, n2}
  Definitions = {d1, d2, d3}
  NameOf <- MCNameOf
  DomainsOf <- MCDomainsOf
  Contexts = {context}
  DomainOf <- MCDomainOf
  RequestIds = {q1, r1}
  Topics = {topic}
  Texts = {question, other, answer}
  None = None
  Seed <- MCSeed
  MaxDefinitions = 2
  MaxMessages = 2
  Tasks = {t1, t2}
  ClientCommands <- MCClientCommands
  NoCommand = NoCommand
  MaxLog = 3
  MayCrash = TRUE
  LockRemoval = {"stale", "live"}
SYMMETRY Symmetry
INVARIANTS
  ConfirmedStaysInEffect
  LogReplays
  BoardIsCoherent
PROPERTIES
  AppendOnlyBoardSpec
