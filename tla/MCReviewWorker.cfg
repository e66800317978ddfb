SPECIFICATION Spec
CONSTANTS
  client = client
  reviewer = reviewer
  dc = dc
  dr = dr
  domain = domain
  context = context
  topic = topic
  other = other
  question = question
  seen1 = seen1
  seen2 = seen2
  q1 = q1
  q2 = q2
  q3 = q3
  Names = {client, reviewer}
  Definitions = {dc, dr}
  NameOf <- MCNameOf
  DomainsOf <- MCDomainsOf
  Contexts = {context}
  DomainOf <- MCDomainOf
  RequestIds <- MCRequestIds
  Topics = {topic, other}
  Texts = {question, seen1, seen2}
  None = None
  Seed <- MCSeed
  MaxDefinitions = 2
  MaxMessages = 4
  Workers = {w1, w2}
  Programs = {"contract", "candidate build"}
  ReviewerDefinition = dr
  ReviewTopic = topic
  Observations = {seen1, seen2}
  ClientCommands <- MCServedCommands
  PageSize = 1
  MaxPages = 2
  Limit = 2
  MaxFailures = 1
SYMMETRY Symmetry
INVARIANTS
  ReceiptHasResult
  OneResult
  ScanIsComplete
