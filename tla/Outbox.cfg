SPECIFICATION FairSpec
CONSTANTS
  cloud = cloud
  local = local
  c1 = c1
  l1 = l1
  old = old
  told = told
  ruling = ruling
  anna = anna
  ben = ben
  castle = castle
  decision = decision
  Rows <- MCRows
  Resolutions = {ruling}
  JudgementOf <- MCJudgementOf
  AuthorOf <- MCAuthorOf
  HomeOf <- MCHomeOf
  Deployments = {cloud, local}
  Writers = {cloud}
  Acceptor = cloud
  Drains = {c1, l1}
  SiteOf <- MCSiteOf
  MaxVersion = 2
  Legacy = {old}
  Fixtures = {}
  Lane = {told}
  Refused = {}
  Spoiled <- MCSpoiled
  PageSize = 1
  Batch = 1
  MaxFaults = 1
INVARIANTS TypeOK NothingForgotten AttestedAfterVerdict
PROPERTIES Archives EventuallyStored
