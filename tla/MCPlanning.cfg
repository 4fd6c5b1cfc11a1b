SPECIFICATION PlanSpec
CONSTANTS
  Items = {1, 2, 3}
  Tasks = {t1, t2, t3}
  Nobody = nobody
  Columns = {todo, doing}
  Siblinghoods = {s1, s2}
  Lists = {l1, l2}
  RankStep = 2
  RankLimit = 7
  GivenRanks = {1}
  MaxIndex = 2
  Nodes = {n1, n2, n3}
  Points = {n1, n2, n3}
  RowIds = {r1, r2, r3}
  Linkers = {c1, c2}
  People = {ann, bob}
  Jobs = {1, 2, 3}
  NoOne = nobody
  Teams <- MCTeams
  MemberRoles <- MCMemberRoles
  WorkspaceRoles <- MCWorkspaceRoles
  MaxChanges = 1
  MaxDepth = 2
  MaxTimeline = 3
  Limits = {2}
  Codes <- MCCodes
  NoCode = nocode
  Sheets <- MCSheets
  NoSheet = nosheet
  Nodules = {1, 2, 3, 4, 5}
  NoNode = nonode
  Importers = {i1, i2}
  MaxActs = 3
SYMMETRY MCSymmetry
CHECK_DEADLOCK FALSE
INVARIANTS PlacedAsAsked LinksAreSound AccessIsCoherent ReadsAgree ImportsAreFaithful
