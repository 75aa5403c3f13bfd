SPECIFICATION Spec
CONSTANTS
  Parts = {"bots", "personas", "frontmatter", "launch", "usage", "artifacts", "pane", "threads", "sync", "feed", "composer", "watch", "selection", "editor", "sketch"}
  None = None
  Bad = Bad
  Agent = {1, 2}
  MaxFault = 1
  Dest = {d1, d2}
  Token = {t1, t2}
  Modes = {"self", "outbound"}
  MaxUpdate = 1
  MaxChange = 3
  Opt = {v}
  Team = {team, team2, long}
  LongTeam = {long}
  MaxPersonaOp = 2
  FileLine <- Lines
  MaxLines = 4
  Value = {"n"}
  Config <- Configs
  MaxLaunchOp = 5
  MaxEdit = 1
  UsagePoll = {"timer", "now"}
  Proxy = {1, 2}
  MaxPoll = 3
  Req = {r1, r2}
  Slug = {site, other}
  PageStore = {store}
  FileId = {blob}
  Path = {path}
  Name = {"index", "a"}
  MaxFileOp = 3
  PaneCall = {short, slow, route}
  Locked = {short, slow}
  Unsent = {route}
  Delay <- Ticks
  Timeout = 3
  Lease = 6
  Attempts = 3
  MaxLost = 1
  Void = {2}
  WithBot = {1}
  PageSize = 1
  MaxRow = 3
  MaxQueue = 2
  MaxThreadOp = 3
  MaxMessage = 3
  MaxConnect = 2
  MaxSelect = 1
  MaxClick = 2
  Addressee = {"a", "b"}
  StartsRunning = {"a"}
  Subscribed = {"a"}
  Texts <- Typed
  Window = 2
  MaxSend = 2
  MaxAct = 4
  MaxPeek = 2
  Teams = {{1, 2}}
  MaxPick = 2
  MaxBreak = 2
  LinesOf <- FileLines
  MaxVisit = 2
  MaxWidget = 1
  MaxSave = 1
  Shape <- Shapes
  MaxShapes = 3
  v = v
  short = short
  slow = slow
  route = route
INVARIANTS
  UpdatesAreHeard RowsFollowFiles FieldsAreKept StartedAsItself SessionsAreTracked
  KeptWhole OneTextPerLine ThreadsAreTrue NoGap FeedIsCurrent SentAndSettled
  PagesAreTrue DrawnAsDeclared
CHECK_DEADLOCK FALSE
