\* Shipments and their carriers, the mails, the likes of a card, a project
\* and its members, and the files on the disk.
SPECIFICATION Spec
CONSTANTS
  Labels = {l1, l2}
  BusyLabel = l1
  NoLabel = NoLabel
  ShipmentSlots = {h1, h2}
  MaxReports = 2
  ReportBound <- MCReportBound
  PollBound <- MCPollBound
  SilentReports = {1}
  Submissions = {c1, c2}
  Visitors = {v1}
  NoVisitor = NoVisitor
  Notices = {n1}
  Fans = {u1, u2}
  NoFan = NoFan
  LikeSlots = {s1, s2}
  Owner = owner
  Guests = {g1, g2}
  NoUser = NoUser
  Targets = {g1, g2}
  CommentIds = {m1}
  NoComment = NoComment
  ProjectSlots = {p1, p2}
  Uploads = {f1}
  Jobs = {j1}
  Images = {1, 2}
SYMMETRY Symmetry
INVARIANTS
  OutsideTypeOK
  ShipmentFollowsCarrier
  MailMatchesRecords
  LikesShown
  RightsRespected
  FilesMatchRows
CHECK_DEADLOCK FALSE
