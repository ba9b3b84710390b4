SPECIFICATION Spec
CONSTANTS
  Domia = {d1, d2}
  Session = {s1, s2}
  MaxReplies = 2
  Take = {t1, t2}
  File = File
  LabDomia = {d1, d2}
  Join = {j1, j2}
  Text = {"", "a", "ab"}
  Page = {1, 2}
  Room = {r1, r2}
  Device = {e1, e2}
  Patience = 1
  MaxTime = 2
  Job = {i1, i2}
  Round = {p1, p2}
  Mime = {png, jpg}
  SetCall = 4
  MindFile = {m1, m2}
  Broken = Broken
  Section = {x1, x2}
  Partial = {m2}
  Omitted = {x2}
  MaxPicks = 2
  Pair = {c1}
  Chosen = {{}, {"trust", "config", "tools"}}
  MaxEdits = 1
  MaxBytes = 3
  Wait = 2
  Conversation = {v1, v2}
  MaxFailures = 2
  Value = {0, 1}
  Provider = {"ha", "p"}
  Mine = {"p"}
  Save = {1}
  StoredField = 0
  StoredList = {"p"}
  MaxWrites = 2
  Name = {"ha", "x"}
  Url = {"u", "v"}
CHECK_DEADLOCK FALSE
INVARIANTS
  PageTypesOK
  MicsAreHeld
  ShownIsTrue
  MicMeansRecording
  ClipIsOneTake
  BaselineIsSaved
  RoomsAreHeld
  AnnouncedOnce
  BoxIsTheSearch
  FilesAreServed
PROPERTIES
  PlayedIsTrue
  SaveTouchesOnlyEdits
  ImportIsConfirmed
  SilenceIsFair
  TypingIsKept
  ToldInTheEnd
