\* Canon, outline, release, handlers, proactive messages, media, editor: each in turn.
\* The parts share their ids, so that one small group of symmetries serves all.
SPECIFICATION StudioSpec
CONSTANTS
  \* canon
  Items = {x1, x2}
  NoItem = NoItem
  Contents = {old, new}
  Generated = new
  Candidates = {z1, z2}
  Followed <- MCFollowed
  Keys = {k1}
  NoKey = NoKey
  NoRequest = NoRequest
  Unguarded = Unguarded
  Unlisted = Unlisted
  Author = Author
  MaxRevision = 3
  \* outline
  Arcs = {x1, x2}
  Chapters = {z1, z2}
  Quests = {q1, q2}
  Scenes = {s1}
  Lores = {l1}
  NoRow = NoRow
  None = None
  Keep = Keep
  \* release
  g1 = g1
  g2 = g2
  GraphScenes = {g1, g2}
  Choices = {x1, x2}
  ChoiceRows <- MCChoiceRows
  NoChoice = NoChoice
  NoScene = NoScene
  NoGate = NoGate
  Text = Text
  Releases = {r1}
  Plays = {z1, z2}
  Saves = {v1}
  NoRelease = NoRelease
  NoPlay = NoPlay
  Unset = Unset
  Levels <- MCLevels
  MaxHistory = 3
  MaxEdits = 5
  \* handlers
  Jobs = {j1, z1, z2}
  ConsolidateJobs = {j1}
  AnalyzeJobs = {z1, z2}
  Memories = {m1}
  MemoryOf <- MCMemoryOf
  FirstRead = 2
  NextRead = 1
  MaxMessages = 3
  MaxQueued = 2
  NoJob = NoJob
  Pumps = {x1, x2}
  Nobody = Nobody
  Gone = Gone
  MaxAttempts = 2
  MaxRetries = 0
  MaxFaults = 1
  \* proactive messages
  Talks = {t1}
  Buckets = {x1, x2, b3}
  DailyLimit = 2
  Cooldown = 1
  Day = 3
  Quiet = {0}
  Never = Never
  Listed = 2
  MaxChat = 2
  MaxTime = 6
  \* media
  Hashes = {f1}
  Writers = {x1, x2}
  Uploads = {z1, z2}
  NoHash = NoHash
  \* editor
  Tabs = {e1}
  Documents = {z1, z2}
  NoDocument = NoDocument
  NoSave = NoSave
  Kept = Kept
  MaxWorld = 3
  MaxActs = 2
  MaxCalls = 1
SYMMETRY Symmetry
INVARIANTS StudioTypeOK RevisionNamesCanon ApprovedFresh KeyedOnce NothingDangles
           OfferedChoiceWorks RunReplays SupersededOnce SoundCursor DailyLimitKept
           StoredWhole NoLostUpdate SavedIsStored
PROPERTIES ReviewIsGate OnlyMovesDisagree
CHECK_DEADLOCK FALSE
