--------------------------- MODULE OutlineProofs ---------------------------
(***************************************************************************)
(* What holds of the outline for every set of arcs, chapters, quests,      *)
(* scenes and lore entries.                                                *)
(***************************************************************************)
EXTENDS NarrativeOutline, TLAPS

OutlineInv == OutlineTypeOK /\ NothingDangles

(* What a row may name, and whether it agrees with the rows it names.      *)
QuestRowFits(row) ==
  /\ row \in QuestRows /\ row # NoRow
  /\ row.arc \in arcs
  /\ row.chapter # None => hasChapter(row.chapter) /\ row.arc = chapters[row.chapter]

SceneRowFits(row) ==
  /\ row \in SceneRows /\ row # NoRow
  /\ row.arc # None => row.arc \in arcs
  /\ row.chapter # None => hasChapter(row.chapter)
  /\ row.quest # None => /\ hasQuest(row.quest)
                         /\ row.arc = quests[row.quest].arc
                         /\ row.chapter = quests[row.quest].chapter
  /\ (row.quest = None /\ row.chapter # None) => row.arc = chapters[row.chapter]

-----------------------------------------------------------------------------
(* The row validateQuestHierarchy allows names rows there are and agrees   *)
(* with its chapter.                                                       *)
LEMMA QuestRowValidated ==
  ASSUME OutlineInv, NEW a, NEW c, NEW row \in validateQuestHierarchy(a, c)
  PROVE  QuestRowFits(row)
BY OutlineAssumption
DEF OutlineInv, OutlineTypeOK, NothingDangles, ChaptersHang, validateQuestHierarchy,
    QuestRows, QuestRowFits, hasChapter

(* So does the row validateSceneHierarchy allows, with its quest or, on no *)
(* quest, with its chapter.                                                *)
LEMMA SceneRowValidated ==
  ASSUME OutlineInv, NEW a, NEW c, NEW q, NEW row \in validateSceneHierarchy(a, c, q)
  PROVE  SceneRowFits(row)
<1>1. row \in SceneRows /\ row # NoRow
  BY OutlineAssumption DEF validateSceneHierarchy
<1>2. CASE /\ hasQuest(q)
           /\ row = [arc |-> quests[q].arc, chapter |-> quests[q].chapter, quest |-> q]
  <2>1. /\ quests[q].arc \in arcs
        /\ quests[q].chapter # None => hasChapter(quests[q].chapter)
        /\ q # None
    BY <1>2, OutlineAssumption
    DEF OutlineInv, NothingDangles, QuestsHang, hasQuest
  <2> QED
    BY <1>1, <1>2, <2>1 DEF SceneRowFits
<1>3. CASE /\ hasChapter(c)
           /\ row = [arc |-> chapters[c], chapter |-> c, quest |-> None]
  BY <1>1, <1>3 DEF SceneRowFits, OutlineInv, NothingDangles, ChaptersHang, hasChapter
<1>4. CASE a \in arcs \cup {None} /\ row = [arc |-> a, chapter |-> None, quest |-> None]
  BY <1>1, <1>4 DEF SceneRowFits
<1> QED
  BY <1>2, <1>3, <1>4 DEF validateSceneHierarchy

(* Nothing dangles at first.                                               *)
LEMMA OutlineInitInv == OutlineInit => OutlineInv
BY DEF OutlineInit, OutlineInv, OutlineTypeOK, NothingDangles, ChaptersHang, QuestsHang,
       ScenesHang, hasChapter, hasQuest, hasScene

-----------------------------------------------------------------------------
(* What each table keeps when a row is written or goes.                    *)

(* Chapters may be added or moved as long as none goes.                    *)
LEMMA ChapterWritten ==
  ASSUME OutlineInv, NEW c \in Chapters, NEW a \in arcs,
         chapters' = [chapters EXCEPT ![c] = a],
         UNCHANGED <<arcs, quests, scenes, lore, references>>
  PROVE  OutlineInv'
<1>1. a # NoRow /\ a \in Arcs
  BY OutlineAssumption DEF OutlineInv, OutlineTypeOK
<1>2. \A d \in Chapters : chapters'[d] = IF d = c THEN a ELSE chapters[d]
  BY DEF OutlineInv, OutlineTypeOK
<1>3. OutlineTypeOK'
  BY <1>1 DEF OutlineInv, OutlineTypeOK
<1>4. ChaptersHang' /\ QuestsHang' /\ ScenesHang'
  BY <1>1, <1>2
  DEF OutlineInv, NothingDangles, ChaptersHang, QuestsHang, ScenesHang, hasChapter, hasQuest,
      hasScene
<1> QED
  BY <1>3, <1>4 DEF OutlineInv, NothingDangles, hasScene

LEMMA ChapterGone ==
  ASSUME OutlineInv, NEW c \in Chapters, deleteChapter(c) PROVE OutlineInv'
<1>1. \A d \in Chapters : chapters'[d] = IF d = c THEN NoRow ELSE chapters[d]
  BY DEF OutlineInv, OutlineTypeOK, deleteChapter
<1>2. OutlineTypeOK'
  BY DEF OutlineInv, OutlineTypeOK, deleteChapter
<1>3. ChaptersHang' /\ QuestsHang' /\ ScenesHang'
  BY <1>1
  DEF OutlineInv, NothingDangles, ChaptersHang, QuestsHang, ScenesHang, hasChapter, hasQuest,
      hasScene, deleteChapter
<1> QED
  BY <1>2, <1>3 DEF OutlineInv, NothingDangles, hasScene, deleteChapter

LEMMA QuestWritten ==
  ASSUME OutlineInv, NEW q \in Quests, NEW row, QuestRowFits(row),
         quests' = [quests EXCEPT ![q] = row],
         UNCHANGED <<arcs, chapters, scenes, lore, references>>
  PROVE  OutlineInv'
<1>1. \A p \in Quests : quests'[p] = IF p = q THEN row ELSE quests[p]
  BY DEF OutlineInv, OutlineTypeOK
<1>2. OutlineTypeOK'
  BY DEF OutlineInv, OutlineTypeOK, QuestRowFits
<1>3. ChaptersHang' /\ QuestsHang' /\ ScenesHang'
  BY <1>1
  DEF OutlineInv, NothingDangles, ChaptersHang, QuestsHang, ScenesHang, hasChapter, hasQuest,
      hasScene, QuestRowFits
<1> QED
  BY <1>2, <1>3 DEF OutlineInv, NothingDangles, hasScene

LEMMA QuestGone ==
  ASSUME OutlineInv, NEW q \in Quests, deleteQuest(q) PROVE OutlineInv'
<1>1. \A p \in Quests : quests'[p] = IF p = q THEN NoRow ELSE quests[p]
  BY DEF OutlineInv, OutlineTypeOK, deleteQuest
<1>2. OutlineTypeOK'
  BY DEF OutlineInv, OutlineTypeOK, deleteQuest
<1>3. ChaptersHang' /\ QuestsHang' /\ ScenesHang'
  BY <1>1
  DEF OutlineInv, NothingDangles, ChaptersHang, QuestsHang, ScenesHang, hasChapter, hasQuest,
      hasScene, deleteQuest
<1> QED
  BY <1>2, <1>3 DEF OutlineInv, NothingDangles, hasScene, deleteQuest

(* A scene hangs on what there is.                                         *)
HangsOn(row) ==
  /\ row \in SceneRows /\ row # NoRow
  /\ row.arc # None => row.arc \in arcs
  /\ row.chapter # None => hasChapter(row.chapter)
  /\ row.quest # None => hasQuest(row.quest)

LEMMA SceneWritten ==
  ASSUME OutlineInv, NEW s \in Scenes, NEW row, HangsOn(row),
         scenes' = [scenes EXCEPT ![s] = row],
         UNCHANGED <<arcs, chapters, quests, lore>>,
         references' \in SUBSET (Scenes \X Lores),
         \A r \in references' : r \in references \/ (r[1] = s /\ r[2] \in lore)
  PROVE  OutlineInv'
<1>1. \A t \in Scenes : scenes'[t] = IF t = s THEN row ELSE scenes[t]
  BY DEF OutlineInv, OutlineTypeOK
<1>2. OutlineTypeOK'
  BY DEF OutlineInv, OutlineTypeOK, HangsOn
<1>3. ChaptersHang' /\ QuestsHang' /\ ScenesHang'
  BY <1>1
  DEF OutlineInv, NothingDangles, ChaptersHang, QuestsHang, ScenesHang, hasChapter, hasQuest,
      hasScene, HangsOn
<1>4. \A r \in references' : hasScene(r[1])' /\ r[2] \in lore'
  <2>1. \A r \in references' : r[1] \in Scenes
    OBVIOUS
  <2> QED
    BY <1>1, <2>1 DEF OutlineInv, NothingDangles, hasScene, HangsOn
<1> QED
  BY <1>2, <1>3, <1>4 DEF OutlineInv, NothingDangles

LEMMA TemplateApplied ==
  ASSUME OutlineInv, NEW a \in Arcs, NEW c \in Chapters, NEW q \in Quests, NEW s \in Scenes,
         NEW e \in BOOLEAN, applyTemplate(a, c, q, s, e)
  PROVE  OutlineInv'
<1> DEFINE quest == [arc |-> a, chapter |-> c]
           scene == [arc |-> a, chapter |-> c, quest |-> q]
<1>1. /\ quest \in QuestRows /\ scene \in SceneRows /\ a # NoRow
      /\ quest # NoRow /\ scene # NoRow
  BY OutlineAssumption DEF QuestRows, SceneRows
<1>2. /\ \A d \in Chapters : chapters'[d] = IF d = c THEN a ELSE chapters[d]
      /\ \A p \in Quests : quests'[p] = IF p = q THEN quest ELSE quests[p]
      /\ \A t \in Scenes : scenes'[t] = IF t = s THEN scene ELSE scenes[t]
      /\ arcs' = arcs \cup {a}
      /\ UNCHANGED <<lore, references>>
  BY DEF OutlineInv, OutlineTypeOK, applyTemplate
<1>3. OutlineTypeOK'
  BY <1>1 DEF OutlineInv, OutlineTypeOK, applyTemplate
<1>4. quest.arc = a /\ quest.chapter = c
      /\ scene.arc = a /\ scene.chapter = c /\ scene.quest = q
  OBVIOUS
<1> HIDE DEF quest, scene
<1>5. ChaptersHang'
  BY <1>1, <1>2 DEF OutlineInv, NothingDangles, ChaptersHang, hasChapter
<1>6. QuestsHang'
  BY <1>1, <1>2, <1>4 DEF OutlineInv, NothingDangles, QuestsHang, hasChapter, hasQuest
<1>7. ScenesHang'
  BY <1>1, <1>2, <1>4
  DEF OutlineInv, NothingDangles, ScenesHang, hasChapter, hasQuest, hasScene
<1>8. \A r \in references' : hasScene(r[1])' /\ r[2] \in lore'
  <2>1. \A r \in references : r[1] \in Scenes
    BY DEF OutlineInv, OutlineTypeOK
  <2> QED
    BY <1>1, <1>2, <2>1 DEF OutlineInv, NothingDangles, hasScene
<1> QED
  BY <1>3, <1>5, <1>6, <1>7, <1>8 DEF OutlineInv, NothingDangles

-----------------------------------------------------------------------------
(* How a scene is written: by validation, or by the graph editor, which    *)
(* sets the arc alone.                                                     *)
LEMMA SceneStepSplit ==
  ASSUME OutlineInv, SceneStep
  PROVE  \E s \in Scenes :
           /\ UNCHANGED <<arcs, chapters, quests, lore>>
           /\ references' \in SUBSET (Scenes \X Lores)
           /\ \A r \in references' : r \in references \/ (r[1] = s /\ r[2] \in lore)
           /\ \/ UNCHANGED scenes /\ hasScene(s)
              \/ \E row : SceneRowFits(row) /\ scenes' = [scenes EXCEPT ![s] = row]
              \/ \E a \in arcs : hasScene(s) /\ scenes' = [scenes EXCEPT ![s].arc = a]
<1> USE DEF OutlineInv, OutlineTypeOK
<1>1. ASSUME NEW s \in Scenes, NEW a \in Arcs \cup {None}, createScene(s, a)
      PROVE  SceneRowFits([arc |-> a, chapter |-> None, quest |-> None])
  <2>1. [arc |-> a, chapter |-> None, quest |-> None] \in SceneRows
    BY DEF SceneRows
  <2> QED
    BY <1>1, <2>1, OutlineAssumption DEF createScene, SceneRowFits
<1>2. ASSUME NEW s \in Scenes, NEW a \in Arcs \cup {None}, createScene(s, a) \/ updateScene(s, a)
      PROVE  /\ UNCHANGED <<arcs, chapters, quests, lore, references>>
             /\ \/ \E row : SceneRowFits(row) /\ scenes' = [scenes EXCEPT ![s] = row]
                \/ \E b \in arcs : hasScene(s) /\ scenes' = [scenes EXCEPT ![s].arc = b]
  BY <1>1, <1>2 DEF createScene, updateScene
<1>3. ASSUME NEW s \in Scenes, NEW a \in ArcAsked, NEW c \in ChapterAsked, NEW q \in QuestAsked,
             saveSceneDocument(s, a, c, q)
      PROVE  /\ UNCHANGED <<arcs, chapters, quests, lore, references>>
             /\ \E row : SceneRowFits(row) /\ scenes' = [scenes EXCEPT ![s] = row]
  <2>1. PICK row \in validateSceneHierarchy(asked(a, scenes[s].arc), asked(c, scenes[s].chapter),
                                            asked(q, scenes[s].quest)) :
               scenes' = [scenes EXCEPT ![s] = row]
    BY <1>3 DEF saveSceneDocument
  <2>2. SceneRowFits(row)
    BY SceneRowValidated
  <2> QED
    BY <1>3, <2>1, <2>2 DEF saveSceneDocument
<1>4. ASSUME NEW s \in Scenes, NEW a \in ArcAsked, NEW c \in ChapterAsked, NEW q \in QuestAsked,
             NEW targets \in SUBSET Lores, approveSceneCandidate(s, a, c, q, targets)
      PROVE  /\ UNCHANGED <<arcs, chapters, quests, lore>>
             /\ \E row : SceneRowFits(row) /\ scenes' = [scenes EXCEPT ![s] = row]
             /\ references' \in SUBSET (Scenes \X Lores)
             /\ \A r \in references' : r \in references \/ (r[1] = s /\ r[2] \in lore)
  <2>1. PICK row \in validateSceneHierarchy(a, c, q) : scenes' = [scenes EXCEPT ![s] = row]
    BY <1>4 DEF approveSceneCandidate
  <2>2. SceneRowFits(row)
    BY SceneRowValidated
  <2> QED
    BY <1>4, <2>1, <2>2 DEF approveSceneCandidate
<1>5. ASSUME NEW s \in Scenes, NEW targets \in SUBSET Lores, replaceSceneReferences(s, targets)
      PROVE  /\ UNCHANGED <<arcs, chapters, quests, lore, scenes>> /\ hasScene(s)
             /\ references' \in SUBSET (Scenes \X Lores)
             /\ \A r \in references' : r \in references \/ (r[1] = s /\ r[2] \in lore)
  BY <1>5 DEF replaceSceneReferences
<1>6. PICK s \in Scenes :
        \/ \E a \in Arcs \cup {None} : createScene(s, a) \/ updateScene(s, a)
        \/ \E a \in ArcAsked, c \in ChapterAsked, q \in QuestAsked :
             \/ saveSceneDocument(s, a, c, q)
             \/ \E targets \in SUBSET Lores : approveSceneCandidate(s, a, c, q, targets)
        \/ \E targets \in SUBSET Lores : replaceSceneReferences(s, targets)
  BY DEF SceneStep
<1> QED
  BY <1>2, <1>3, <1>4, <1>5, <1>6

(* The scene steps leave nothing dangling.                                 *)
LEMMA SceneStepKeeps ==
  ASSUME OutlineInv, SceneStep PROVE OutlineInv'
<1>1. PICK s \in Scenes :
           /\ UNCHANGED <<arcs, chapters, quests, lore>>
           /\ references' \in SUBSET (Scenes \X Lores)
           /\ \A r \in references' : r \in references \/ (r[1] = s /\ r[2] \in lore)
           /\ \/ UNCHANGED scenes /\ hasScene(s)
              \/ \E row : SceneRowFits(row) /\ scenes' = [scenes EXCEPT ![s] = row]
              \/ \E a \in arcs : hasScene(s) /\ scenes' = [scenes EXCEPT ![s].arc = a]
  BY SceneStepSplit
<1>2. ASSUME hasScene(s) PROVE HangsOn(scenes[s])
  BY <1>2 DEF OutlineInv, OutlineTypeOK, NothingDangles, ScenesHang, hasScene, HangsOn
<1>3. CASE UNCHANGED scenes /\ hasScene(s)
  <2>1. scenes' = [scenes EXCEPT ![s] = scenes[s]]
    BY <1>3 DEF OutlineInv, OutlineTypeOK
  <2> QED
    BY <1>1, <1>2, <1>3, <2>1, SceneWritten
<1>4. ASSUME NEW row, SceneRowFits(row), scenes' = [scenes EXCEPT ![s] = row]
      PROVE  OutlineInv'
  <2>1. HangsOn(row)
    BY <1>4 DEF SceneRowFits, HangsOn
  <2> QED
    BY <1>1, <1>4, <2>1, SceneWritten
<1>5. ASSUME NEW a \in arcs, hasScene(s), scenes' = [scenes EXCEPT ![s].arc = a]
      PROVE  OutlineInv'
  <2> DEFINE row == [scenes[s] EXCEPT !.arc = a]
  <2>1. scenes' = [scenes EXCEPT ![s] = row]
    BY <1>5 DEF OutlineInv, OutlineTypeOK
  <2>2. scenes[s] \in SceneRows
    BY <1>5 DEF OutlineInv, OutlineTypeOK, hasScene
  <2>3. row \in SceneRows
    BY <2>2 DEF OutlineInv, OutlineTypeOK, SceneRows
  <2>4. row.arc = a /\ row.chapter = scenes[s].chapter /\ row.quest = scenes[s].quest
    BY <2>2 DEF SceneRows
  <2>5. HangsOn(row)
    BY <1>2, <1>5, <2>3, <2>4, OutlineAssumption DEF HangsOn
  <2> QED
    BY <1>1, <2>1, <2>5, SceneWritten
<1> QED
  BY <1>1, <1>3, <1>4, <1>5

(* Every step of the outline leaves nothing dangling.                      *)
LEMMA OutlineStep == OutlineInv /\ [OutlineNext]_outlineVars => OutlineInv'
<1> SUFFICES ASSUME OutlineInv, [OutlineNext]_outlineVars PROVE OutlineInv'
  OBVIOUS
<1> USE DEF hasChapter, hasQuest, hasScene
<1>1. CASE UNCHANGED outlineVars
  BY <1>1
  DEF outlineVars, OutlineInv, OutlineTypeOK, NothingDangles, ChaptersHang, QuestsHang, ScenesHang
<1>2. ASSUME NEW a \in Arcs, createArc(a) PROVE OutlineInv'
  BY <1>2
  DEF createArc, OutlineInv, OutlineTypeOK, NothingDangles, ChaptersHang, QuestsHang, ScenesHang
<1>3. ASSUME NEW c \in Chapters, NEW a \in Arcs, createChapter(c, a) \/ updateChapter(c, a)
      PROVE  OutlineInv'
  BY <1>3, ChapterWritten DEF createChapter, updateChapter
<1>4. ASSUME NEW q \in Quests, NEW a, NEW c, createQuest(q, a, c) \/ updateQuest(q, a, c)
      PROVE  OutlineInv'
  <2>1. \E x, y : \E row \in validateQuestHierarchy(x, y) : quests' = [quests EXCEPT ![q] = row]
    BY <1>4 DEF createQuest, updateQuest
  <2> QED
    BY <1>4, <2>1, QuestRowValidated, QuestWritten DEF createQuest, updateQuest
<1>5. ASSUME NEW l \in Lores, createLoreEntry(l) \/ deleteLoreEntry(l) PROVE OutlineInv'
  BY <1>5
  DEF createLoreEntry, deleteLoreEntry, OutlineInv, OutlineTypeOK, NothingDangles, ChaptersHang,
      QuestsHang, ScenesHang
<1>6. CASE ChapterStep
  BY <1>3, <1>6, ChapterGone DEF ChapterStep
<1>7. CASE QuestStep
  BY <1>4, <1>7, QuestGone DEF QuestStep
<1>8. CASE SceneStep
  BY <1>8, SceneStepKeeps
<1> QED
  BY <1>1, <1>2, <1>5, <1>6, <1>7, <1>8, TemplateApplied DEF OutlineNext

(* The tables keep their types.                                            *)
THEOREM OutlineTypeCorrect == OutlineSpec => []OutlineTypeOK
<1>1. OutlineInv => OutlineTypeOK
  BY DEF OutlineInv
<1> QED
  BY <1>1, OutlineInitInv, OutlineStep, PTL DEF OutlineSpec

(* No row ever names a parent or a lore entry that is gone.                *)
THEOREM OutlineHoldsTogether == OutlineSpec => []NothingDangles
<1>1. OutlineInv => NothingDangles
  BY DEF OutlineInv
<1> QED
  BY <1>1, OutlineInitInv, OutlineStep, PTL DEF OutlineSpec

-----------------------------------------------------------------------------
(* What a step may do to a quest and to a scene.                           *)
QuestStays(q) == QuestAgrees(q) => QuestAgrees(q)' \/ ChapterMoved(quests[q].chapter)

SceneStays(s) == SceneAgrees(s) =>
  \/ SceneAgrees(s)' \/ ArcRewritten(s)
  \/ IF scenes[s].quest = None THEN ChapterMoved(scenes[s].chapter)
                               ELSE QuestMoved(scenes[s].quest)

(* Whoever adds or moves a chapter disturbs only what hangs on it.         *)
LEMMA ChapterWrittenMoves ==
  ASSUME OutlineInv, NEW c \in Chapters, NEW a \in arcs,
         chapters' = [chapters EXCEPT ![c] = a], UNCHANGED <<quests, scenes>>
  PROVE  /\ \A q \in Quests : QuestStays(q)
         /\ \A s \in Scenes : SceneStays(s)
<1>1. a # NoRow
  BY OutlineAssumption DEF OutlineInv, OutlineTypeOK
<1>2. \A d \in Chapters : chapters'[d] = IF d = c THEN a ELSE chapters[d]
  BY DEF OutlineInv, OutlineTypeOK
<1>3. \A q \in Quests : QuestStays(q)
  BY <1>1, <1>2
  DEF OutlineInv, NothingDangles, QuestsHang, hasChapter, hasQuest, QuestStays, QuestAgrees,
      ChapterMoved
<1>4. \A s \in Scenes : SceneStays(s)
  BY <1>1, <1>2
  DEF OutlineInv, NothingDangles, ScenesHang, hasChapter, hasScene, SceneStays, SceneAgrees,
      ChapterMoved
<1> QED
  BY <1>3, <1>4

(* Nothing hangs on a chapter that is deleted.                             *)
LEMMA ChapterGoneMoves ==
  ASSUME OutlineInv, NEW c \in Chapters, deleteChapter(c)
  PROVE  /\ \A q \in Quests : QuestStays(q)
         /\ \A s \in Scenes : SceneStays(s)
<1>1. \A d \in Chapters : chapters'[d] = IF d = c THEN NoRow ELSE chapters[d]
  BY DEF OutlineInv, OutlineTypeOK, deleteChapter
<1>2. \A q \in Quests : QuestStays(q)
  BY <1>1
  DEF OutlineInv, NothingDangles, QuestsHang, hasChapter, hasQuest, QuestStays, QuestAgrees,
      deleteChapter
<1>3. \A s \in Scenes : SceneStays(s)
  BY <1>1
  DEF OutlineInv, NothingDangles, ScenesHang, hasChapter, hasScene, SceneStays, SceneAgrees,
      deleteChapter
<1> QED
  BY <1>2, <1>3

(* A quest that is written agrees with its chapter; its scenes are moved.  *)
LEMMA QuestWrittenMoves ==
  ASSUME OutlineInv, NEW q \in Quests, NEW row, QuestRowFits(row),
         quests' = [quests EXCEPT ![q] = row], UNCHANGED <<chapters, scenes>>
  PROVE  /\ \A p \in Quests : QuestStays(p)
         /\ \A s \in Scenes : SceneStays(s)
<1>1. \A p \in Quests : quests'[p] = IF p = q THEN row ELSE quests[p]
  BY DEF OutlineInv, OutlineTypeOK
<1>2. \A p \in Quests : QuestStays(p)
  BY <1>1 DEF QuestRowFits, hasChapter, hasQuest, QuestStays, QuestAgrees
<1>3. \A s \in Scenes : SceneStays(s)
  BY <1>1
  DEF OutlineInv, NothingDangles, ScenesHang, hasQuest, hasScene, SceneStays, SceneAgrees,
      QuestMoved, QuestRowFits
<1> QED
  BY <1>2, <1>3

LEMMA QuestGoneMoves ==
  ASSUME OutlineInv, NEW q \in Quests, deleteQuest(q)
  PROVE  /\ \A p \in Quests : QuestStays(p)
         /\ \A s \in Scenes : SceneStays(s)
<1>1. \A p \in Quests : quests'[p] = IF p = q THEN NoRow ELSE quests[p]
  BY DEF OutlineInv, OutlineTypeOK, deleteQuest
<1>2. \A p \in Quests : QuestStays(p)
  BY <1>1 DEF hasQuest, QuestStays, QuestAgrees, deleteQuest
<1>3. \A s \in Scenes : SceneStays(s)
  BY <1>1
  DEF OutlineInv, NothingDangles, ScenesHang, hasQuest, hasScene, SceneStays, SceneAgrees,
      deleteQuest
<1> QED
  BY <1>2, <1>3

(* A scene that is validated agrees; the graph editor rewrites an arc.     *)
LEMMA SceneStepMoves ==
  ASSUME OutlineInv, SceneStep
  PROVE  /\ \A q \in Quests : QuestStays(q)
         /\ \A t \in Scenes : SceneStays(t)
<1>1. PICK s \in Scenes :
           /\ UNCHANGED <<arcs, chapters, quests, lore>>
           /\ \/ UNCHANGED scenes /\ hasScene(s)
              \/ \E row : SceneRowFits(row) /\ scenes' = [scenes EXCEPT ![s] = row]
              \/ \E a \in arcs : hasScene(s) /\ scenes' = [scenes EXCEPT ![s].arc = a]
  BY SceneStepSplit
<1>2. \A q \in Quests : QuestStays(q)
  BY <1>1 DEF QuestStays, QuestAgrees, hasQuest
<1>3. CASE UNCHANGED scenes
  <2>1. chapters' = chapters /\ quests' = quests /\ scenes' = scenes
    BY <1>1, <1>3
  <2> QED
    BY <1>2, <2>1 DEF SceneStays, SceneAgrees, hasScene
<1>4. ASSUME NEW row, SceneRowFits(row), scenes' = [scenes EXCEPT ![s] = row]
      PROVE  \A t \in Scenes : SceneStays(t)
  <2>1. \A t \in Scenes : scenes'[t] = IF t = s THEN row ELSE scenes[t]
    BY <1>4 DEF OutlineInv, OutlineTypeOK
  <2> QED
    BY <1>1, <1>4, <2>1 DEF SceneRowFits, SceneStays, SceneAgrees, hasScene
<1>5. ASSUME NEW a \in arcs, hasScene(s), scenes' = [scenes EXCEPT ![s].arc = a]
      PROVE  \A t \in Scenes : SceneStays(t)
  <2>1. scenes[s] \in SceneRows
    BY <1>5 DEF OutlineInv, OutlineTypeOK, hasScene
  <2>2. scenes'[s] = [scenes[s] EXCEPT !.arc = a]
    BY <1>5 DEF OutlineInv, OutlineTypeOK
  <2>3. scenes'[s].arc = a /\ a \in Arcs
    BY <2>1, <2>2 DEF SceneRows, OutlineInv, OutlineTypeOK
  <2>4. ArcRewritten(s)
    BY <1>5, <2>3 DEF ArcRewritten
  <2>5. \A t \in Scenes : t # s => scenes'[t] = scenes[t]
    BY <1>5 DEF OutlineInv, OutlineTypeOK
  <2> QED
    BY <1>1, <2>4, <2>5 DEF SceneStays, SceneAgrees, hasScene
<1> QED
  BY <1>1, <1>2, <1>3, <1>4, <1>5

(* A template touches no row there is.                                     *)
LEMMA TemplateMoves ==
  ASSUME OutlineInv, NEW a \in Arcs, NEW c \in Chapters, NEW q \in Quests, NEW s \in Scenes,
         NEW e \in BOOLEAN, applyTemplate(a, c, q, s, e)
  PROVE  /\ \A p \in Quests : QuestStays(p)
         /\ \A t \in Scenes : SceneStays(t)
<1> DEFINE quest == [arc |-> a, chapter |-> c]
           scene == [arc |-> a, chapter |-> c, quest |-> q]
<1>1. /\ \A d \in Chapters : chapters'[d] = IF d = c THEN a ELSE chapters[d]
      /\ \A p \in Quests : quests'[p] = IF p = q THEN quest ELSE quests[p]
      /\ \A t \in Scenes : scenes'[t] = IF t = s THEN scene ELSE scenes[t]
      /\ ~hasChapter(c) /\ ~hasQuest(q) /\ ~hasScene(s)
  BY DEF OutlineInv, OutlineTypeOK, applyTemplate
<1>2. /\ quest.arc = a /\ quest.chapter = c
      /\ scene.arc = a /\ scene.chapter = c /\ scene.quest = q
      /\ q # None
  BY OutlineAssumption
<1> HIDE DEF quest, scene
<1>3. \A p \in Quests : QuestStays(p)
  <2> TAKE p \in Quests
  <2>1. CASE p = q
    BY <1>1, <1>2, <2>1 DEF QuestStays, QuestAgrees, hasQuest
  <2>2. CASE p # q
    BY <1>1, <2>2
    DEF QuestStays, QuestAgrees, hasQuest, hasChapter, OutlineInv, NothingDangles, QuestsHang
  <2> QED
    BY <2>1, <2>2
<1>4. \A t \in Scenes : SceneStays(t)
  <2> TAKE t \in Scenes
  <2>1. CASE t = s
    BY <1>1, <1>2, <2>1 DEF SceneStays, SceneAgrees, hasScene
  <2>2. CASE t # s
    BY <1>1, <2>2
    DEF SceneStays, SceneAgrees, hasScene, hasQuest, hasChapter, OutlineInv, NothingDangles,
        ScenesHang
  <2> QED
    BY <2>1, <2>2
<1> QED
  BY <1>3, <1>4

(* Only moving a chapter, moving a quest and rewriting the arc of a scene  *)
(* in the graph editor let rows disagree.                                  *)
THEOREM OutlineComesApartOnlyByMoves == OutlineSpec => OnlyMovesDisagree
<1>1. OutlineInv /\ [OutlineNext]_outlineVars
      => [/\ \A q \in Quests : QuestAgrees(q) => QuestAgrees(q)' \/ ChapterMoved(quests[q].chapter)
          /\ \A s \in Scenes : SceneAgrees(s) =>
               \/ SceneAgrees(s)' \/ ArcRewritten(s)
               \/ IF scenes[s].quest = None THEN ChapterMoved(scenes[s].chapter)
                                            ELSE QuestMoved(scenes[s].quest)]_outlineVars
  <2> SUFFICES ASSUME OutlineInv, OutlineNext
               PROVE  (\A q \in Quests : QuestStays(q)) /\ (\A s \in Scenes : SceneStays(s))
    BY DEF QuestStays, SceneStays
  <2>1. CASE UNCHANGED <<chapters, quests, scenes>>
    BY <2>1 DEF QuestStays, QuestAgrees, SceneStays, SceneAgrees, hasQuest, hasScene
  <2>2. ASSUME NEW c \in Chapters, NEW a \in Arcs, createChapter(c, a) \/ updateChapter(c, a)
        PROVE  (\A q \in Quests : QuestStays(q)) /\ (\A s \in Scenes : SceneStays(s))
    BY <2>2, ChapterWrittenMoves DEF createChapter, updateChapter
  <2>3. ASSUME NEW q \in Quests, NEW a, NEW c, createQuest(q, a, c) \/ updateQuest(q, a, c)
        PROVE  (\A p \in Quests : QuestStays(p)) /\ (\A s \in Scenes : SceneStays(s))
    <3>1. \E x, y : \E row \in validateQuestHierarchy(x, y) : quests' = [quests EXCEPT ![q] = row]
      BY <2>3 DEF createQuest, updateQuest
    <3>2. UNCHANGED <<chapters, scenes>>
      BY <2>3 DEF createQuest, updateQuest
    <3> QED
      BY <3>1, <3>2, QuestRowValidated, QuestWrittenMoves
  <2>4. CASE ChapterStep
    BY <2>2, <2>4, ChapterGoneMoves DEF ChapterStep
  <2>5. CASE QuestStep
    BY <2>3, <2>5, QuestGoneMoves DEF QuestStep
  <2> QED
    BY <2>1, <2>4, <2>5, SceneStepMoves, TemplateMoves
    DEF OutlineNext, createArc, createLoreEntry, deleteLoreEntry
<1> QED
  BY <1>1, OutlineInitInv, OutlineStep, PTL DEF OutlineSpec, OnlyMovesDisagree
=============================================================================
