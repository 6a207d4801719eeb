-------------------------- MODULE NarrativeOutline --------------------------
(***************************************************************************)
(* The outline of a story world: arcs hold chapters, chapters hold quests, *)
(* quests hold scenes, and a scene may hang directly on a chapter, on an   *)
(* arc or on nothing; scenes refer to lore entries.  A parent is a column  *)
(* of the child's row, and a scene's row repeats the columns of its quest, *)
(* so every operation must keep the rows in step.  Three writers share the *)
(* rows: the narrative use cases, the graph editor of the core use cases   *)
(* and the approval of scene candidates.  Each handler is one transaction. *)
(***************************************************************************)
EXTENDS Naturals

CONSTANTS Arcs, Chapters, Quests, Scenes, Lores,   \* ids
          NoRow,     \* there is no such row
          None,      \* an empty column
          Keep       \* a request that does not name the column

VARIABLES arcs,        \* the arcs there are
          chapters,    \* chapters[c]: its arc, or NoRow
          quests,      \* quests[q]: its arc and chapter, or NoRow
          scenes,      \* scenes[s]: its arc, chapter and quest, or NoRow
          lore,        \* the lore entries there are
          references   \* <<scene, lore entry>>

outlineVars == <<arcs, chapters, quests, scenes, lore, references>>

hasChapter(c) == c \in Chapters /\ chapters[c] # NoRow
hasQuest(q) == q \in Quests /\ quests[q] # NoRow
hasScene(s) == scenes[s] # NoRow

QuestRows == [arc : Arcs, chapter : Chapters \cup {None}]
SceneRows == [arc : Arcs \cup {None}, chapter : Chapters \cup {None},
              quest : Quests \cup {None}]

ASSUME OutlineAssumption ==
  /\ None \notin Arcs \cup Chapters \cup Quests
  /\ Keep \notin Arcs \cup Chapters \cup Quests \cup {None}
  /\ NoRow \notin Arcs \cup QuestRows \cup SceneRows

OutlineInit ==
  /\ arcs = {}
  /\ chapters = [c \in Chapters |-> NoRow]
  /\ quests = [q \in Quests |-> NoRow]
  /\ scenes = [s \in Scenes |-> NoRow]
  /\ lore = {}
  /\ references = {}

-----------------------------------------------------------------------------
(* What a request asks for: the column it names, or the one the row has. *)
asked(column, existing) == IF column = Keep THEN existing ELSE column

(* The row validateQuestHierarchy allows, if any: a chapter decides the arc. *)
validateQuestHierarchy(arc, chapter) ==
  {row \in QuestRows :
     \/ /\ hasChapter(chapter)
        /\ arc \in {None, chapters[chapter]}
        /\ row = [arc |-> chapters[chapter], chapter |-> chapter]
     \/ /\ chapter = None
        /\ arc \in arcs
        /\ row = [arc |-> arc, chapter |-> None]}

(* Mutant: a scene keeps the chapter it asks for, not its quest's. *)
SceneKeepsAsked(arc, chapter, quest) ==
  {row \in SceneRows :
     \/ /\ hasQuest(quest)
        /\ arc \in {None, quests[quest].arc}
        /\ row = [arc |-> quests[quest].arc, chapter |-> chapter, quest |-> quest]
     \/ /\ quest = None
        /\ hasChapter(chapter)
        /\ arc \in {None, chapters[chapter]}
        /\ row = [arc |-> chapters[chapter], chapter |-> chapter, quest |-> None]
     \/ /\ quest = None /\ chapter = None
        /\ arc \in arcs \cup {None}
        /\ row = [arc |-> arc, chapter |-> None, quest |-> None]}

(* The row validateSceneHierarchy allows, if any: a quest decides the arc and
   the chapter, a chapter the arc. *)
validateSceneHierarchy(arc, chapter, quest) ==
  {row \in SceneRows :
     \/ /\ hasQuest(quest)
        /\ chapter = None \/ quests[quest].chapter \in {None, chapter}
        /\ arc \in {None, quests[quest].arc}
        /\ row = [arc |-> quests[quest].arc, chapter |-> quests[quest].chapter,
                  quest |-> quest]
     \/ /\ quest = None
        /\ hasChapter(chapter)
        /\ arc \in {None, chapters[chapter]}
        /\ row = [arc |-> chapters[chapter], chapter |-> chapter, quest |-> None]
     \/ /\ quest = None /\ chapter = None
        /\ arc \in arcs \cup {None}
        /\ row = [arc |-> arc, chapter |-> None, quest |-> None]}

-----------------------------------------------------------------------------
createArc(a) ==
  /\ a \notin arcs
  /\ arcs' = arcs \cup {a}
  /\ UNCHANGED <<chapters, quests, scenes, lore, references>>

createChapter(c, a) ==
  /\ a \in arcs /\ ~hasChapter(c)
  /\ chapters' = [chapters EXCEPT ![c] = a]
  /\ UNCHANGED <<arcs, quests, scenes, lore, references>>

(* The chapter moves alone: its quests and scenes keep the arc they had. *)
updateChapter(c, a) ==
  /\ hasChapter(c) /\ a \in arcs
  /\ chapters' = [chapters EXCEPT ![c] = a]
  /\ UNCHANGED <<arcs, quests, scenes, lore, references>>

(* Mutant: the scenes that hang on the chapter are not counted. *)
DeleteChapterOverScenes(c) ==
  /\ hasChapter(c)
  /\ \A q \in Quests : hasQuest(q) => quests[q].chapter # c
  /\ chapters' = [chapters EXCEPT ![c] = NoRow]
  /\ UNCHANGED <<arcs, quests, scenes, lore, references>>

deleteChapter(c) ==
  /\ hasChapter(c)
  /\ \A q \in Quests : hasQuest(q) => quests[q].chapter # c
  /\ \A s \in Scenes : hasScene(s) => scenes[s].chapter # c
  /\ chapters' = [chapters EXCEPT ![c] = NoRow]
  /\ UNCHANGED <<arcs, quests, scenes, lore, references>>

createQuest(q, arc, chapter) ==
  /\ ~hasQuest(q)
  /\ \E row \in validateQuestHierarchy(arc, chapter) :
       quests' = [quests EXCEPT ![q] = row]
  /\ UNCHANGED <<arcs, chapters, scenes, lore, references>>

(* The quest moves alone: its scenes keep the columns they had. *)
updateQuest(q, arc, chapter) ==
  /\ hasQuest(q)
  /\ \E row \in validateQuestHierarchy(asked(arc, quests[q].arc),
                                       asked(chapter, quests[q].chapter)) :
       quests' = [quests EXCEPT ![q] = row]
  /\ UNCHANGED <<arcs, chapters, scenes, lore, references>>

deleteQuest(q) ==
  /\ hasQuest(q)
  /\ \A s \in Scenes : hasScene(s) => scenes[s].quest # q
  /\ quests' = [quests EXCEPT ![q] = NoRow]
  /\ UNCHANGED <<arcs, chapters, scenes, lore, references>>

-----------------------------------------------------------------------------
(* The graph editor knows scenes by their arc alone: an update rewrites the arc
   and leaves the chapter and the quest as they are. *)
createScene(s, arc) ==
  /\ ~hasScene(s) /\ arc \in arcs \cup {None}
  /\ scenes' = [scenes EXCEPT ![s] = [arc |-> arc, chapter |-> None, quest |-> None]]
  /\ UNCHANGED <<arcs, chapters, quests, lore, references>>

updateScene(s, arc) ==
  /\ hasScene(s) /\ arc \in arcs
  /\ scenes' = [scenes EXCEPT ![s].arc = arc]
  /\ UNCHANGED <<arcs, chapters, quests, lore, references>>

saveSceneDocument(s, arc, chapter, quest) ==
  /\ hasScene(s)
  /\ \E row \in validateSceneHierarchy(asked(arc, scenes[s].arc),
                                       asked(chapter, scenes[s].chapter),
                                       asked(quest, scenes[s].quest)) :
       scenes' = [scenes EXCEPT ![s] = row]
  /\ UNCHANGED <<arcs, chapters, quests, lore, references>>

(* An approved candidate writes its scene, new or not, and its references
   when it has any. *)
approveSceneCandidate(s, arc, chapter, quest, targets) ==
  /\ targets \subseteq lore
  /\ \E row \in validateSceneHierarchy(arc, chapter, quest) :
       scenes' = [scenes EXCEPT ![s] = row]
  /\ references' = IF targets = {} THEN references
                   ELSE {r \in references : r[1] # s} \cup ({s} \X targets)
  /\ UNCHANGED <<arcs, chapters, quests, lore>>

replaceSceneReferences(s, targets) ==
  /\ hasScene(s) /\ targets \subseteq lore
  /\ references' = {r \in references : r[1] # s} \cup ({s} \X targets)
  /\ UNCHANGED <<arcs, chapters, quests, scenes, lore>>

createLoreEntry(l) ==
  /\ l \notin lore
  /\ lore' = lore \cup {l}
  /\ UNCHANGED <<arcs, chapters, quests, scenes, references>>

deleteLoreEntry(l) ==
  /\ l \in lore
  /\ \A r \in references : r[2] # l
  /\ lore' = lore \ {l}
  /\ UNCHANGED <<arcs, chapters, quests, scenes, references>>

(* A template adds a whole branch under fresh ids, "replace_empty" only to a
   world without arcs and loose scenes. *)
applyTemplate(a, c, q, s, replaceEmpty) ==
  /\ a \notin arcs /\ ~hasChapter(c) /\ ~hasQuest(q) /\ ~hasScene(s)
  /\ replaceEmpty => arcs = {} /\ \A t \in Scenes : ~hasScene(t)
  /\ arcs' = arcs \cup {a}
  /\ chapters' = [chapters EXCEPT ![c] = a]
  /\ quests' = [quests EXCEPT ![q] = [arc |-> a, chapter |-> c]]
  /\ scenes' = [scenes EXCEPT ![s] = [arc |-> a, chapter |-> c, quest |-> q]]
  /\ UNCHANGED <<lore, references>>

-----------------------------------------------------------------------------
ArcAsked == Arcs \cup {None, Keep}
ChapterAsked == Chapters \cup {None, Keep}
QuestAsked == Quests \cup {None, Keep}

ChapterStep == \E c \in Chapters :
  \/ \E a \in Arcs : createChapter(c, a) \/ updateChapter(c, a)
  \/ deleteChapter(c)

QuestStep == \E q \in Quests :
  \/ \E a \in ArcAsked, c \in ChapterAsked :
       \/ a # Keep /\ c # Keep /\ createQuest(q, a, c)
       \/ updateQuest(q, a, c)
  \/ deleteQuest(q)

SceneStep == \E s \in Scenes :
  \/ \E a \in Arcs \cup {None} : createScene(s, a) \/ updateScene(s, a)
  \/ \E a \in ArcAsked, c \in ChapterAsked, q \in QuestAsked :
       \/ saveSceneDocument(s, a, c, q)
       \/ /\ Keep \notin {a, c, q}
          /\ \E targets \in SUBSET Lores : approveSceneCandidate(s, a, c, q, targets)
  \/ \E targets \in SUBSET Lores : replaceSceneReferences(s, targets)

OutlineNext ==
  \/ \E a \in Arcs : createArc(a)
  \/ ChapterStep
  \/ QuestStep
  \/ SceneStep
  \/ \E l \in Lores : createLoreEntry(l) \/ deleteLoreEntry(l)
  \/ \E a \in Arcs, c \in Chapters, q \in Quests, s \in Scenes, e \in BOOLEAN :
       applyTemplate(a, c, q, s, e)

OutlineSpec == OutlineInit /\ [][OutlineNext]_outlineVars

-----------------------------------------------------------------------------
(* Types. *)
OutlineTypeOK ==
  /\ arcs \subseteq Arcs
  /\ chapters \in [Chapters -> Arcs \cup {NoRow}]
  /\ quests \in [Quests -> QuestRows \cup {NoRow}]
  /\ scenes \in [Scenes -> SceneRows \cup {NoRow}]
  /\ lore \subseteq Lores
  /\ references \subseteq Scenes \X Lores

ChaptersHang == \A c \in Chapters : hasChapter(c) => chapters[c] \in arcs

QuestsHang == \A q \in Quests : hasQuest(q) =>
  /\ quests[q].arc \in arcs
  /\ quests[q].chapter # None => hasChapter(quests[q].chapter)

ScenesHang == \A s \in Scenes : hasScene(s) =>
  /\ scenes[s].arc # None => scenes[s].arc \in arcs
  /\ scenes[s].chapter # None => hasChapter(scenes[s].chapter)
  /\ scenes[s].quest # None => hasQuest(scenes[s].quest)

(* No row names a parent or a lore entry that is gone: no foreign key guards the
   chapter and quest columns of a scene or the target of a reference, so it is
   the counts in the delete handlers and the validation in every writer that
   must add up, also after a chapter or a quest has been moved under its scenes. *)
NothingDangles ==
  /\ ChaptersHang
  /\ QuestsHang
  /\ ScenesHang
  /\ \A r \in references : hasScene(r[1]) /\ r[2] \in lore

(* A scene's columns repeat those of the rows it hangs on. *)
SceneAgrees(s) == hasScene(s) =>
  /\ scenes[s].quest # None =>
       /\ scenes[s].arc = quests[scenes[s].quest].arc
       /\ scenes[s].chapter = quests[scenes[s].quest].chapter
  /\ (scenes[s].quest = None /\ scenes[s].chapter # None) =>
       scenes[s].arc = chapters[scenes[s].chapter]

QuestAgrees(q) ==
  (hasQuest(q) /\ quests[q].chapter # None) => quests[q].arc = chapters[quests[q].chapter]

(* The graph editor gave the scene another arc; any step that changes nothing
   but the arc of one scene is taken for that. *)
ArcRewritten(s) ==
  /\ hasScene(s)
  /\ scenes' = [scenes EXCEPT ![s].arc = scenes'[s].arc]
  /\ scenes'[s].arc \in Arcs

(* A chapter or a quest that stays is given another parent. *)
ChapterMoved(c) == hasChapter(c) /\ chapters'[c] \notin {chapters[c], NoRow}

QuestMoved(q) == hasQuest(q) /\ quests'[q] \notin {quests[q], NoRow}

(* The outline comes apart only in the three known places: a chapter moved above
   its quests and scenes, a quest moved above its scenes, a scene given another
   arc by the graph editor.  Saving a document, approving a candidate, creating
   and deleting never leave a row that disagrees with the rows it hangs on. *)
OnlyMovesDisagree ==
  [][/\ \A q \in Quests : QuestAgrees(q) => QuestAgrees(q)' \/ ChapterMoved(quests[q].chapter)
     /\ \A s \in Scenes : SceneAgrees(s) =>
          \/ SceneAgrees(s)' \/ ArcRewritten(s)
          \/ IF scenes[s].quest = None THEN ChapterMoved(scenes[s].chapter)
                                       ELSE QuestMoved(scenes[s].quest)]_outlineVars
==============================================================================
