----------------------------- MODULE SceneEditor -----------------------------
(***************************************************************************)
(* The scene editor of the narrative workbench: the stores of a browser    *)
(* tab, its autosave, navigation guard and conflict bar, against the rows  *)
(* of the scene documents and the revision of the world.                   *)
(*                                                                         *)
(* A document is the sequence of its editions, and its revision is their   *)
(* number.  An edition remembers the text it was written from.  A text is  *)
(* the list of a scene's blocks, here a number: 0 at first, a new one with *)
(* every edit, and Rewritten for what approved candidates bring.  (The     *)
(* title and the rendered body are left out: the canon page writes them    *)
(* beside the editor, without a revision.)  The answers to a tab's calls   *)
(* arrive late, in any order, or not at all.                               *)
(***************************************************************************)
EXTENDS Naturals, Sequences, FiniteSets

CONSTANTS
  Tabs,        \* browser tabs that edit the world
  Documents,   \* scenes
  NoDocument,  \* no scene
  NoSave,      \* no idempotency key
  Kept,        \* origin of a draft that was kept over a conflict
  MaxWorld,    \* bound: revision of the world
  MaxActs,     \* bound: edits, choices of another scene, fetches asked for
  MaxCalls     \* bound: calls of a tab in flight, besides its load

ASSUME EditorAssumption ==
  /\ NoDocument \notin Documents /\ Kept \notin Nat
  /\ MaxWorld \in Nat \ {0} /\ MaxActs \in Nat /\ MaxCalls \in Nat
  /\ NoSave \notin Nat

VARIABLES
  editions,   \* document -> its editions
  worldAt,    \* revision of the world
  served,     \* idempotency records: the saves that were made
  tab,        \* tab -> its stores
  fetches,    \* tab -> its documents on the way
  puts,       \* tab -> its saves on the way (PUT requests)
  texts,      \* number of texts typed
  moves       \* number of other scenes chosen and fetches asked for

server == <<editions, worldAt, served>>
counted == <<texts, moves>>
editorVars == <<server, tab, fetches, puts, counted>>

Revisions == 0..MaxWorld
Rewritten == MaxActs + 1
Texts == 0..Rewritten
Shown == Documents \cup {NoDocument}

(* As many idempotency keys as can be in use; a fresh one stands for a     *)
(* random UUID.                                                            *)
SaveKeys == 1..(MaxWorld + MaxCalls + 1)

Edition == [text : Texts, from : Texts \cup {Kept}]

(* `active' is the scene chosen and `next' the one the guard's dialogue    *)
(* asks about; `scene', `revision' and `base' are the document at hand,    *)
(* `text' is its draft; `known' is the world's revision as the tab knows   *)
(* it.  `kept' is history: a draft was kept over a conflict since the      *)
(* document arrived.                                                       *)
Stores == [active : Shown, next : Shown, scene : Shown,
           revision : Revisions, base : Texts, text : Texts,
           dirty : BOOLEAN, conflict : BOOLEAN, saving : BOOLEAN,
           known : 1..MaxWorld, key : SaveKeys \cup {NoSave}, kept : BOOLEAN]

Request == [scene : Documents, revision : Revisions, text : Texts,
            world : 1..MaxWorld, key : SaveKeys]

(* `read' and `made' are the revisions an answer carries, 0 before it.     *)
Fetch == [why : {"load", "keep", "reload", "merged"}, scene : Documents, read : Revisions]
Save == [by : {"autosave", "guard", "keep"}, request : Request,
         from : Texts \cup {Kept}, made : Revisions, refused : BOOLEAN]
Record == [request : Request, made : Revisions]

EditorInit ==
  /\ editions = [d \in Documents |-> <<[text |-> 0, from |-> 0]>>]
  /\ worldAt = 1 /\ served = {}
  /\ tab = [e \in Tabs |->
       [active |-> NoDocument, next |-> NoDocument, scene |-> NoDocument,
        revision |-> 0, base |-> 0, text |-> 0,
        dirty |-> FALSE, conflict |-> FALSE, saving |-> FALSE,
        known |-> 1, key |-> NoSave, kept |-> FALSE]]
  /\ fetches = [e \in Tabs |-> {}]
  /\ puts = [e \in Tabs |-> {}]
  /\ texts = 0 /\ moves = 0

-----------------------------------------------------------------------------
(* The server; putSceneDocument is its saveSceneDocument.                  *)

latest(d) == Len(editions[d])

(* A text becomes the next edition of a document.                          *)
publish(d, text, from) ==
  /\ worldAt < MaxWorld
  /\ editions' = [editions EXCEPT ![d] = Append(@, [text |-> text, from |-> from])]
  /\ worldAt' = worldAt + 1

(* Mutant: only the revision of the world is compared.                     *)
WorldIsStale(r) == r.world # worldAt

(* A save expects the revision of its scene and that of the world.         *)
isStale(r) == r.revision # latest(r.scene) \/ r.world # worldAt

(* What was made of an earlier request under the same key.                 *)
earlier(r) == {s \in served : s.request.key = r.key}

answers(e, c, answer) == puts' = [puts EXCEPT ![e] = (@ \ {c}) \cup {answer}]

putSceneDocument(e, c) ==
  LET r == c.request
      made == latest(r.scene) + 1
  IN
  /\ c \in puts[e] /\ c.made = 0 /\ ~c.refused
  /\ \/ /\ earlier(r) = {} /\ ~isStale(r)
        /\ publish(r.scene, r.text, c.from)
        /\ served' = served \cup {[request |-> r, made |-> made]}
        /\ answers(e, c, [c EXCEPT !.made = made])
     \/ /\ \/ earlier(r) = {} /\ isStale(r)
           \/ \E s \in earlier(r) : s.request # r
        /\ answers(e, c, [c EXCEPT !.refused = TRUE])
        /\ UNCHANGED server
     \/ \E s \in earlier(r) :
          /\ s.request = r
          /\ answers(e, c, [c EXCEPT !.made = s.made])
          /\ UNCHANGED server
  /\ UNCHANGED <<tab, fetches, counted>>

getSceneDocument(e, f) ==
  /\ f \in fetches[e] /\ f.read = 0
  /\ fetches' = [fetches EXCEPT ![e] =
                   (@ \ {f}) \cup {[f EXCEPT !.read = latest(f.scene)]}]
  /\ UNCHANGED <<server, tab, puts, counted>>

(* A candidate that rewrites the scene is approved.                        *)
approveRewrite(d) ==
  /\ publish(d, Rewritten, editions[d][latest(d)].text)
  /\ UNCHANGED <<served, tab, fetches, puts, counted>>

(* Any other write to the canon.                                           *)
writeCanon ==
  /\ worldAt < MaxWorld
  /\ worldAt' = worldAt + 1
  /\ UNCHANGED <<editions, served, tab, fetches, puts, counted>>

-----------------------------------------------------------------------------
(* The calls of a tab.                                                     *)

(* The bound on the author.                                                *)
mayAct == texts + moves < MaxActs

isLoad(f) == f.why = "load"

roomFor(e) ==
  Cardinality({f \in fetches[e] : ~isLoad(f)}) + Cardinality(puts[e]) < MaxCalls

fetchOf(why, d) == [why |-> why, scene |-> d, read |-> 0]

(* The stores t with the scene d chosen, when the fetches `others' are on  *)
(* the way: the page's watcher loads another scene, and drops the load     *)
(* before it.                                                              *)
selectScene(e, t, d, others) ==
  /\ tab' = [tab EXCEPT ![e] = [t EXCEPT !.active = d]]
  /\ \/ /\ d # tab[e].active
        /\ fetches' = [fetches EXCEPT ![e] =
                         {f \in others : ~isLoad(f)} \cup {fetchOf("load", d)}]
     \/ /\ d = tab[e].active
        /\ fetches' = [fetches EXCEPT ![e] = others]

usedKeys ==
  {s.request.key : s \in served} \cup {tab[e].key : e \in Tabs}
    \cup UNION {{c.request.key : c \in puts[e]} : e \in Tabs}

isFresh(k) == k \notin usedKeys /\ \A j \in 1..(k - 1) : j \in usedKeys

saveOf(by, t, k) ==
  [by |-> by, from |-> IF t.kept THEN Kept ELSE t.base, made |-> 0, refused |-> FALSE,
   request |-> [scene |-> t.scene, revision |-> t.revision, text |-> t.text,
                world |-> t.known, key |-> k]]

(* saveDocument, called with the stores t.                                 *)
saveDocument(e, by, t) ==
  \E k \in SaveKeys :
    /\ t.key = k \/ (t.key = NoSave /\ isFresh(k))
    /\ puts' = [puts EXCEPT ![e] = @ \cup {saveOf(by, t, k)}]
    /\ tab' = [tab EXCEPT ![e] = [t EXCEPT !.saving = TRUE, !.key = k]]

isSaving(e, by) == \E c \in puts[e] : c.by = by

triggerAutosave(e) ==
  /\ tab[e].dirty /\ ~isSaving(e, "autosave") /\ ~tab[e].saving
  /\ ~tab[e].conflict /\ tab[e].scene # NoDocument /\ roomFor(e)
  /\ saveDocument(e, "autosave", tab[e])
  /\ UNCHANGED <<server, fetches, counted>>

-----------------------------------------------------------------------------
(* The author.                                                             *)

updateBlock(e) ==
  /\ tab[e].scene # NoDocument /\ mayAct
  /\ texts' = texts + 1
  /\ tab' = [tab EXCEPT ![e].text = texts + 1, ![e].dirty = TRUE, ![e].key = NoSave]
  /\ UNCHANGED <<server, fetches, puts, moves>>

(* The page opens on the scene of its address, or on the first.            *)
onMounted(e, d) ==
  /\ tab[e].active = NoDocument
  /\ selectScene(e, tab[e], d, fetches[e])
  /\ UNCHANGED <<server, puts, counted>>

(* Another scene is asked for.                                             *)
chooses(e, d) ==
  /\ tab[e].active \notin {d, NoDocument} /\ mayAct
  /\ moves' = moves + 1
  /\ UNCHANGED <<server, puts, texts>>

(* Over a dirty draft the guard's dialogue opens.                          *)
requestSceneChange(e, d) ==
  /\ chooses(e, d) /\ tab[e].next = NoDocument
  /\ \/ ~tab[e].dirty /\ selectScene(e, tab[e], d, fetches[e])
     \/ /\ tab[e].dirty
        /\ tab' = [tab EXCEPT ![e].next = d]
        /\ UNCHANGED fetches

(* A new scene, a template or the browser's history go past the guard.     *)
openScene(e, d) == chooses(e, d) /\ selectScene(e, tab[e], d, fetches[e])

(* The answers to the dialogue.                                            *)
handleSaveAndProceed(e) ==
  /\ tab[e].next # NoDocument /\ tab[e].scene # NoDocument
  /\ ~isSaving(e, "guard") /\ roomFor(e)
  /\ saveDocument(e, "guard", tab[e])
  /\ UNCHANGED <<server, fetches, counted>>

handleDiscardAndProceed(e) ==
  /\ tab[e].next # NoDocument
  /\ selectScene(e, [tab[e] EXCEPT !.text = tab[e].base, !.dirty = FALSE,
                       !.conflict = FALSE, !.key = NoSave, !.next = NoDocument],
                 tab[e].next, fetches[e])
  /\ UNCHANGED <<server, puts, counted>>

handleCancel(e) ==
  /\ tab[e].next # NoDocument
  /\ tab' = [tab EXCEPT ![e].next = NoDocument]
  /\ UNCHANGED <<server, fetches, puts, counted>>

(* The buttons of the conflict bar fetch the scene that is chosen.         *)
fetchFresh(e, why) ==
  /\ tab[e].conflict /\ tab[e].active # NoDocument /\ roomFor(e) /\ mayAct
  /\ fetches' = [fetches EXCEPT ![e] = @ \cup {fetchOf(why, tab[e].active)}]
  /\ moves' = moves + 1
  /\ UNCHANGED <<server, tab, puts, texts>>

(* An outline resets what the tab knows of the world: listOutline looks in *)
(* a table that does not exist and always says revision 1.                 *)
fetchOutline(e) ==
  /\ tab' = [tab EXCEPT ![e].known = 1]
  /\ UNCHANGED <<server, fetches, puts, counted>>

(* The answer to another write, a review or a reference, brings the        *)
(* revision the world had after it, sooner or later.                       *)
setRevision(e, r) ==
  /\ r > tab[e].known
  /\ tab' = [tab EXCEPT ![e].known = r]
  /\ UNCHANGED <<server, fetches, puts, counted>>

(* A tab that approved a rewrite fetches the outline and the scene.        *)
handleApprove(e, d) ==
  /\ \E r \in 1..latest(d) : editions[d][r].text = Rewritten
  /\ roomFor(e) /\ mayAct
  /\ fetches' = [fetches EXCEPT ![e] = @ \cup {fetchOf("merged", d)}]
  /\ tab' = [tab EXCEPT ![e].known = 1]
  /\ moves' = moves + 1
  /\ UNCHANGED <<server, puts, texts>>

-----------------------------------------------------------------------------
(* The answers.                                                            *)

(* Mutant: what was typed meanwhile into the same scene stays on screen.   *)
ShowingTyped(t, d, r) ==
  [t EXCEPT !.scene = d, !.revision = r, !.kept = FALSE, !.dirty = FALSE,
            !.base = editions[d][r].text,
            !.text = IF t.dirty /\ t.scene = d THEN t.text ELSE editions[d][r].text]

(* The stores t with the document d as the server had it at revision r.    *)
showing(t, d, r) ==
  [t EXCEPT !.scene = d, !.revision = r, !.kept = FALSE, !.dirty = FALSE,
            !.base = editions[d][r].text, !.text = editions[d][r].text]

fetched(e, f, why) ==
  /\ f \in fetches[e] /\ f.read # 0 /\ f.why = why
  /\ UNCHANGED <<server, counted>>

others(e, f) == fetches[e] \ {f}

forgets(e, f) == fetches' = [fetches EXCEPT ![e] = others(e, f)]

(* fetchDocument's document; a merged scene is chosen as well.             *)
loaded(t, f) == [showing(t, f.scene, f.read) EXCEPT !.key = NoSave]

fetchDocument(e, f) ==
  /\ fetched(e, f, "load") /\ forgets(e, f)
  /\ tab' = [tab EXCEPT ![e] = loaded(@, f)]
  /\ UNCHANGED puts

onMerged(e, f) ==
  /\ fetched(e, f, "merged")
  /\ selectScene(e, loaded(tab[e], f), f.scene, others(e, f))
  /\ UNCHANGED puts

resolveConflictReload(e, f) ==
  /\ fetched(e, f, "reload") /\ forgets(e, f)
  /\ tab' = [tab EXCEPT ![e] = [showing(@, f.scene, f.read) EXCEPT !.conflict = FALSE]]
  /\ UNCHANGED puts

(* The document takes the revision that was fetched, and is saved at once. *)
resolveConflictKeepDraft(e, f) ==
  /\ fetched(e, f, "keep") /\ forgets(e, f) /\ tab[e].scene # NoDocument
  /\ saveDocument(e, "keep", [tab[e] EXCEPT !.revision = f.read, !.kept = TRUE,
                                !.conflict = FALSE, !.dirty = TRUE])

ends(e, c) == c \in puts[e] /\ puts' = [puts EXCEPT ![e] = @ \ {c}]

(* The saved document is shown, and the guard moves on.                    *)
saveArrives(e, c) ==
  LET shown == [showing(tab[e], c.request.scene, c.made) EXCEPT
                  !.conflict = FALSE, !.saving = FALSE, !.key = NoSave,
                  !.known = IF @ > c.request.world THEN @ ELSE c.request.world + 1]
  IN /\ ends(e, c) /\ c.made # 0
     /\ \/ /\ c.by = "guard" /\ tab[e].next # NoDocument
           /\ selectScene(e, [shown EXCEPT !.next = NoDocument], tab[e].next, fetches[e])
        \/ /\ c.by # "guard" \/ tab[e].next = NoDocument
           /\ tab' = [tab EXCEPT ![e] = shown]
           /\ UNCHANGED fetches
     /\ UNCHANGED <<server, counted>>

refusalArrives(e, c) ==
  /\ ends(e, c) /\ c.refused
  /\ tab' = [tab EXCEPT ![e].conflict = TRUE, ![e].saving = FALSE]
  /\ UNCHANGED <<server, fetches, counted>>

(* The network fails, before the request arrives or after its answer left. *)
saveFails(e, c) ==
  /\ ends(e, c)
  /\ tab' = [tab EXCEPT ![e].saving = FALSE]
  /\ UNCHANGED <<server, fetches, counted>>

(* A merged scene is chosen even when it could not be loaded.              *)
fetchFails(e, f) ==
  /\ f \in fetches[e]
  /\ \/ f.why # "merged" /\ forgets(e, f) /\ UNCHANGED tab
     \/ f.why = "merged" /\ selectScene(e, tab[e], f.scene, others(e, f))
  /\ UNCHANGED <<server, puts, counted>>

-----------------------------------------------------------------------------

tabStep(e) ==
  \/ updateBlock(e) \/ triggerAutosave(e) \/ handleCancel(e) \/ fetchOutline(e)
  \/ fetchFresh(e, "keep") \/ fetchFresh(e, "reload")
  \/ \E d \in Documents :
       \/ onMounted(e, d) \/ requestSceneChange(e, d)
       \/ openScene(e, d) \/ handleApprove(e, d)
  \/ handleSaveAndProceed(e) \/ handleDiscardAndProceed(e)
  \/ \E r \in 1..worldAt : setRevision(e, r)

answerStep(e) ==
  \/ \E f \in fetches[e] :
       \/ getSceneDocument(e, f) \/ fetchDocument(e, f) \/ fetchFails(e, f)
       \/ resolveConflictReload(e, f) \/ resolveConflictKeepDraft(e, f)
       \/ onMerged(e, f)
  \/ \E c \in puts[e] :
       \/ putSceneDocument(e, c) \/ saveArrives(e, c)
       \/ refusalArrives(e, c) \/ saveFails(e, c)

EditorNext ==
  \/ writeCanon
  \/ \E d \in Documents : approveRewrite(d)
  \/ \E e \in Tabs : tabStep(e) \/ answerStep(e)

EditorSpec == EditorInit /\ [][EditorNext]_editorVars

-----------------------------------------------------------------------------

(* Types of the documents, the tabs and their calls.                       *)
EditorTypeOK ==
  /\ editions \in [Documents -> Seq(Edition)]
  /\ worldAt \in 1..MaxWorld
  /\ served \subseteq Record
  /\ tab \in [Tabs -> Stores]
  /\ fetches \in [Tabs -> SUBSET Fetch]
  /\ puts \in [Tabs -> SUBSET Save]
  /\ texts \in Nat /\ moves \in Nat /\ texts + moves <= MaxActs

(* No author is overwritten unseen: every edition was written from the     *)
(* text it replaces, or is a draft its author chose to keep over a         *)
(* conflict - whatever is loaded late, saved twice or retried in between.  *)
(* The two expected revisions of saveSceneDocument and what the answers    *)
(* leave in the stores carry it together.                                  *)
NoLostUpdate ==
  \A d \in Documents : \A r \in 2..latest(d) :
    editions[d][r].from \in {editions[d][r - 1].text, Kept}

(* A tab that shows a scene as saved shows what the server has stored      *)
(* under that revision of that scene, until a draft was kept over a        *)
(* conflict: then discardChanges brings back an older text.                *)
SavedIsStored ==
  \A e \in Tabs :
    (tab[e].scene # NoDocument /\ ~tab[e].dirty /\ ~tab[e].kept)
      => /\ tab[e].revision \in 1..latest(tab[e].scene)
         /\ tab[e].text = editions[tab[e].scene][tab[e].revision].text
=============================================================================
