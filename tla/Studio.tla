------------------------------- MODULE Studio -------------------------------
(***************************************************************************)
(* The creator's studio around the generation pipelines: the canon and its *)
(* reviews, the outline, releases and their players, the memory and story  *)
(* handlers, proactive messages, the media directory, and the scene editor *)
(* of a browser.  Each part is one component of the program, and no step   *)
(* of one reads what this model keeps of another, so a behaviour of the    *)
(* studio is followed in one part at a time: `part' is chosen at first and *)
(* every step is a step of that part.  The handlers make two parts: what   *)
(* becomes of memories and of the story shares nothing but the pumps.  One *)
(* run of TLC then checks them all, and what is shown of a part holds      *)
(* whatever the others do.                                                 *)
(***************************************************************************)
EXTENDS CanonReview, NarrativeOutline, ReleaseRuntime, MemoryHandlers,
        ProactiveMessages, MediaStore, SceneEditor

VARIABLE part    \* the part that is followed

Parts == {"canon", "outline", "release", "memory", "story", "proactive",
          "media", "editor"}

studioVars == <<part, canonVars, outlineVars, releaseVars, handlerVars,
                proactiveVars, mediaVars, editorVars>>

StudioInit ==
  /\ part \in Parts
  /\ CanonInit /\ OutlineInit /\ ReleaseInit
  /\ HandlerInit /\ ProactiveInit /\ MediaInit
  /\ EditorInit

Elsewhere(parts, vars) == part \notin parts => UNCHANGED vars

NoneQueued(jobs) == \A j \in jobs : status[j] = "absent"

OnlyMemory == messages = 0 /\ NoneQueued(AnalyzeJobs)
OnlyStory == replaced = {} /\ NoneQueued(ConsolidateJobs)

StudioNext ==
  /\ \/ part = "canon" /\ CanonNext
     \/ part = "outline" /\ OutlineNext
     \/ part = "release" /\ ReleaseNext
     \/ part = "memory" /\ HandlerNext /\ OnlyMemory'
     \/ part = "story" /\ HandlerNext /\ OnlyStory'
     \/ part = "proactive" /\ ProactiveNext
     \/ part = "media" /\ MediaNext
     \/ part = "editor" /\ EditorNext
  /\ Elsewhere({"canon"}, canonVars)
  /\ Elsewhere({"outline"}, outlineVars)
  /\ Elsewhere({"release"}, releaseVars)
  /\ Elsewhere({"memory", "story"}, handlerVars)
  /\ Elsewhere({"proactive"}, proactiveVars)
  /\ Elsewhere({"media"}, mediaVars)
  /\ Elsewhere({"editor"}, editorVars)
  /\ UNCHANGED part

StudioSpec == StudioInit /\ [][StudioNext]_studioVars

(* Types of every part. *)
StudioTypeOK ==
  /\ part \in Parts
  /\ CanonTypeOK /\ OutlineTypeOK /\ ReleaseTypeOK
  /\ HandlerTypeOK /\ ProactiveTypeOK /\ MediaTypeOK
  /\ EditorTypeOK
=============================================================================
