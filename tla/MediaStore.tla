----------------------------- MODULE MediaStore -----------------------------
(***************************************************************************)
(* The directory of asset images, where a file is named by the hash of its *)
(* content (worker/src/v2/local-asset-media-store.ts).  A worker that has  *)
(* fetched an image writes a temporary file and renames it; the upload of  *)
(* a manual asset (api/src/v2/assets/plugin.ts) writes under the final     *)
(* name.  Both skip the write when the name is taken.  Processes die, and  *)
(* writes fail, between any two file operations.                           *)
(***************************************************************************)
EXTENDS Naturals

CONSTANTS Hashes,      \* contents
          Writers,     \* runs of the worker's store
          Uploads,     \* upload requests
          NoHash

ASSUME MediaAssumption == NoHash \notin Hashes /\ Writers \cap Uploads = {}

VARIABLES file,        \* file[h]: what stands under the final name of h
          temp,        \* temp[w]: the temporary file of a worker's run
          task,        \* what each run or request is doing, for which content
          answered,    \* the contents whose store has been reported
          torn         \* history: contents whose upload is writing or died

mediaVars == <<file, temp, task, answered, torn>>

States == {"absent", "partial", "whole"}
NoTask == [pc |-> "idle", hash |-> NoHash]

MediaInit ==
  /\ file = [h \in Hashes |-> "absent"]
  /\ temp = [w \in Writers |-> "absent"]
  /\ task = [x \in Writers \cup Uploads |-> NoTask]
  /\ answered = {}
  /\ torn = {}

HashOf(x) == task[x].hash
Doing(x, label) == task[x].pc = label
Do(x, label) == task' = [task EXCEPT ![x].pc = label]
Stop(x) == task' = [task EXCEPT ![x] = NoTask]

-----------------------------------------------------------------------------
(* The image is at hand and hashed: is the name taken?                     *)
lookUp(x, h) ==
  /\ Doing(x, "idle")
  /\ task' = [task EXCEPT ![x] = [pc |-> IF file[h] = "absent" THEN "open" ELSE "answer",
                                  hash |-> h]]
  /\ UNCHANGED <<file, temp, answered, torn>>

answer(x) ==
  /\ Doing(x, "answer")
  /\ answered' = answered \cup {HashOf(x)}
  /\ Stop(x)
  /\ UNCHANGED <<file, temp, torn>>

(* A worker opens its temporary file, which nobody else has.               *)
openTemp(w) ==
  /\ Doing(w, "open")
  /\ temp' = [temp EXCEPT ![w] = "partial"]
  /\ Do(w, "write")
  /\ UNCHANGED <<file, answered, torn>>

writeTemp(w) ==
  /\ Doing(w, "write")
  /\ temp' = [temp EXCEPT ![w] = "whole"]
  /\ Do(w, "rename")
  /\ UNCHANGED <<file, answered, torn>>

(* Mutant: the temporary file is renamed before it is written.             *)
RenameUnwritten(w) ==
  /\ task[w].pc \in {"write", "rename"}
  /\ file' = [file EXCEPT ![HashOf(w)] = temp[w]]
  /\ temp' = [temp EXCEPT ![w] = "absent"]
  /\ Do(w, "answer")
  /\ UNCHANGED <<answered, torn>>

(* It replaces what another run may have stored meanwhile.                 *)
renameTemp(w) ==
  /\ Doing(w, "rename")
  /\ file' = [file EXCEPT ![HashOf(w)] = temp[w]]
  /\ temp' = [temp EXCEPT ![w] = "absent"]
  /\ torn' = torn \ {HashOf(w)}
  /\ Do(w, "answer")
  /\ UNCHANGED answered

(* A write or the rename fails: the temporary file goes, and the run has   *)
(* succeeded all the same if the name is taken by now.                     *)
storeFails(w) ==
  /\ task[w].pc \in {"open", "write", "rename"}
  /\ temp' = [temp EXCEPT ![w] = "absent"]
  /\ IF file[HashOf(w)] = "absent" THEN Stop(w) ELSE Do(w, "answer")
  /\ UNCHANGED <<file, answered, torn>>

(* The process dies; a temporary file stays behind under a name no later   *)
(* run uses.                                                               *)
workerDies(w) ==
  /\ ~Doing(w, "idle")
  /\ temp' = [temp EXCEPT ![w] = "absent"]
  /\ Stop(w)
  /\ UNCHANGED <<file, answered, torn>>

-----------------------------------------------------------------------------
(* An upload opens the final name, and fails if it is taken by now.        *)
openFinal(u) ==
  /\ Doing(u, "open")
  /\ IF file[HashOf(u)] = "absent"
       THEN /\ file' = [file EXCEPT ![HashOf(u)] = "partial"]
            /\ torn' = torn \cup {HashOf(u)}
            /\ Do(u, "write")
       ELSE /\ Stop(u)
            /\ UNCHANGED <<file, torn>>
  /\ UNCHANGED <<temp, answered>>

writeFinal(u) ==
  /\ Doing(u, "write")
  /\ file' = [file EXCEPT ![HashOf(u)] = "whole"]
  /\ torn' = torn \ {HashOf(u)}
  /\ Do(u, "answer")
  /\ UNCHANGED <<temp, answered>>

(* The disk is full or the process dies: what is written stays.            *)
uploadFails(u) ==
  /\ ~Doing(u, "idle")
  /\ Stop(u)
  /\ UNCHANGED <<file, temp, answered, torn>>

MediaNext ==
  \/ \E x \in Writers \cup Uploads : answer(x) \/ \E h \in Hashes : lookUp(x, h)
  \/ \E w \in Writers : \/ openTemp(w) \/ writeTemp(w) \/ renameTemp(w)
                        \/ storeFails(w) \/ workerDies(w)
  \/ \E u \in Uploads : openFinal(u) \/ writeFinal(u) \/ uploadFails(u)

MediaSpec == MediaInit /\ [][MediaNext]_mediaVars

-----------------------------------------------------------------------------
(* Types. *)
MediaTypeOK ==
  /\ file \in [Hashes -> States]
  /\ temp \in [Writers -> States]
  /\ task \in [Writers \cup Uploads ->
                 [pc : {"idle", "open", "write", "rename", "answer"},
                  hash : Hashes \cup {NoHash}]]
  /\ answered \subseteq Hashes
  /\ torn \subseteq Hashes

(* What has been reported as stored stands whole under its name, unless an *)
(* upload of the same content is writing it or died writing it: no crash,  *)
(* failed write or race between workers leaves a truncated image behind.   *)
StoredWhole ==
  \A h \in Hashes : /\ h \in answered => file[h] # "absent"
                    /\ file[h] = "partial" => h \in torn
=============================================================================
