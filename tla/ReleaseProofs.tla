---------------------------- MODULE ReleaseProofs ----------------------------
(***************************************************************************)
(* What a player is offered works, and what a player has done can be       *)
(* replayed, for any graph, any number of releases, runs and saves, and    *)
(* however the graph is edited meanwhile.                                  *)
(***************************************************************************)
EXTENDS ReleaseRuntime, TLAPS

(* The replay of a history in a graph, apart from the release it is of.    *)
Path(g, h, scene, trust) ==
  \E f \in [0..Len(h) -> GraphScenes \X Levels] :
    /\ f[0][1] \in entriesOf(g) /\ f[0][2] = g.default
    /\ \A n \in 1..Len(h) :
         /\ g.choices[h[n]].source = f[n - 1][1]
         /\ gateHolds(f[n - 1][2], g.choices[h[n]].gate)
         /\ f[n] = <<targetOf(g.choices[h[n]]),
                     applied(f[n - 1][2], g.choices[h[n]].effect, "story")>>
    /\ f[Len(h)] = <<scene, trust>>

LEMMA ReplaysPath ==
  ASSUME NEW play
  PROVE  Replays(play) <=>
           Path(releases[play.release], play.history, play.scene, play.trust)
BY DEF Replays, Path

(* A run that has just started replays the empty history.                  *)
LEMMA PathStarts ==
  ASSUME NEW g \in StoryGraph, NEW s \in entriesOf(g)
  PROVE  Path(g, <<>>, s, g.default)
<1> DEFINE f == [n \in 0..0 |-> <<s, g.default>>]
<1>1. f \in [0..0 -> GraphScenes \X Levels]
  BY DEF entriesOf, StoryGraph
<1>2. f[0] = <<s, g.default>> /\ Len(<<>>) = 0
  OBVIOUS
<1> HIDE DEF f
<1> QED
  BY <1>1, <1>2 DEF Path

(* A choice that is offered extends the replay by one step.                *)
LEMMA PathGrows ==
  ASSUME NEW g \in StoryGraph, NEW h \in Seq(Choices), NEW scene, NEW trust \in Levels,
         Path(g, h, scene, trust), NEW c \in Choices,
         g.choices[c].source = scene, gateHolds(trust, g.choices[c].gate),
         targetOf(g.choices[c]) \in GraphScenes,
         applied(trust, g.choices[c].effect, "story") \in Levels
  PROVE  Path(g, Append(h, c), targetOf(g.choices[c]),
              applied(trust, g.choices[c].effect, "story"))
<1> DEFINE Good(k, e, n) ==
      /\ g.choices[k[n]].source = e[n - 1][1]
      /\ gateHolds(e[n - 1][2], g.choices[k[n]].gate)
      /\ e[n] = <<targetOf(g.choices[k[n]]),
                  applied(e[n - 1][2], g.choices[k[n]].effect, "story")>>
<1>1. PICK f \in [0..Len(h) -> GraphScenes \X Levels] :
        /\ f[0][1] \in entriesOf(g) /\ f[0][2] = g.default
        /\ \A n \in 1..Len(h) : Good(h, f, n)
        /\ f[Len(h)] = <<scene, trust>>
  BY Zenon DEF Path
<1> DEFINE last == <<targetOf(g.choices[c]), applied(trust, g.choices[c].effect, "story")>>
           m == Len(h) + 1
           e == [n \in 0..m |-> IF n = m THEN last ELSE f[n]]
           k == Append(h, c)
<1>2. /\ Len(h) \in Nat /\ Len(k) = m /\ k[m] = c
      /\ \A n \in 1..Len(h) : k[n] = h[n]
  OBVIOUS
<1>3. last \in GraphScenes \X Levels
  OBVIOUS
<1>4. e \in [0..m -> GraphScenes \X Levels]
  <2>1. \A n \in 0..m : n # m => n \in 0..Len(h)
    BY <1>2
  <2> HIDE DEF last
  <2> QED
    BY <2>1, <1>3
<1>5. /\ \A n \in 0..Len(h) : e[n] = f[n]
      /\ e[m] = last /\ m - 1 = Len(h) /\ m \in 1..m
  <2> HIDE DEF last
  <2> QED
    BY <1>2
<1> HIDE DEF e, k
<1>6. e[0] = f[0] /\ e[m - 1] = <<scene, trust>>
  <2>1. 0 \in 0..Len(h) /\ Len(h) \in 0..Len(h)
    BY <1>2
  <2> QED
    BY <2>1, <1>1, <1>5
<1>7. \A n \in 1..m : Good(k, e, n)
  <2> SUFFICES ASSUME NEW n \in 1..m PROVE Good(k, e, n)
    OBVIOUS
  <2>1. CASE n = m
    <3>1. k[n] = c /\ e[n - 1][1] = scene /\ e[n - 1][2] = trust /\ e[n] = last
      BY <2>1, <1>2, <1>5, <1>6
    <3> QED
      BY <3>1
  <2>2. CASE n # m
    <3>1. n \in 1..Len(h) /\ n \in 0..Len(h) /\ n - 1 \in 0..Len(h)
      BY <2>2, <1>2
    <3>2. k[n] = h[n] /\ e[n] = f[n] /\ e[n - 1] = f[n - 1]
      BY <3>1, <1>2, <1>5
    <3>3. Good(h, f, n)
      BY <3>1, <1>1
    <3> HIDE DEF last
    <3> QED
      BY <3>2, <3>3
  <2> QED
    BY <2>1, <2>2
<1>8. e[0][1] \in entriesOf(g) /\ e[0][2] = g.default /\ e[Len(k)] = last
  BY <1>1, <1>2, <1>5, <1>6
<1>9. e \in [0..Len(k) -> GraphScenes \X Levels] /\ \A n \in 1..Len(k) : Good(k, e, n)
  BY <1>2, <1>4, <1>7
<1>10. Path(g, k, last[1], last[2])
  <2>1. last = <<last[1], last[2]>>
    OBVIOUS
  <2> HIDE DEF last
  <2>2. e[Len(k)] = <<last[1], last[2]>>
    BY <2>1, <1>8
  <2> QED
    BY <2>2, <1>8, <1>9, Zenon DEF Path
<1> QED
  BY <1>10 DEF k
-----------------------------------------------------------------------------
(* The inductive invariant: a release has passed the preflight, and whoever *)
(* plays or has saved stands on a scene of it with a history that leads     *)
(* there.                                                                   *)
ReleasesPass == \A r \in Releases : releases[r] # NoRelease => preflight(releases[r])

Fits(play) == StandsInRelease(play) /\ Replays(play)

ReleaseInv ==
  /\ ReleaseTypeOK
  /\ ReleasesPass
  /\ \A p \in Plays : plays[p] # NoPlay => Fits(plays[p])
  /\ \A v \in Saves : saves[v] # NoPlay => Fits(saves[v])

LEMMA ReleaseInitInv == ReleaseInit => ReleaseInv
<1> SUFFICES ASSUME ReleaseInit PROVE ReleaseInv
  OBVIOUS
<1>1. graph \in StoryGraph
  BY ReleaseAssumption DEF ReleaseInit, StoryGraph
<1>2. ReleaseTypeOK
  BY <1>1, ReleaseAssumption DEF ReleaseInit, ReleaseTypeOK
<1> QED
  BY <1>2 DEF ReleaseInit, ReleaseInv, ReleasesPass

(* What someone stands on stays as it is while no release is changed.      *)
LEMMA FitsKept ==
  ASSUME NEW play \in Play, Fits(play), releases'[play.release] = releases[play.release]
  PROVE  Fits(play)'
<1>1. StandsInRelease(play)'
  BY DEF Fits, StandsInRelease
<1>2. Replays(play)' <=>
        Path(releases[play.release], play.history, play.scene, play.trust)
  BY DEF Replays, Path
<1> QED
  BY <1>1, <1>2, ReplaysPath DEF Fits

(* The creators edit the graph alone.                                      *)
LEMMA EditKeepsInv ==
  ASSUME ReleaseInv, NEW g \in StoryGraph, edit(g)
  PROVE  ReleaseInv'
<1>1. ReleaseTypeOK'
  BY ReleaseAssumption DEF ReleaseInv, ReleaseTypeOK, edit
<1>2. ReleasesPass'
  BY DEF ReleaseInv, ReleasesPass, edit
<1>3. ASSUME NEW play \in Play, Fits(play) PROVE Fits(play)'
  BY <1>3, FitsKept DEF edit
<1>4. /\ \A p \in Plays : plays[p] # NoPlay => Fits(plays[p])'
      /\ \A v \in Saves : saves[v] # NoPlay => Fits(saves[v])'
  <2>1. ASSUME NEW p \in Plays, plays[p] # NoPlay PROVE Fits(plays[p])'
    <3>1. PICK play : play = plays[p]
      OBVIOUS
    <3>2. play \in Play /\ Fits(play)
      BY <2>1, <3>1 DEF ReleaseInv, ReleaseTypeOK
    <3>3. play = plays'[p]
      BY <3>1 DEF edit
    <3> QED
      BY <3>2, <3>3, <1>3
  <2>2. ASSUME NEW v \in Saves, saves[v] # NoPlay PROVE Fits(saves[v])'
    <3>1. PICK play : play = saves[v]
      OBVIOUS
    <3>2. play \in Play /\ Fits(play)
      BY <2>2, <3>1 DEF ReleaseInv, ReleaseTypeOK
    <3>3. play = saves'[v]
      BY <3>1 DEF edit
    <3> QED
      BY <3>2, <3>3, <1>3
  <2> QED
    BY <2>1, <2>2
<1> QED
  BY <1>1, <1>2, <1>4 DEF ReleaseInv, edit

(* A new release leaves the old ones alone.                                *)
LEMMA CreateKeepsInv ==
  ASSUME ReleaseInv, NEW r \in Releases, createRelease(r)
  PROVE  ReleaseInv'
<1>1. ReleaseTypeOK'
  BY DEF ReleaseInv, ReleaseTypeOK, createRelease
<1>2. ReleasesPass'
  BY DEF ReleaseInv, ReleaseTypeOK, ReleasesPass, createRelease
<1>3. ASSUME NEW play \in Play, Fits(play) PROVE Fits(play)'
  <2>1. play.release \in Releases /\ play.release # r
    BY <1>3 DEF Fits, StandsInRelease, Play, createRelease
  <2>2. releases'[play.release] = releases[play.release]
    BY <2>1 DEF createRelease, ReleaseInv, ReleaseTypeOK
  <2> QED
    BY <1>3, <2>2, FitsKept
<1>4. ASSUME NEW p \in Plays, plays[p] # NoPlay PROVE Fits(plays[p])'
  <2>1. PICK play : play = plays[p]
    OBVIOUS
  <2>2. play \in Play /\ Fits(play)
    BY <1>4, <2>1 DEF ReleaseInv, ReleaseTypeOK
  <2>3. play = plays'[p]
    BY <2>1 DEF createRelease
  <2> QED
    BY <2>2, <2>3, <1>3
<1>5. ASSUME NEW v \in Saves, saves[v] # NoPlay PROVE Fits(saves[v])'
  <2>1. PICK play : play = saves[v]
    OBVIOUS
  <2>2. play \in Play /\ Fits(play)
    BY <1>5, <2>1 DEF ReleaseInv, ReleaseTypeOK
  <2>3. play = saves'[v]
    BY <2>1 DEF createRelease
  <2> QED
    BY <2>2, <2>3, <1>3
<1> QED
  BY <1>1, <1>2, <1>4, <1>5 DEF ReleaseInv, createRelease

-----------------------------------------------------------------------------
(* A run or a save that fits is written: nothing else changes.             *)
LEMMA PlayKeepsInv ==
  ASSUME ReleaseInv, NEW p \in Plays, NEW play \in Play, Fits(play),
         plays' = [plays EXCEPT ![p] = play], UNCHANGED <<graph, releases, saves, edits>>
  PROVE  ReleaseInv'
<1>1. ReleaseTypeOK' /\ ReleasesPass'
  BY DEF ReleaseInv, ReleaseTypeOK, ReleasesPass
<1>2. ASSUME NEW other \in Play, Fits(other) PROVE Fits(other)'
  BY <1>2, FitsKept
<1>3. ASSUME NEW q \in Plays, plays'[q] # NoPlay PROVE Fits(plays[q])'
  <2>1. PICK other : other = plays'[q]
    OBVIOUS
  <2>2. other \in Play /\ Fits(other)
    BY <1>3, <2>1 DEF ReleaseInv, ReleaseTypeOK
  <2> QED
    BY <2>1, <2>2, <1>2
<1>4. ASSUME NEW v \in Saves, saves[v] # NoPlay PROVE Fits(saves[v])'
  <2>1. PICK other : other = saves[v]
    OBVIOUS
  <2>2. other \in Play /\ Fits(other) /\ other = saves'[v]
    BY <1>4, <2>1 DEF ReleaseInv, ReleaseTypeOK
  <2> QED
    BY <2>2, <1>2
<1> QED
  BY <1>1, <1>3, <1>4 DEF ReleaseInv

LEMMA SaveKeepsInv ==
  ASSUME ReleaseInv, NEW v \in Saves, NEW play \in Play, Fits(play),
         saves' = [saves EXCEPT ![v] = play], UNCHANGED <<graph, releases, plays, edits>>
  PROVE  ReleaseInv'
<1>1. ReleaseTypeOK' /\ ReleasesPass'
  BY DEF ReleaseInv, ReleaseTypeOK, ReleasesPass
<1>2. ASSUME NEW other \in Play, Fits(other) PROVE Fits(other)'
  BY <1>2, FitsKept
<1>3. ASSUME NEW w \in Saves, saves'[w] # NoPlay PROVE Fits(saves[w])'
  <2>1. PICK other : other = saves'[w]
    OBVIOUS
  <2>2. other \in Play /\ Fits(other)
    BY <1>3, <2>1 DEF ReleaseInv, ReleaseTypeOK
  <2> QED
    BY <2>1, <2>2, <1>2
<1>4. ASSUME NEW p \in Plays, plays[p] # NoPlay PROVE Fits(plays[p])'
  <2>1. PICK other : other = plays[p]
    OBVIOUS
  <2>2. other \in Play /\ Fits(other) /\ other = plays'[p]
    BY <1>4, <2>1 DEF ReleaseInv, ReleaseTypeOK
  <2> QED
    BY <2>2, <1>2
<1> QED
  BY <1>1, <1>3, <1>4 DEF ReleaseInv

(* A run starts at the entry scene with the default and no history.        *)
LEMMA StartKeepsInv ==
  ASSUME ReleaseInv, NEW p \in Plays, NEW r \in Releases, startRuntimeRun(p, r)
  PROVE  ReleaseInv'
<1>1. releases[r] \in StoryGraph /\ releases[r] # NoRelease
  BY DEF ReleaseInv, ReleaseTypeOK, startRuntimeRun
<1>2. PICK s \in entriesOf(releases[r]) :
        plays' = [plays EXCEPT ![p] = [release |-> r, scene |-> s,
                                       trust |-> releases[r].default,
                                       mood |-> Unset, history |-> <<>>]]
  BY DEF startRuntimeRun
<1>3. PICK play : play = [release |-> r, scene |-> s, trust |-> releases[r].default,
                          mood |-> Unset, history |-> <<>>]
  OBVIOUS
<1>4. play \in Play
  BY <1>1, <1>3 DEF Play, StoryGraph, entriesOf
<1>5. StandsInRelease(play)
  BY <1>1, <1>3 DEF StandsInRelease, entriesOf, scenesOf
<1>6. Path(releases[r], <<>>, s, releases[r].default)
  BY <1>1, PathStarts
<1>7. Fits(play)
  BY <1>3, <1>5, <1>6, ReplaysPath DEF Fits
<1> QED
  BY <1>2, <1>3, <1>4, <1>7, PlayKeepsInv DEF startRuntimeRun

-----------------------------------------------------------------------------
(* What the preflight has found of a graph, for each of its choices.       *)
LEMMA PreflightSays ==
  ASSUME NEW g \in StoryGraph, preflight(g), NEW c \in choicesOf(g)
  PROVE  /\ g.choices[c] \in ChoiceRow
         /\ {g.choices[c].source, g.choices[c].target} \subseteq scenesOf(g) \cup {NoScene}
         /\ deltaIsValid(g.default, g.choices[c].effect)
BY DEF preflight, graphIsValid, StoryGraph, choicesOf

(* The story effect of a choice was tried on the default, a number, and     *)
(* every state of a run is a number too.                                    *)
LEMMA OfferedWorks ==
  ASSUME ReleaseInv, NEW p \in Plays, plays[p] # NoPlay, NEW c \in offered(p)
  PROVE  choiceWorks(p, c)
<1> DEFINE g == releases[plays[p].release]
           row == g.choices[c]
<1>1. plays[p] \in Play /\ StandsInRelease(plays[p])
  BY DEF ReleaseInv, ReleaseTypeOK, Fits
<1>2. g \in StoryGraph /\ preflight(g)
  BY <1>1 DEF ReleaseInv, ReleaseTypeOK, ReleasesPass, StandsInRelease, Play
<1>3. c \in choicesOf(g)
  BY DEF offered
<1> HIDE DEF g
<1>4. /\ row \in ChoiceRow
      /\ {row.source, row.target} \subseteq scenesOf(g) \cup {NoScene}
      /\ deltaIsValid(g.default, row.effect)
  BY <1>2, <1>3, PreflightSays
<1>5. targetOf(row) \in scenesOf(g)
  BY <1>4, ReleaseAssumption DEF targetOf, ChoiceRow
<1>6. deltaIsValid(plays[p].trust, row.effect)
  BY <1>1, <1>4, ReleaseAssumption DEF deltaIsValid, Play
<1> QED
  BY <1>5, <1>6 DEF choiceWorks, g

LEMMA SubmitKeepsInv ==
  ASSUME ReleaseInv, NEW p \in Plays, NEW c \in Choices, submitRuntimeChoice(p, c)
  PROVE  ReleaseInv'
<1>1. PICK old : old = plays[p]
  OBVIOUS
<1>2. PICK g : g = releases[old.release]
  OBVIOUS
<1>3. PICK row : row = g.choices[c]
  OBVIOUS
<1>4. old \in Play /\ Fits(old)
  BY <1>1 DEF ReleaseInv, ReleaseTypeOK, submitRuntimeChoice
<1>5. g \in StoryGraph /\ preflight(g) /\ c \in choicesOf(g) /\ row \in ChoiceRow
  <2>1. g \in StoryGraph /\ preflight(g)
    BY <1>2, <1>4 DEF ReleaseInv, ReleaseTypeOK, ReleasesPass, Fits, StandsInRelease, Play
  <2>2. c \in choicesOf(g)
    BY <1>1, <1>2 DEF submitRuntimeChoice, offered
  <2> QED
    BY <2>1, <2>2, <1>3, PreflightSays
<1>6. /\ row.source = old.scene /\ gateHolds(old.trust, row.gate)
      /\ targetOf(row) \in scenesOf(g)
      /\ moodAllows(old.mood, row.effect)
      /\ applied(old.trust, row.effect, "story") \in Levels
  BY <1>1, <1>2, <1>3 DEF submitRuntimeChoice, offered, choiceWorks
<1>7. PICK play : play = [release |-> old.release, scene |-> targetOf(row),
                          trust |-> applied(old.trust, row.effect, "story"),
                          mood |-> applied(old.mood, row.effect, "character"),
                          history |-> Append(old.history, c)]
  OBVIOUS
<1>8. plays' = [plays EXCEPT ![p] = play]
  <2>1. plays' = [plays EXCEPT ![p].scene = targetOf(row),
                               ![p].trust = applied(@, row.effect, "story"),
                               ![p].mood = applied(@, row.effect, "character"),
                               ![p].history = Append(@, c)]
    BY <1>1, <1>2, <1>3 DEF submitRuntimeChoice
  <2>2. plays \in [Plays -> Play \cup {NoPlay}] /\ plays[p] = old
    BY <1>1 DEF ReleaseInv, ReleaseTypeOK
  <2>3. \A q \in Plays : q # p => plays'[q] = plays[q]
    BY <2>1, <2>2
  <2>4. plays'[p] = play
    BY <2>1, <2>2, <1>4, <1>7 DEF Play
  <2>5. DOMAIN plays' = Plays /\ plays' = [q \in Plays |-> plays'[q]]
    BY <2>1, <2>2
  <2> QED
    BY <2>2, <2>3, <2>4, <2>5
<1>9. applied(old.mood, row.effect, "character") \in Nat \cup {Text, Unset}
  BY <1>4, <1>5, <1>6 DEF applied, moodAllows, ChoiceRow, Effects, Play
<1>10. play \in Play
  <2>1. targetOf(row) \in GraphScenes /\ Append(old.history, c) \in Seq(Choices)
    BY <1>4, <1>6 DEF scenesOf, Play
  <2> QED
    BY <2>1, <1>4, <1>6, <1>7, <1>9 DEF Play
<1>11. StandsInRelease(play)
  BY <1>2, <1>4, <1>6, <1>7 DEF Fits, StandsInRelease
<1>12. Path(g, old.history, old.scene, old.trust)
  BY <1>2, <1>4, ReplaysPath DEF Fits
<1>13. Path(g, Append(old.history, c), targetOf(row), applied(old.trust, row.effect, "story"))
  <2>1. old.history \in Seq(Choices) /\ old.trust \in Levels /\ targetOf(row) \in GraphScenes
    BY <1>4, <1>6 DEF Play, scenesOf
  <2> QED
    BY <2>1, <1>3, <1>5, <1>6, <1>12, PathGrows
<1>14. Fits(play)
  BY <1>2, <1>7, <1>11, <1>13, ReplaysPath DEF Fits
<1> QED
  BY <1>8, <1>10, <1>14, PlayKeepsInv DEF submitRuntimeChoice

LEMMA SaveStepKeepsInv ==
  ASSUME ReleaseInv, NEW p \in Plays, NEW v \in Saves, createRuntimeSave(p, v)
  PROVE  ReleaseInv'
<1>1. PICK play : play = plays[p]
  OBVIOUS
<1>2. play \in Play /\ Fits(play)
  BY <1>1 DEF ReleaseInv, ReleaseTypeOK, createRuntimeSave
<1> QED
  BY <1>1, <1>2, SaveKeepsInv DEF createRuntimeSave

(* A load forgets the character state, which is no part of the replay.     *)
LEMMA LoadKeepsInv ==
  ASSUME ReleaseInv, NEW v \in Saves, NEW p \in Plays, loadRuntimeSave(v, p)
  PROVE  ReleaseInv'
<1>1. PICK saved : saved = saves[v]
  OBVIOUS
<1>2. saved \in Play /\ Fits(saved)
  BY <1>1 DEF ReleaseInv, ReleaseTypeOK, loadRuntimeSave
<1>3. PICK play : play = [saved EXCEPT !.mood = Unset]
  OBVIOUS
<1>4. /\ play \in Play
      /\ play.release = saved.release /\ play.scene = saved.scene
      /\ play.trust = saved.trust /\ play.history = saved.history
  BY <1>2, <1>3 DEF Play
<1>5. Fits(play)
  BY <1>2, <1>4, ReplaysPath DEF Fits, StandsInRelease
<1> QED
  BY <1>1, <1>3, <1>4, <1>5, PlayKeepsInv DEF loadRuntimeSave

LEMMA GraphStepKeepsInv ==
  ASSUME ReleaseInv
  PROVE  /\ \A s \in GraphScenes, mark \in {"plain", "entry"} : writeScene(s, mark) => ReleaseInv'
         /\ \A c \in Choices, row \in ChoiceRows : writeChoice(c, row) => ReleaseInv'
         /\ \A value \in Levels : updateStateVariable(value) => ReleaseInv'
<1>0. graph \in StoryGraph
  BY DEF ReleaseInv, ReleaseTypeOK
<1>1. ASSUME NEW s \in GraphScenes, NEW mark \in {"plain", "entry"}, writeScene(s, mark)
      PROVE  ReleaseInv'
  <2>1. PICK g : g = [graph EXCEPT !.scenes[s] = mark]
    OBVIOUS
  <2>2. g \in StoryGraph
    BY <1>0, <2>1 DEF StoryGraph
  <2> QED
    BY <2>1, <2>2, <1>1, EditKeepsInv DEF writeScene
<1>2. ASSUME NEW c \in Choices, NEW row \in ChoiceRows, writeChoice(c, row)
      PROVE  ReleaseInv'
  <2>1. PICK g : g = [graph EXCEPT !.choices[c] = row]
    OBVIOUS
  <2>2. g \in StoryGraph
    BY <1>0, <2>1, ReleaseAssumption DEF StoryGraph
  <2> QED
    BY <2>1, <2>2, <1>2, EditKeepsInv DEF writeChoice
<1>3. ASSUME NEW value \in Levels, updateStateVariable(value)
      PROVE  ReleaseInv'
  <2>1. PICK g : g = [graph EXCEPT !.default = value]
    OBVIOUS
  <2>2. g \in StoryGraph
    BY <1>0, <2>1 DEF StoryGraph
  <2> QED
    BY <2>1, <2>2, <1>3, EditKeepsInv DEF updateStateVariable
<1> QED
  BY <1>1, <1>2, <1>3

-----------------------------------------------------------------------------
LEMMA ReleaseStep == ReleaseInv /\ [ReleaseNext]_releaseVars => ReleaseInv'
<1> SUFFICES ASSUME ReleaseInv, [ReleaseNext]_releaseVars PROVE ReleaseInv'
  OBVIOUS
<1>1. CASE ReleaseNext
  BY <1>1, GraphStepKeepsInv, CreateKeepsInv, StartKeepsInv, SubmitKeepsInv,
     SaveStepKeepsInv, LoadKeepsInv DEF ReleaseNext
<1>2. CASE UNCHANGED releaseVars
  BY <1>2 DEF releaseVars, ReleaseInv, ReleaseTypeOK, ReleasesPass, Fits,
     StandsInRelease, Replays
<1> QED
  BY <1>1, <1>2

(* Whoever stands in a release, and whoever has saved there, fits it.      *)
THEOREM ReleaseAlwaysFits == ReleaseSpec => []ReleaseInv
  BY ReleaseInitInv, ReleaseStep, PTL DEF ReleaseSpec

(* A choice a player is shown never throws for its target or its story     *)
(* effect, though the preflight has tried it on the defaults alone and the *)
(* graph is edited on.                                                     *)
THEOREM ChoicesWork == ReleaseSpec => []OfferedChoiceWorks
<1>1. ReleaseInv => OfferedChoiceWorks
  BY OfferedWorks DEF OfferedChoiceWorks, ReleaseInv, Fits
<1> QED
  BY <1>1, ReleaseAlwaysFits, PTL

(* The scene and the story state of each run and save follow from its      *)
(* release and its history, also after loads and later edits.              *)
THEOREM HistoriesReplay == ReleaseSpec => []RunReplays
<1>1. ReleaseInv => RunReplays
  BY DEF ReleaseInv, Fits, RunReplays
<1> QED
  BY <1>1, ReleaseAlwaysFits, PTL
==============================================================================
