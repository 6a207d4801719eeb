--------------------------- MODULE ReleaseRuntime ---------------------------
(***************************************************************************)
(* Publishing a story graph and playing it.  Creators edit scenes, choices *)
(* and the default of a state variable; a release freezes the graph if the *)
(* preflight finds no error; players start runs of a release, choose, save *)
(* and load, in any order and while the graph is edited further.  Each     *)
(* handler is one transaction.  One numeric story variable ("trust") and   *)
(* one character variable ("mood") stand for all of them; relationship and *)
(* event consequences gate nothing and never fail, and are left out.       *)
(***************************************************************************)
EXTENDS Integers, Sequences, FiniteSets

CONSTANTS GraphScenes, Choices,   \* ids of the graph's rows
          ChoiceRows,    \* bound: the choices a creator writes
          NoChoice, NoScene, NoGate, Text,
          Releases, Plays, Saves, \* ids of releases, runs and saves
          NoRelease, NoPlay, Unset,
          Levels,        \* bound: the values of the variable
          MaxHistory,    \* bound: the choices of one run
          MaxEdits       \* bound: the edits of the graph

VARIABLES graph,         \* the creators' scenes, choices and default
          releases,      \* releases[r]: the frozen graph
          plays,         \* plays[p]: a run
          saves,         \* saves[v]: what a save keeps of a run
          edits          \* counts the edits, for the bound

releaseVars == <<graph, releases, plays, saves, edits>>

(* A gate compares the variable with a value; an effect sets or increments the
   story or the character variable, or neither ("none": a choice without
   consequences, like those of an approved candidate).  Neither gate nor effect
   is checked when it is written. *)
Gates == [key : {"trust", "unknown"}, operator : {"eq", "gte"},
          value : Nat \cup {Text}]
Effects == [kind : {"story", "character", "none"}, operation : {"set", "increment"},
            value : Nat \cup {Text}]
ChoiceRow == [source : GraphScenes, target : GraphScenes \cup {NoScene},
              gate : Gates \cup {NoGate}, effect : Effects]
StoryGraph == [scenes : [GraphScenes -> {"absent", "plain", "entry"}],
               choices : [Choices -> ChoiceRow \cup {NoChoice}],
               default : Levels]
Play == [release : Releases, scene : GraphScenes, trust : Levels,
         mood : Nat \cup {Text, Unset}, history : Seq(Choices)]

ASSUME ReleaseAssumption ==
  /\ ChoiceRows \subseteq ChoiceRow
  /\ Levels \subseteq Nat /\ 0 \in Levels
  /\ NoScene \notin GraphScenes /\ NoChoice \notin ChoiceRow
  /\ NoGate \notin Gates /\ Text \notin Nat /\ Unset \notin Nat
  /\ MaxHistory \in Nat /\ MaxEdits \in Nat

ReleaseInit ==
  /\ graph = [scenes |-> [s \in GraphScenes |-> "absent"],
              choices |-> [c \in Choices |-> NoChoice],
              default |-> 0]
  /\ releases = [r \in Releases |-> NoRelease]
  /\ plays = [p \in Plays |-> NoPlay]
  /\ saves = [v \in Saves |-> NoPlay]
  /\ edits = 0

-----------------------------------------------------------------------------
scenesOf(g) == {s \in GraphScenes : g.scenes[s] # "absent"}
entriesOf(g) == {s \in GraphScenes : g.scenes[s] = "entry"}
choicesOf(g) == {c \in Choices : g.choices[c] # NoChoice}

edit(g) == /\ edits < MaxEdits
           /\ graph' = g
           /\ edits' = edits + 1
           /\ UNCHANGED <<releases, plays, saves>>

(* createScene, updateScene: the entry mark is free; any number may carry it. *)
writeScene(s, mark) == edit([graph EXCEPT !.scenes[s] = mark])

(* createChoice, updateChoice: both scenes must exist. *)
writeChoice(c, row) ==
  /\ {row.source, row.target} \subseteq scenesOf(graph) \cup {NoScene}
  /\ edit([graph EXCEPT !.choices[c] = row])

updateStateVariable(value) == edit([graph EXCEPT !.default = value])

-----------------------------------------------------------------------------
(* The preflight: one entry scene, choices between scenes that exist, gates on
   the declared variable with values of its type, story consequences that work
   on the variable.  The narrative diagnostics and a stale source revision only
   refuse more releases; they are left out. *)
graphIsValid(g) ==
  /\ Cardinality(entriesOf(g)) = 1
  /\ \A c \in choicesOf(g) :
       {g.choices[c].source, g.choices[c].target} \subseteq scenesOf(g) \cup {NoScene}

gateIsValid(gate) == gate # NoGate => gate.key = "trust" /\ gate.value \in Nat

deltaIsValid(trust, effect) ==
  effect.kind = "story" => trust \in Nat /\ effect.value \in Nat

(* Mutant: the consequences are not previewed. *)
PreflightWithoutPreview(g) ==
  /\ graphIsValid(g)
  /\ \A c \in choicesOf(g) : gateIsValid(g.choices[c].gate)

preflight(g) ==
  /\ graphIsValid(g)
  /\ \A c \in choicesOf(g) : /\ gateIsValid(g.choices[c].gate)
                             /\ deltaIsValid(g.default, g.choices[c].effect)

createRelease(r) ==
  /\ releases[r] = NoRelease
  /\ preflight(graph)
  /\ releases' = [releases EXCEPT ![r] = graph]
  /\ UNCHANGED <<graph, plays, saves, edits>>

-----------------------------------------------------------------------------
startRuntimeRun(p, r) ==
  /\ plays[p] = NoPlay /\ releases[r] # NoRelease
  /\ \E s \in entriesOf(releases[r]) :
       plays' = [plays EXCEPT ![p] = [release |-> r, scene |-> s,
                                      trust |-> releases[r].default,
                                      mood |-> Unset, history |-> <<>>]]
  /\ UNCHANGED <<graph, releases, saves, edits>>

gateHolds(trust, gate) ==
  \/ gate = NoGate
  \/ gate # NoGate /\ gate.operator = "eq" /\ trust = gate.value
  \/ gate # NoGate /\ gate.operator = "gte" /\ gate.value \in Nat /\ trust >= gate.value

(* getRuntimeScene: the choices a player is shown. *)
offered(p) ==
  LET g == releases[plays[p].release]
  IN {c \in choicesOf(g) : /\ g.choices[c].source = plays[p].scene
                           /\ gateHolds(plays[p].trust, g.choices[c].gate)}

applied(old, effect, kind) ==
  IF effect.kind # kind THEN old
  ELSE IF effect.operation = "set" THEN effect.value ELSE old + effect.value

targetOf(row) == IF row.target = NoScene THEN row.source ELSE row.target

(* A character increment needs a number that an earlier choice has set. *)
moodAllows(mood, effect) ==
  (effect.kind = "character" /\ effect.operation = "increment") =>
    mood \in Nat /\ effect.value \in Nat

(* What a choice of the release must meet for its submission not to throw. *)
choiceWorks(p, c) ==
  LET g == releases[plays[p].release]
  IN /\ targetOf(g.choices[c]) \in scenesOf(g)
     /\ deltaIsValid(plays[p].trust, g.choices[c].effect)

submitRuntimeChoice(p, c) ==
  /\ plays[p] # NoPlay /\ Len(plays[p].history) < MaxHistory
  /\ c \in offered(p)
  /\ choiceWorks(p, c)
  /\ LET row == releases[plays[p].release].choices[c]
     IN /\ moodAllows(plays[p].mood, row.effect)
        /\ applied(plays[p].trust, row.effect, "story") \in Levels
        /\ plays' = [plays EXCEPT
                       ![p].scene = targetOf(row),
                       ![p].trust = applied(@, row.effect, "story"),
                       ![p].mood = applied(@, row.effect, "character"),
                       ![p].history = Append(@, c)]
  /\ UNCHANGED <<graph, releases, saves, edits>>

createRuntimeSave(p, v) ==
  /\ plays[p] # NoPlay /\ saves[v] = NoPlay
  /\ saves' = [saves EXCEPT ![v] = plays[p]]
  /\ UNCHANGED <<graph, releases, plays, edits>>

(* Mutant: a loaded run starts again from the release's default. *)
LoadDefaults(v, p) ==
  /\ saves[v] # NoPlay /\ plays[p] = NoPlay
  /\ plays' = [plays EXCEPT ![p] = [saves[v] EXCEPT
                  !.trust = releases[saves[v].release].default, !.mood = Unset]]
  /\ UNCHANGED <<graph, releases, saves, edits>>

(* A new run at the saved scene, story state and history; the character state
   the save keeps is not handed to it. *)
loadRuntimeSave(v, p) ==
  /\ saves[v] # NoPlay /\ plays[p] = NoPlay
  /\ plays' = [plays EXCEPT ![p] = [saves[v] EXCEPT !.mood = Unset]]
  /\ UNCHANGED <<graph, releases, saves, edits>>

ReleaseNext ==
  \/ \E s \in GraphScenes, mark \in {"plain", "entry"} : writeScene(s, mark)
  \/ \E c \in Choices, row \in ChoiceRows : writeChoice(c, row)
  \/ \E value \in Levels : updateStateVariable(value)
  \/ \E r \in Releases : createRelease(r)
  \/ \E p \in Plays : \/ \E r \in Releases : startRuntimeRun(p, r)
                      \/ \E c \in Choices : submitRuntimeChoice(p, c)
                      \/ \E v \in Saves : createRuntimeSave(p, v) \/ loadRuntimeSave(v, p)

ReleaseSpec == ReleaseInit /\ [][ReleaseNext]_releaseVars

-----------------------------------------------------------------------------
(* Types. *)
ReleaseTypeOK ==
  /\ graph \in StoryGraph
  /\ releases \in [Releases -> StoryGraph \cup {NoRelease}]
  /\ plays \in [Plays -> Play \cup {NoPlay}]
  /\ saves \in [Saves -> Play \cup {NoPlay}]
  /\ edits \in 0..MaxEdits

(* Whoever stands in a release stands on one of its scenes. *)
StandsInRelease(play) ==
  /\ releases[play.release] # NoRelease
  /\ play.scene \in scenesOf(releases[play.release])

(* A choice a player is shown works: its target is there and its story effect
   fits the state the run has reached, though the preflight has tried it on the
   defaults only.  (A character increment may still be refused: nothing checks
   that an earlier choice has set the number, and a load forgets it.) *)
OfferedChoiceWorks ==
  \A p \in Plays : plays[p] # NoPlay =>
    /\ StandsInRelease(plays[p])
    /\ \A c \in offered(p) : choiceWorks(p, c)

(* Where a run stands and its story state follow from its release and its
   history alone: some sequence of positions starts at the release's entry scene
   with its default, takes each choice of the history where it was offered, and
   ends where the run is. *)
Replays(play) ==
  LET g == releases[play.release]
      row(n) == g.choices[play.history[n]]
  IN \E f \in [0..Len(play.history) -> GraphScenes \X Levels] :
       /\ f[0][1] \in entriesOf(g) /\ f[0][2] = g.default
       /\ \A n \in 1..Len(play.history) :
            /\ row(n).source = f[n - 1][1]
            /\ gateHolds(f[n - 1][2], row(n).gate)
            /\ f[n] = <<targetOf(row(n)), applied(f[n - 1][2], row(n).effect, "story")>>
       /\ f[Len(play.history)] = <<play.scene, play.trust>>

(* Every run and every save can be replayed, also a run loaded from a save and
   one whose graph was edited after its release: a run never reads the live
   graph, and a load restores all that its history stands for. *)
RunReplays ==
  /\ \A p \in Plays : plays[p] # NoPlay => Replays(plays[p])
  /\ \A v \in Saves : saves[v] # NoPlay => Replays(saves[v])
==============================================================================
