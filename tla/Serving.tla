------------------------------- MODULE Serving -------------------------------
(***************************************************************************)
(* The processes that run the models of a registry: workers, replays and    *)
(* the API each build a DgaDetector (sih_ntd/detectors/dga.py:55-106), which *)
(* reads the registry twice when it starts, first for the champion, then    *)
(* for the challenger, and never again.  The champion's results may become  *)
(* alerts, the challenger's are recorded as shadow results; both are what   *)
(* ml/shadow.py compares.  Operators change the registry (Registry) before,  *)
(* between and after these reads.                                           *)
(***************************************************************************)
EXTENDS Registry

CONSTANTS
  Processes,   \* workers, replays and API processes
  Damaged      \* versions whose artefact load refuses: missing, altered, or of
               \* another feature schema

ASSUME ServingAssumption == Damaged \subseteq Versions

VARIABLES
  stage,    \* of each process: "down", "loading" (champion read), "up"
  running,  \* _champion: the model whose results are used
  shadow,   \* _challenger: the model that is scored for comparison only
  settled,  \* no operation was under way, or has begun, since it started
  scores    \* detector_results: <<model version, shadow?>>

servingVars == <<stage, running, shadow, settled, scores>>
allVars == <<vars, servingVars>>

InitServing ==
  /\ Init
  /\ stage = [p \in Processes |-> "down"]
  /\ running = [p \in Processes |-> None] /\ shadow = [p \in Processes |-> None]
  /\ settled = [p \in Processes |-> FALSE]
  /\ scores = {}

\* Mutant: whatever was registered last is loaded.
NewestOfAny(status) ==
  IF Registered = {} THEN None ELSE CHOOSE v \in Registered : \A u \in Registered : u <= v

\* by_status: the newest model of a status.
NewestOf(status) ==
  LET S == {v \in Versions : meta[v] = status}
  IN  IF S = {} THEN None ELSE CHOOSE v \in S : \A u \in S : u <= v

\* Registry.load: schema version, path, hash and class must be the recorded ones.
Loads(v) == v \notin Damaged

\* _load, when load has refused an artefact: it runs without a model.
Unavailable(p) ==
  /\ stage' = [stage EXCEPT ![p] = "up"]
  /\ running' = [running EXCEPT ![p] = None]

\* A process starts and reads the champion.  A metadata file that does not parse
\* is an error _load does not catch: the process ends and is started again.
LoadChampion(p) ==
  /\ stage[p] = "down"
  /\ Readable
  /\ LET c == NewestOf("CHAMPION")
     IN  IF c = None \/ ~Loads(c)
         THEN Unavailable(p)
         ELSE /\ stage' = [stage EXCEPT ![p] = "loading"]
              /\ running' = [running EXCEPT ![p] = c]
  /\ settled' = [settled EXCEPT ![p] = Quiet]
  /\ UNCHANGED <<vars, shadow, scores>>

\* Mutant: the challenger is put in the champion's place.
LoadChallengerToRun(p) ==
  /\ stage[p] = "loading"
  /\ Readable
  /\ LET c == NewestOf("CHALLENGER")
     IN  /\ stage' = [stage EXCEPT ![p] = "up"]
         /\ running' = [running EXCEPT ![p] = IF c = None THEN @ ELSE c]
  /\ UNCHANGED <<vars, shadow, settled, scores>>

\* It reads the challenger.  One that load refuses takes the champion with it.
LoadChallenger(p) ==
  /\ stage[p] = "loading"
  /\ Readable
  /\ LET c == NewestOf("CHALLENGER")
     IN  IF c # None /\ ~Loads(c)
         THEN Unavailable(p) /\ UNCHANGED shadow
         ELSE /\ stage' = [stage EXCEPT ![p] = "up"]
              /\ shadow' = [shadow EXCEPT ![p] = c]
              /\ UNCHANGED running
  /\ UNCHANGED <<vars, settled, scores>>

\* The process ends: it is restarted, or it meets a file that does not parse.
Stop(p) ==
  /\ stage[p] = "up" \/ (stage[p] = "loading" /\ ~Readable)
  /\ stage' = [stage EXCEPT ![p] = "down"]
  /\ running' = [running EXCEPT ![p] = None]
  /\ shadow' = [shadow EXCEPT ![p] = None]
  /\ settled' = [settled EXCEPT ![p] = FALSE]
  /\ UNCHANGED <<vars, scores>>

\* evaluate and shadow_evaluate of one name, and their results stored.
Score(p) ==
  /\ stage[p] = "up"
  /\ running[p] # None
  /\ scores' = scores \cup {<<running[p], FALSE>>}
                      \cup (IF shadow[p] = None THEN {} ELSE {<<shadow[p], TRUE>>})
  /\ UNCHANGED <<vars, stage, running, shadow, settled>>

\* The registry changes under the processes.
Operate ==
  /\ Next
  /\ settled' = [p \in Processes |-> settled[p] /\ ops' = ops]
  /\ UNCHANGED <<stage, running, shadow, scores>>

NextServing ==
  \/ Operate
  \/ \E p \in Processes : LoadChampion(p) \/ LoadChallenger(p) \/ Stop(p) \/ Score(p)

SpecServing == InitServing /\ [][NextServing]_allVars

\* A process that is down is started (docker-compose.yml:37, 54) and loads its
\* models; an operation under way goes on.
FairSpecServing ==
  /\ SpecServing
  /\ \A p \in Processes : WF_allVars(LoadChampion(p)) /\ WF_allVars(LoadChallenger(p))
  /\ \A o \in Operators : WF_allVars(pc[o] # "idle" /\ Operate /\ pc'[o] # pc[o])
-----------------------------------------------------------------------------
(* ml/shadow.py: what compare is given.                                     *)

\* detector_result_scores of a detector: of every model it ever ran.
LiveScores(isShadow) == {s[1] : s \in {s \in scores : s[2] = isShadow}}

\* The models it names, and those whose live scores it takes for theirs.
Compared ==
  [champion |-> Champion, challenger |-> NewestOf("CHALLENGER"),
   live |-> LiveScores(FALSE), shadow |-> LiveScores(TRUE)]
-----------------------------------------------------------------------------
(* Properties.                                                              *)

TypeOKServing ==
  /\ TypeOK
  /\ stage \in [Processes -> {"down", "loading", "up"}]
  /\ running \in [Processes -> Versions \cup {None}]
  /\ shadow \in [Processes -> Versions \cup {None}]
  /\ settled \in [Processes -> BOOLEAN]
  /\ scores \in SUBSET (Versions \X BOOLEAN)

\* The gate passed, or an operator acknowledged what failed.
Approved(v) ==
  \E i \in 1..Len(log) : /\ log[i].version = v /\ log[i].to = "CHAMPION"
                         /\ log[i].why \in {"promotion", "acknowledged"}

\* What an operator is just about to record.
Unrecorded == {Target(o).version : o \in {o \in Operators : pc[o] = "log"}}

\* docs/CONTINUOUS_LEARNING.md:157 and api.py:368-370: no model raises alerts but
\* one that passed the gate, or whose failures were acknowledged, on record,
\* however many promotions and rollbacks there were (dga.py:71-82, registry.py:
\* 280-318); operators between the file and the log, or dead there, excepted.
ServedWasPromoted ==
  Cardinality({v \in LiveScores(FALSE) \ Unrecorded : ~Approved(v)}) <= crashes

OnRecord(status) ==
  {v \in Versions : /\ \E i \in 1..Len(log) : log[i].version = v
                    /\ LastRecord(v).to = status}

\* "restart detection workers to load the new champion" (api.py:402): a process
\* started after the last of some operations in turn was answered, and up before
\* the next, runs the champion of the promotion log, or none if there is none or
\* an artefact it needs is damaged.
RestartServesTheRecord ==
  \A p \in Processes :
    stage[p] = "up" /\ settled[p] /\ ~overlapped /\ crashes = 0 =>
      IF running[p] # None
      THEN OnRecord("CHAMPION") = {running[p]}
      ELSE \/ OnRecord("CHAMPION") = {}
           \/ Damaged \cap (OnRecord("CHAMPION") \cup OnRecord("CHALLENGER")) # {}

\* pipeline.py:142: "shadow must never affect production": a challenger that
\* cannot be loaded leaves the champion alone (dga.py:81-84).
BadChallengerSparesChampion ==
  \A p \in Processes :
    stage[p] = "up" /\ settled[p] /\ Quiet /\ Champion # None /\ Champion \notin Damaged
      => running[p] # None

\* ml/shadow.py:3-5 compares the challenger with the champion: the scores are
\* theirs.
ComparesTheNamed ==
  Quiet /\ None \notin {Compared.champion, Compared.challenger} =>
    /\ Compared.live \subseteq {Compared.champion}
    /\ Compared.shadow \subseteq {Compared.challenger}

\* docs/ARCHITECTURE.md:132: a detector that has no model says so and returns
\* nothing: a process that is down comes up, in whatever state the files are.
ProcessesComeUp == \A p \in Processes : (stage[p] = "down") ~> (stage[p] = "up")
=============================================================================
