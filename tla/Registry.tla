------------------------------ MODULE Registry ------------------------------
(***************************************************************************)
(* The model registry of one detector (sih_ntd/ml/registry.py): metadata    *)
(* files, artefacts and the promotions log, and the operations that change  *)
(* them: register, promote through the governance gate (sih_ntd/api.py:     *)
(* 362-403, cli.py:142-171) and rollback.  There is no lock: API threads    *)
(* and CLI processes run the same code on the same directory.               *)
(*                                                                         *)
(* A step reads the directory once, opens a file for writing (write_text    *)
(* truncates it), fills it, or appends one line to the log.  A metadata     *)
(* file that is truncated cannot be parsed: whoever lists the models fails. *)
(***************************************************************************)
EXTENDS Integers, Sequences, FiniteSets

CONSTANTS
  Operators,    \* API threads and CLI processes
  MaxVersion,   \* bound: versions are 1..MaxVersion, in order of training time
  F1,           \* F1 of each version
  Sound,        \* versions that pass the gates on the candidate alone
  Targets,      \* statuses requested of promote
  MaxOps,       \* bound: operations started
  MaxCrashes,   \* bound: operators that die
  None

Versions == 1..MaxVersion
Statuses == {"CANDIDATE", "CHALLENGER", "CHAMPION", "RETIRED", "REJECTED"}

ASSUME RegistryAssumption ==
  /\ MaxVersion \in Nat \ {0} /\ None \notin Nat \cup Statuses
  /\ F1 \in [Versions -> Nat]
  /\ Sound \subseteq Versions
  /\ Targets \subseteq Statuses
  /\ MaxOps \in Nat /\ MaxCrashes \in Nat

VARIABLES
  artifacts,   \* versions whose .joblib exists
  meta,        \* status in each .json, None when there is no file
  torn,        \* .json files truncated and not yet filled
  log,         \* promotions.jsonl
  pc,          \* where each operator is
  plan,        \* the set_status calls it has still to make
  from,        \* status read at the start of set_status
  incumbent,   \* champion read at the start of set_status
  ops, crashes,
  overlapped   \* whether two operations were ever under way at once

files == <<artifacts, meta, torn, log>>
local == <<pc, plan, from, incumbent>>
vars == <<files, local, ops, crashes, overlapped>>

Registered == {v \in Versions : meta[v] # None}

\* list_models parses every file; by_status returns the newest match.
Readable == torn = {}
Champions == {v \in Versions : meta[v] = "CHAMPION"}
Champion == IF Champions = {} THEN None
            ELSE CHOOSE v \in Champions : \A u \in Champions : u <= v

PCs == {"idle", "check", "dump", "set", "retire", "retiring", "log_retire",
        "write", "writing", "log"}

\* One call of set_status: "why" tells promotion, rollback and registration apart.
Call(v, to, why) == [version |-> v, to |-> to, why |-> why]

Init ==
  /\ artifacts = {} /\ meta = [v \in Versions |-> None] /\ torn = {} /\ log = <<>>
  /\ pc = [o \in Operators |-> "idle"] /\ plan = [o \in Operators |-> <<>>]
  /\ from = [o \in Operators |-> None] /\ incumbent = [o \in Operators |-> None]
  /\ ops = 0 /\ crashes = 0 /\ overlapped = FALSE

Goto(o, label) == pc' = [pc EXCEPT ![o] = label]

Begin(o, calls, label) ==
  /\ pc[o] = "idle"
  /\ ops < MaxOps
  /\ ops' = ops + 1
  /\ overlapped' = (overlapped \/ \E p \in Operators : pc[p] # "idle")
  /\ Readable
  /\ plan' = [plan EXCEPT ![o] = calls]
  /\ Goto(o, label)

\* The process dies, or an exception leaves the operation.
GiveUp(o) ==
  /\ Goto(o, "idle")
  /\ plan' = [plan EXCEPT ![o] = <<>>]
  /\ from' = [from EXCEPT ![o] = None]
  /\ incumbent' = [incumbent EXCEPT ![o] = None]
-----------------------------------------------------------------------------
\* Mutant: only the candidates are counted.
NextVersionOfCandidates == Cardinality({v \in Versions : meta[v] = "CANDIDATE"}) + 1

\* The per-day counter: one more than the models of that day.
NextVersion == Cardinality(Registered) + 1

\* train_dga: the version is chosen from list_models.
Register(o) ==
  /\ NextVersion \in Versions
  /\ Begin(o, <<Call(NextVersion, "CANDIDATE", "registration")>>, "check")
  /\ UNCHANGED <<files, from, incumbent, crashes>>

\* register refuses a version whose artefact exists,
CheckArtifact(o) ==
  /\ pc[o] = "check"
  /\ IF Head(plan[o]).version \in artifacts
     THEN GiveUp(o)
     ELSE Goto(o, "dump") /\ UNCHANGED <<plan, from, incumbent>>
  /\ UNCHANGED <<files, ops, crashes, overlapped>>

\* and dumps it: another trainer may have found it free as well, and dumped it.
Dump(o) ==
  /\ pc[o] = "dump"
  /\ artifacts' = artifacts \cup {Head(plan[o]).version}
  /\ Goto(o, "write")
  /\ UNCHANGED <<meta, torn, log, plan, from, incumbent, ops, crashes, overlapped>>

\* Mutant: improves_on_champion compares the wrong way round.
GateReversed(v) == v \in Sound /\ (Champion # None => F1[v] <= F1[Champion])

\* PromotionGate.evaluate; improves_on_champion is the only gate that looks at
\* another model.
Gate(v) == v \in Sound /\ (Champion # None => F1[v] >= F1[Champion])

\* promote_model: the gate is evaluated now, set_status comes later.  A gate that
\* the operator acknowledges does not block.
Promote(o, v, to, acknowledged) ==
  /\ v \in Registered
  /\ Gate(v) \/ acknowledged
  /\ Begin(o, <<Call(v, to, IF Gate(v) THEN "promotion" ELSE "acknowledged")>>, "set")
  /\ UNCHANGED <<files, from, incumbent, crashes>>

\* The newest record of c's promotion that names a previous champion.
Predecessors(c) ==
  {i \in 1..Len(log) : log[i].version = c /\ log[i].to = "CHAMPION" /\ log[i].prev # None}

\* rollback: the champion is retired, then the one it replaced is promoted.
Rollback(o) ==
  /\ Champion # None
  /\ \E i \in Predecessors(Champion) :
       /\ \A j \in Predecessors(Champion) : j <= i
       /\ Begin(o, <<Call(Champion, "RETIRED", "rollback"),
                     Call(log[i].prev, "CHAMPION", "rollback")>>, "set")
  /\ UNCHANGED <<files, from, incumbent, crashes>>
-----------------------------------------------------------------------------
(* set_status.                                                              *)

Target(o) == Head(plan[o])

\* It reads the model, and the champion when it is about to make one.
SetStatusRead(o) ==
  /\ pc[o] = "set"
  /\ LET v == Target(o).version
         needed == IF Target(o).to = "CHAMPION" THEN Registered ELSE {v}
     IN  IF needed \cap torn # {}
         THEN GiveUp(o)
         ELSE LET other == IF Target(o).to = "CHAMPION" /\ Champion # v
                           THEN Champion ELSE None
              IN  /\ from' = [from EXCEPT ![o] = meta[v]]
                  /\ incumbent' = [incumbent EXCEPT ![o] = other]
                  /\ Goto(o, IF other = None THEN "write" ELSE "retire")
                  /\ UNCHANGED plan
  /\ UNCHANGED <<files, ops, crashes, overlapped>>

\* write_text opens the file: it is empty now.
OpenFile(o, v, label) ==
  /\ torn' = torn \cup {v}
  /\ Goto(o, label)
  /\ UNCHANGED <<artifacts, meta, log, plan, from, incumbent, ops, crashes, overlapped>>

FillFile(o, v, status, label) ==
  /\ torn' = torn \ {v}
  /\ meta' = [meta EXCEPT ![v] = status]
  /\ Goto(o, label)
  /\ UNCHANGED <<artifacts, log, plan, from, incumbent, ops, crashes, overlapped>>

OpenIncumbent(o) == pc[o] = "retire" /\ OpenFile(o, incumbent[o], "retiring")

\* Mutant: the incumbent is written back as it was.
RetireIncumbentUnchanged(o) ==
  pc[o] = "retiring" /\ FillFile(o, incumbent[o], "CHAMPION", "log_retire")

\* Mutant: the incumbent is forgotten before it is logged.
RetireIncumbentForgets(o) ==
  /\ pc[o] = "retiring"
  /\ torn' = torn \ {incumbent[o]}
  /\ meta' = [meta EXCEPT ![incumbent[o]] = "RETIRED"]
  /\ incumbent' = [incumbent EXCEPT ![o] = None]
  /\ Goto(o, "log_retire")
  /\ UNCHANGED <<artifacts, log, plan, from, ops, crashes, overlapped>>

RetireIncumbent(o) ==
  pc[o] = "retiring" /\ FillFile(o, incumbent[o], "RETIRED", "log_retire")

\* Mutant: only the promotion is logged.
LogRetiredSilently(o) ==
  /\ pc[o] = "log_retire"
  /\ Goto(o, "write")
  /\ UNCHANGED <<files, plan, from, incumbent, ops, crashes, overlapped>>

LogRetired(o) ==
  /\ pc[o] = "log_retire"
  /\ log' = Append(log, [version |-> incumbent[o], from |-> "CHAMPION",
                         to |-> "RETIRED", prev |-> None, why |-> "superseded"])
  /\ Goto(o, "write")
  /\ UNCHANGED <<artifacts, meta, torn, plan, from, incumbent, ops, crashes, overlapped>>

OpenTarget(o) == pc[o] = "write" /\ OpenFile(o, Target(o).version, "writing")

WriteTarget(o) ==
  pc[o] = "writing" /\ FillFile(o, Target(o).version, Target(o).to, "log")

\* Mutant: the record does not name the incumbent.
LogStatusUnnamed(o) ==
  /\ pc[o] = "log"
  /\ log' = Append(log, [version |-> Target(o).version, from |-> from[o],
                         to |-> Target(o).to, prev |-> None,
                         why |-> Target(o).why])
  /\ plan' = [plan EXCEPT ![o] = Tail(@)]
  /\ from' = [from EXCEPT ![o] = None]
  /\ incumbent' = [incumbent EXCEPT ![o] = None]
  /\ Goto(o, IF Len(plan[o]) = 1 THEN "idle" ELSE "set")
  /\ UNCHANGED <<artifacts, meta, torn, ops, crashes, overlapped>>

\* The record of the transition; then the next call of the plan.
LogStatus(o) ==
  /\ pc[o] = "log"
  /\ log' = Append(log, [version |-> Target(o).version, from |-> from[o],
                         to |-> Target(o).to, prev |-> incumbent[o],
                         why |-> Target(o).why])
  /\ plan' = [plan EXCEPT ![o] = Tail(@)]
  /\ from' = [from EXCEPT ![o] = None]
  /\ incumbent' = [incumbent EXCEPT ![o] = None]
  /\ Goto(o, IF Len(plan[o]) = 1 THEN "idle" ELSE "set")
  /\ UNCHANGED <<artifacts, meta, torn, ops, crashes, overlapped>>

Crash(o) ==
  /\ pc[o] # "idle"
  /\ crashes < MaxCrashes
  /\ crashes' = crashes + 1
  /\ GiveUp(o)
  /\ UNCHANGED <<files, ops, overlapped>>
-----------------------------------------------------------------------------
Next ==
  \E o \in Operators :
    \/ Register(o) \/ CheckArtifact(o) \/ Dump(o)
    \/ \E v \in Versions, to \in Targets, acknowledged \in BOOLEAN :
         Promote(o, v, to, acknowledged)
    \/ Rollback(o)
    \/ SetStatusRead(o) \/ OpenIncumbent(o) \/ RetireIncumbent(o) \/ LogRetired(o)
    \/ OpenTarget(o) \/ WriteTarget(o) \/ LogStatus(o)
    \/ Crash(o)

Spec == Init /\ [][Next]_vars
-----------------------------------------------------------------------------
(* Properties.                                                              *)

Calls == [version : Versions, to : Statuses,
          why : {"registration", "promotion", "acknowledged", "rollback"}]

Records == [version : Versions, from : Statuses \cup {None}, to : Statuses,
            prev : Versions \cup {None},
            why : {"registration", "promotion", "acknowledged", "rollback", "superseded"}]

TypeOK ==
  /\ artifacts \in SUBSET Versions /\ torn \in SUBSET Versions
  /\ meta \in [Versions -> Statuses \cup {None}]
  /\ log \in Seq(Records)
  /\ pc \in [Operators -> PCs]
  /\ plan \in [Operators -> Seq(Calls)]
  /\ from \in [Operators -> Statuses \cup {None}]
  /\ incumbent \in [Operators -> Versions \cup {None}]
  /\ ops \in 0..MaxOps /\ crashes \in 0..MaxCrashes /\ overlapped \in BOOLEAN

Quiet == \A o \in Operators : pc[o] = "idle"

\* docs/CONTINUOUS_LEARNING.md:144: "Promoting to CHAMPION retires the incumbent":
\* no two models are champion, at any moment (registry.py:264-284).
AtMostOneChampion == \A u, v \in Champions : u = v

\* The incumbent is retired before the new champion is written (registry.py:
\* 268-284): operations that follow each other never make a second champion,
\* wherever a process dies.
OneChampionInTurn == ~overlapped => AtMostOneChampion

LastRecord(v) ==
  LET S == {i \in 1..Len(log) : log[i].version = v}
  IN  log[CHOOSE i \in S : \A j \in S : j <= i]

Unlogged ==
  {v \in Registered : \/ \A i \in 1..Len(log) : log[i].version # v
                      \/ LastRecord(v).to # meta[v]}

\* "Every transition appends a PromotionRecord" (docs/CONTINUOUS_LEARNING.md:145):
\* between operations the files differ from what was last logged in at most one
\* model for each process that died.
LogLagsByCrashes == Quiet /\ ~overlapped => Cardinality(Unlogged) <= crashes

\* improves_on_champion (governance.py:112-119): a model promoted without an
\* acknowledgement is at least as good as the champion it replaced.
ChampionNeverWorse ==
  ~overlapped =>
    \A i \in 1..Len(log) :
      log[i].why = "promotion" /\ log[i].prev # None => F1[log[i].version] >= F1[log[i].prev]

Unnamed ==
  {i \in 1..Len(log) : log[i].why = "superseded"
                       /\ \A j \in (i + 1)..Len(log) : log[j].prev # log[i].version}

\* "the record names it so rollback can restore it without guessing"
\* (registry.py:256-257): every superseded model is named by a promotion, but for
\* one per process that died, operators working at once or not.
SupersededIsNamed == Quiet => Cardinality(Unnamed) <= crashes

\* A version that next_version will choose for ever and register refuse
\* (registry.py:322-327, registry.py:115-117) is left only by a death: training
\* is never blocked otherwise, operators working at once or not.
NextVersionIsFree == Quiet /\ crashes = 0 => NextVersion \notin artifacts

\* The champions one replaced by the other, oldest first, after n log records:
\* a promotion is put on top, a rollback takes the top off.
Reigns[n \in 0..MaxOps * 4] ==
  IF n = 0 THEN <<>>
  ELSE LET r == log[n]
           before == Reigns[n - 1]
           top == IF before = <<>> THEN None ELSE before[Len(before)]
       IN  CASE r.to = "CHAMPION" /\ r.why # "rollback" /\ r.version # top
                  -> Append(before, r.version)
             [] r.to = "RETIRED" /\ r.why = "rollback" /\ before # <<>>
                  -> SubSeq(before, 1, Len(before) - 1)
             [] OTHER -> before

\* registry.py:297: rollback shall "restore the champion that the current one
\* replaced": the model below it, not one it was once restored from.
RollbackUndoes ==
  \A i \in 1..Len(log) :
    log[i].why = "rollback" /\ log[i].to = "CHAMPION" =>
      /\ Reigns[i] # <<>>
      /\ Reigns[i][Len(Reigns[i])] = log[i].version
=============================================================================
