---------------------------- MODULE ServingProofs ----------------------------
(***************************************************************************)
(* Proofs about Registry and Serving, for any operators, processes, models   *)
(* and bounds: the types, the champions, what the promotions log says of     *)
(* them, and which models a restarted process runs.                         *)
(***************************************************************************)
EXTENDS Serving, DataProofs, FiniteSetTheorems, SequenceTheorems

\* What one operator does.
Acts(o) ==
  \/ Register(o) \/ CheckArtifact(o) \/ Dump(o)
  \/ \E v \in Versions, to \in Targets, acknowledged \in BOOLEAN :
       Promote(o, v, to, acknowledged)
  \/ Rollback(o)
  \/ SetStatusRead(o) \/ OpenIncumbent(o) \/ RetireIncumbent(o) \/ LogRetired(o)
  \/ OpenTarget(o) \/ WriteTarget(o) \/ LogStatus(o)
  \/ Crash(o)

\* An operator at work has a call to make, and an incumbent from reading it until
\* the record that names it.  Only the second call of a rollback follows another.
Working(o) ==
  /\ pc[o] = "idle" <=> plan[o] = <<>>
  /\ \A i \in 2..Len(plan[o]) : plan[o][i].why = "rollback"
  /\ pc[o] \in {"idle", "check", "dump", "set"} => incumbent[o] = None
  /\ pc[o] \in {"retire", "retiring", "log_retire"} => incumbent[o] # None

\* The registry's state has its types, and every operator is somewhere.
WellFormed == TypeOK /\ \A o \in Operators : Working(o)

\* A call to register numbers the next version; any other is about a model there is.
Numbers(c) ==
  IF c.why = "registration" THEN 1..(c.version - 1) \subseteq Registered
  ELSE c.version \in Registered

\* Versions are registered one after the other, and all the registry's files and
\* operators speak of registered ones, but an artefact without metadata: that is the
\* work of an operator that is about to write them, or died.
Numbered ==
  /\ \A v \in Registered : 1..v \subseteq Registered
  /\ \A i \in 1..Len(log) : log[i].version \in Registered
  /\ \A i \in 1..Len(log) : log[i].prev # None => log[i].prev \in Registered
  /\ \A o \in Operators :
       /\ \A i \in 1..Len(plan[o]) : Numbers(plan[o][i])
       /\ incumbent[o] # None => incumbent[o] \in Registered
       /\ pc[o] = "log" => Target(o).version \in Registered
  /\ crashes = 0 =>
       \A v \in artifacts \ Registered :
         \E o \in Operators : pc[o] \in {"write", "writing"} /\ Target(o).version = v

\* Every superseded model is named in the log, or about to be by the operator that
\* retired it, each operator by one record at most; or it is one of the E for which
\* an operator died.
Superseding ==
  \E E \in SUBSET (1..Len(log)), owner \in [1..Len(log) -> Operators] :
    /\ Cardinality(E) <= crashes
    /\ \A i \in Unnamed \ E : /\ pc[owner[i]] \in {"write", "writing", "log"}
                              /\ incumbent[owner[i]] = log[i].version
    /\ \A i, j \in Unnamed \ E : owner[i] = owner[j] => i = j

\* v was promoted on record, or is about to be recorded; or it is in E.
Excused(E, v) ==
  \/ v \in E
  \/ Approved(v)
  \/ \E o \in Operators : /\ pc[o] = "log" /\ Target(o).version = v /\ Target(o).to = "CHAMPION"
                          /\ Target(o).why \in {"promotion", "acknowledged"}

\* Every model that is or was champion, wherever it is remembered, was promoted; or
\* it is one of the E for which an operator died.
Promoting ==
  \E E \in SUBSET Versions :
    /\ Cardinality(E) <= crashes
    /\ \A v \in Champions : Excused(E, v)
    /\ \A i \in 1..Len(log) : log[i].prev # None => Excused(E, log[i].prev)
    /\ \A o \in Operators :
         /\ incumbent[o] # None => Excused(E, incumbent[o])
         /\ \A i \in 1..Len(plan[o]) :
              plan[o][i].to = "CHAMPION" => \/ plan[o][i].why \in {"promotion", "acknowledged"}
                                            \/ Excused(E, plan[o][i].version)
    /\ \A p \in Processes : running[p] # None => Excused(E, running[p])
    /\ \A s \in scores : s[2] = FALSE => Excused(E, s[1])

\* Where an operator is that works alone: the incumbent is champion until it is
\* retired, nobody is before the new champion is written, and what a promotion
\* replaces is no better than what the gate compared it with.
Turn(o) ==
  /\ pc[o] \in {"check", "dump"} => Target(o).to # "CHAMPION"
  /\ pc[o] = "set" /\ Target(o).why = "promotion" /\ Champion # None =>
       F1[Target(o).version] >= F1[Champion]
  /\ incumbent[o] # None /\ Target(o).why = "promotion" =>
       F1[Target(o).version] >= F1[incumbent[o]]
  /\ pc[o] \in {"retire", "retiring"} => Champions \subseteq {incumbent[o]}
  /\ pc[o] = "log_retire" => Champions = {} /\ meta[incumbent[o]] = "RETIRED"
  /\ pc[o] \in {"write", "writing"} /\ Target(o).to = "CHAMPION" =>
       Champions \subseteq {Target(o).version}
  /\ pc[o] = "log" => meta[Target(o).version] = Target(o).to

\* Nobody else is at work.
Alone == \A o, p \in Operators : pc[o] # "idle" /\ pc[p] # "idle" => o = p

\* Operations that follow each other.
InTurn ==
  ~overlapped => Alone /\ AtMostOneChampion /\ \A o \in Operators : Turn(o)

\* The index of v's last record in a log q.
LastIn(q, v) ==
  LET S == {i \in 1..Len(q) : q[i].version = v}
  IN  CHOOSE i \in S : \A j \in S : j <= i

\* Of operations in turn, what the log does not tell yet is what the operator at
\* work will record next; or it is one of the E that an operator died over.
Lagging ==
  ~overlapped =>
    \E E \in SUBSET Versions :
      /\ Cardinality(E) <= crashes
      /\ \A v \in Unlogged \ E :
           \E o \in Operators : \/ pc[o] = "log_retire" /\ incumbent[o] = v
                                \/ pc[o] = "log" /\ Target(o).version = v

\* What a settled process runs is the newest champion still, unless an artefact it
\* needs is damaged: no operation began since it read the registry.
Settling(p) ==
  /\ settled[p] => Quiet
  /\ stage[p] = "down" => ~settled[p]
  /\ settled[p] /\ stage[p] = "loading" => running[p] # None
  /\ settled[p] /\ running[p] # None => running[p] = NewestOf("CHAMPION")
  /\ settled[p] /\ stage[p] = "up" /\ running[p] = None =>
       \/ NewestOf("CHAMPION") = None
       \/ NewestOf("CHAMPION") # None /\ NewestOf("CHAMPION") \in Damaged
       \/ NewestOf("CHALLENGER") # None /\ NewestOf("CHALLENGER") \in Damaged
-----------------------------------------------------------------------------
(* Types.                                                                   *)

\* The newest of some versions is one of them, and no other is newer.
LEMMA NewestExists ==
  ASSUME NEW S \in SUBSET Versions, S # {}
  PROVE  \E v \in S : \A u \in S : u <= v
BY GreatestNat, RegistryAssumption DEF Versions

\* The champion is the newest model of that status, if there is one.
LEMMA ChampionIsOne ==
  /\ Champion # None => Champion \in Champions
  /\ Champion = None => Champions = {}
<1>1. Champions \in SUBSET Versions /\ None \notin Versions
  BY RegistryAssumption DEF Champions, Versions
<1>2. CASE Champions = {}
  BY <1>2 DEF Champion
<1>3. CASE Champions # {}
  <2>1. \E v \in Champions : \A u \in Champions : u <= v
    BY <1>1, <1>3, NewestExists
  <2>2. Champion \in Champions
    BY <1>3, <2>1 DEF Champion
  <2> QED BY <1>1, <1>3, <2>2
<1> QED BY <1>2, <1>3

\* The first call of an operator at work.
LEMMA TargetIsCall ==
  ASSUME TypeOK, NEW o \in Operators, plan[o] # <<>>
  PROVE  /\ Target(o) = plan[o][1] /\ Target(o) \in Calls
         /\ Target(o).version \in Versions /\ Target(o).to \in Statuses
         /\ Tail(plan[o]) \in Seq(Calls)
         /\ Len(plan[o]) \in Nat \ {0} /\ Len(Tail(plan[o])) = Len(plan[o]) - 1
         /\ \A i \in 1..Len(Tail(plan[o])) : Tail(plan[o])[i] = plan[o][i + 1]
<1>1. plan[o] \in Seq(Calls)
  BY DEF TypeOK
<1> HIDE DEF Calls
<1>2. Target(o) = plan[o][1] /\ Target(o) \in Calls
  BY <1>1 DEF Target
<1>3. Target(o).version \in Versions /\ Target(o).to \in Statuses
  BY <1>2 DEF Calls
<1> QED BY <1>1, <1>2, <1>3

\* A call is one of the plan's.
LEMMA CallType ==
  ASSUME NEW v \in Versions, NEW to \in Statuses,
         NEW why \in {"registration", "promotion", "acknowledged", "rollback"}
  PROVE  /\ Call(v, to, why) \in Calls
         /\ Call(v, to, why).version = v /\ Call(v, to, why).to = to
         /\ Call(v, to, why).why = why
BY DEF Call, Calls

\* The parts of the type that one step touches, apart.
LEMMA TypeParts ==
  ASSUME TypeOK
  PROVE  /\ artifacts \in SUBSET Versions /\ torn \in SUBSET Versions
         /\ meta \in [Versions -> Statuses \cup {None}]
         /\ log \in Seq(Records)
         /\ pc \in [Operators -> PCs]
         /\ plan \in [Operators -> Seq(Calls)]
         /\ from \in [Operators -> Statuses \cup {None}]
         /\ incumbent \in [Operators -> Versions \cup {None}]
         /\ ops \in Nat /\ crashes \in Nat /\ overlapped \in BOOLEAN
BY RegistryAssumption DEF TypeOK

\* Everything starts well formed.
LEMMA InitWellFormed == Init => WellFormed
<1> SUFFICES ASSUME Init PROVE WellFormed
  OBVIOUS
<1>1. log \in Seq(Records) /\ ops \in 0..MaxOps /\ crashes \in 0..MaxCrashes
  BY RegistryAssumption DEF Init
<1>2. plan \in [Operators -> Seq(Calls)]
  BY DEF Init
<1>3. TypeOK
  BY <1>1, <1>2 DEF Init, TypeOK, PCs
<1>4. \A o \in Operators : Working(o)
  BY DEF Init, Working
<1> QED BY <1>3, <1>4 DEF WellFormed

\* What an operation that begins does to the operators' state.
LEMMA BeginKeepsForm ==
  ASSUME WellFormed, NEW o \in Operators, NEW calls \in Seq(Calls), calls # <<>>,
         \A i \in 2..Len(calls) : calls[i].why = "rollback",
         NEW label \in {"check", "set"}, Begin(o, calls, label),
         UNCHANGED <<files, from, incumbent, crashes>>
  PROVE  WellFormed'
<1> USE DEF Begin, Goto
<1>1. TypeOK
  BY DEF WellFormed
<1>2. /\ pc \in [Operators -> PCs] /\ plan \in [Operators -> Seq(Calls)]
      /\ ops' \in 0..MaxOps /\ overlapped' \in BOOLEAN
  BY <1>1, RegistryAssumption DEF TypeOK
<1>3. pc' \in [Operators -> PCs] /\ plan' \in [Operators -> Seq(Calls)]
  BY <1>2 DEF PCs
<1>4. TypeOK'
  BY <1>1, <1>2, <1>3 DEF TypeOK, files
<1>5. \A p \in Operators : Working(p)'
  BY <1>2 DEF Working, WellFormed
<1> QED BY <1>4, <1>5 DEF WellFormed

\* What an operation that is given up does to the operators' state.
LEMMA GiveUpKeepsForm ==
  ASSUME WellFormed, NEW o \in Operators, GiveUp(o), UNCHANGED <<files, ops, overlapped>>,
         crashes' \in 0..MaxCrashes
  PROVE  WellFormed'
<1> USE DEF GiveUp, Goto
<1>1. TypeOK
  BY DEF WellFormed
<1>2. /\ pc \in [Operators -> PCs] /\ plan \in [Operators -> Seq(Calls)]
      /\ from \in [Operators -> Statuses \cup {None}]
      /\ incumbent \in [Operators -> Versions \cup {None}]
  BY <1>1 DEF TypeOK
<1>3. <<>> \in Seq(Calls)
  OBVIOUS
<1>4. /\ pc' \in [Operators -> PCs] /\ plan' \in [Operators -> Seq(Calls)]
      /\ from' \in [Operators -> Statuses \cup {None}]
      /\ incumbent' \in [Operators -> Versions \cup {None}]
  BY <1>2, <1>3 DEF PCs
<1>5. TypeOK'
  BY <1>1, <1>4 DEF TypeOK, files
<1>6. \A p \in Operators : Working(p)'
  BY <1>2 DEF Working, WellFormed
<1> QED BY <1>5, <1>6 DEF WellFormed

\* The operations that begin choose well-formed plans.
LEMMA BeginsWellFormed ==
  ASSUME WellFormed, NEW o \in Operators
  PROVE  /\ Register(o) => WellFormed'
         /\ \A v \in Versions, to \in Targets, acknowledged \in BOOLEAN :
              Promote(o, v, to, acknowledged) => WellFormed'
         /\ Rollback(o) => WellFormed'
<1>1. TypeOK
  BY DEF WellFormed
<1>2. ASSUME Register(o) PROVE WellFormed'
  <2> DEFINE c == Call(NextVersion, "CANDIDATE", "registration")
  <2>1. c \in Calls
    BY <1>2, CallType DEF Register, Statuses
  <2> HIDE DEF c
  <2>2. <<c>> \in Seq(Calls) /\ <<c>> # <<>> /\ \A i \in 2..Len(<<c>>) : <<c>>[i].why = "rollback"
    BY <2>1
  <2>3. Begin(o, <<c>>, "check") /\ UNCHANGED <<files, from, incumbent, crashes>>
    BY <1>2 DEF Register, c
  <2> QED BY <2>2, <2>3, BeginKeepsForm
<1>3. ASSUME NEW v \in Versions, NEW to \in Targets, NEW acknowledged \in BOOLEAN,
             Promote(o, v, to, acknowledged)
      PROVE  WellFormed'
  <2> DEFINE c == Call(v, to, IF Gate(v) THEN "promotion" ELSE "acknowledged")
  <2>1. c \in Calls
    BY <1>3, CallType, RegistryAssumption
  <2> HIDE DEF c
  <2>2. <<c>> \in Seq(Calls) /\ <<c>> # <<>> /\ \A i \in 2..Len(<<c>>) : <<c>>[i].why = "rollback"
    BY <2>1
  <2>3. Begin(o, <<c>>, "set") /\ UNCHANGED <<files, from, incumbent, crashes>>
    BY <1>3 DEF Promote, c
  <2> QED BY <2>2, <2>3, BeginKeepsForm
<1>4. ASSUME Rollback(o) PROVE WellFormed'
  <2>1. PICK i \in Predecessors(Champion) :
          Begin(o, <<Call(Champion, "RETIRED", "rollback"),
                     Call(log[i].prev, "CHAMPION", "rollback")>>, "set")
    BY <1>4 DEF Rollback
  <2> DEFINE c == Call(Champion, "RETIRED", "rollback")
             d == Call(log[i].prev, "CHAMPION", "rollback")
  <2>2. Champion \in Versions
    BY <1>4, ChampionIsOne DEF Rollback, Champions
  <2>3. log[i] \in Records /\ log[i].prev # None
    BY <1>1, TypeParts DEF Predecessors
  <2>4. log[i].prev \in Versions
    BY <2>3 DEF Records
  <2>5. c \in Calls /\ d \in Calls /\ d.why = "rollback"
    BY <2>2, <2>4, CallType DEF Statuses
  <2> HIDE DEF c, d
  <2>6. /\ <<c, d>> \in Seq(Calls) /\ <<c, d>> # <<>>
        /\ \A j \in 2..Len(<<c, d>>) : <<c, d>>[j].why = "rollback"
    BY <2>5
  <2>7. Begin(o, <<c, d>>, "set") /\ UNCHANGED <<files, from, incumbent, crashes>>
    BY <1>4, <2>1 DEF Rollback, c, d
  <2> QED BY <2>6, <2>7, BeginKeepsForm
<1> QED BY <1>2, <1>3, <1>4

\* The two halves of a write.
LEMMA WriteKeepsForm ==
  ASSUME WellFormed, NEW o \in Operators, NEW v \in Versions, NEW status \in Statuses,
         NEW label \in PCs \ {"idle", "check", "dump", "set"},
         label \in {"retire", "retiring", "log_retire"} => incumbent[o] # None,
         pc[o] # "idle", OpenFile(o, v, label) \/ FillFile(o, v, status, label)
  PROVE  WellFormed'
<1>1. TypeOK
  BY DEF WellFormed
<1>2. /\ meta' \in [Versions -> Statuses \cup {None}] /\ torn' \in SUBSET Versions
      /\ pc' \in [Operators -> PCs]
  <2>1. /\ meta \in [Versions -> Statuses \cup {None}] /\ torn \in SUBSET Versions
        /\ pc \in [Operators -> PCs]
    BY <1>1, TypeParts
  <2> HIDE DEF PCs, Statuses, Versions
  <2>2. CASE OpenFile(o, v, label)
    BY <2>1, <2>2 DEF OpenFile, Goto
  <2>3. CASE FillFile(o, v, status, label)
    BY <2>1, <2>3 DEF FillFile, Goto
  <2> QED BY <2>2, <2>3
<1>3. TypeOK'
  BY <1>1, <1>2 DEF TypeOK, OpenFile, FillFile
<1>4. \A p \in Operators : Working(p)'
  BY <1>1, TypeParts DEF Working, WellFormed, OpenFile, FillFile, Goto
<1> QED BY <1>3, <1>4 DEF WellFormed

\* Appending a record to the log.
LEMMA RecordType ==
  ASSUME TypeOK, NEW v \in Versions, NEW old \in Statuses \cup {None}, NEW to \in Statuses,
         NEW prev \in Versions \cup {None},
         NEW why \in {"registration", "promotion", "acknowledged", "rollback", "superseded"}
  PROVE  Append(log, [version |-> v, from |-> old, to |-> to, prev |-> prev, why |-> why])
           \in Seq(Records)
<1>1. [version |-> v, from |-> old, to |-> to, prev |-> prev, why |-> why] \in Records
  BY DEF Records
<1>2. log \in Seq(Records)
  BY TypeParts
<1> HIDE DEF Records
<1> QED BY <1>1, <1>2

\* Every other step keeps the form, too.
LEMMA StepWellFormed ==
  ASSUME WellFormed, NEW o \in Operators, Acts(o)
  PROVE  WellFormed'
<1>1. TypeOK /\ Working(o)
  BY DEF WellFormed
<1>2. CASE Register(o) \/ Rollback(o)
           \/ \E v \in Versions, to \in Targets, acknowledged \in BOOLEAN :
                Promote(o, v, to, acknowledged)
  BY <1>2, BeginsWellFormed
<1>3. ASSUME pc[o] # "idle" PROVE plan[o] # <<>> /\ Target(o) \in Calls
  BY <1>1, <1>3, TargetIsCall DEF Working
<1>4. CASE Dump(o)
  <2>1. /\ UNCHANGED <<meta, torn, log, plan, from, incumbent, ops, crashes, overlapped>>
        /\ artifacts' \in SUBSET Versions /\ pc' = [pc EXCEPT ![o] = "write"]
    BY <1>1, <1>3, <1>4, TypeParts, TargetIsCall DEF Dump, Target, Goto
  <2>2. pc' \in [Operators -> PCs]
    BY <1>1, <2>1, TypeParts DEF PCs
  <2>3. TypeOK'
    BY <1>1, <2>1, <2>2 DEF TypeOK
  <2>4. \A p \in Operators : Working(p)'
    BY <1>1, <1>4, <2>1, TypeParts DEF Working, WellFormed, Dump
  <2> QED BY <2>3, <2>4 DEF WellFormed
<1>3a. CASE CheckArtifact(o)
  <2>1. crashes' \in 0..MaxCrashes /\ UNCHANGED <<files, ops, crashes, overlapped>>
    BY <1>1, <1>3a DEF CheckArtifact, TypeOK
  <2>2. CASE GiveUp(o)
    BY <2>1, <2>2, GiveUpKeepsForm
  <2>3. CASE ~GiveUp(o)
    <3>1. pc' = [pc EXCEPT ![o] = "dump"] /\ UNCHANGED <<plan, from, incumbent>>
      BY <1>3a, <2>3 DEF CheckArtifact, Goto
    <3>2. pc' \in [Operators -> PCs]
      BY <1>1, <3>1, TypeParts DEF PCs
    <3>3. TypeOK'
      BY <1>1, <2>1, <3>1, <3>2 DEF TypeOK, files
    <3>4. \A p \in Operators : Working(p)'
      BY <1>1, <1>3a, <3>1, TypeParts DEF Working, WellFormed, CheckArtifact
    <3> QED BY <3>3, <3>4 DEF WellFormed
  <2> QED BY <2>2, <2>3
<1>5. CASE SetStatusRead(o)
  <2>1. crashes' \in 0..MaxCrashes /\ UNCHANGED <<files, ops, crashes, overlapped>> /\ pc[o] = "set"
    BY <1>1, <1>5 DEF SetStatusRead, TypeOK
  <2>2. CASE GiveUp(o)
    BY <2>1, <2>2, GiveUpKeepsForm
  <2>3. CASE ~GiveUp(o)
    <3> DEFINE v == Target(o).version
               other == IF Target(o).to = "CHAMPION" /\ Champion # v THEN Champion ELSE None
               label == IF other = None THEN "write" ELSE "retire"
    <3>1. /\ from' = [from EXCEPT ![o] = meta[v]] /\ incumbent' = [incumbent EXCEPT ![o] = other]
          /\ pc' = [pc EXCEPT ![o] = label] /\ plan' = plan
      BY <1>5, <2>3 DEF SetStatusRead, Goto
    <3>2. v \in Versions
      BY <1>1, <1>3, <2>1, TargetIsCall
    <3>3. other \in Versions \cup {None}
      BY ChampionIsOne DEF Champions
    <3>4. label \in PCs /\ (other # None <=> label = "retire")
           /\ label \notin {"idle", "check", "dump", "set", "retiring", "log_retire"}
      BY DEF PCs
    <3> HIDE DEF v, other, label
    <3>5. /\ from' \in [Operators -> Statuses \cup {None}]
          /\ incumbent' \in [Operators -> Versions \cup {None}] /\ pc' \in [Operators -> PCs]
      BY <1>1, <3>1, <3>2, <3>3, <3>4, TypeParts
    <3>6. TypeOK'
      BY <1>1, <2>1, <3>1, <3>5 DEF TypeOK, files
    <3>7. \A p \in Operators : Working(p)'
      BY <1>1, <2>1, <3>1, <3>4, TypeParts DEF Working, WellFormed
    <3> QED BY <3>6, <3>7 DEF WellFormed
  <2> QED BY <2>2, <2>3
<1>6. CASE OpenIncumbent(o) \/ RetireIncumbent(o)
  <2>1. pc[o] # "idle" /\ incumbent[o] # None
    BY <1>1, <1>6 DEF Working, OpenIncumbent, RetireIncumbent
  <2>2. incumbent[o] \in Versions
    BY <1>1, <2>1, TypeParts
  <2>3. \/ OpenFile(o, incumbent[o], "retiring")
        \/ FillFile(o, incumbent[o], "RETIRED", "log_retire")
    BY <1>6 DEF OpenIncumbent, RetireIncumbent
  <2>4. {"retiring", "log_retire"} \subseteq PCs \ {"idle", "check", "dump", "set"}
    BY DEF PCs
  <2>5. "RETIRED" \in Statuses
    BY DEF Statuses
  <2> QED BY <2>1, <2>2, <2>3, <2>4, <2>5, WriteKeepsForm
<1>7. CASE OpenTarget(o) \/ WriteTarget(o)
  <2>1. pc[o] # "idle"
    BY <1>7 DEF OpenTarget, WriteTarget
  <2>2. Target(o).version \in Versions /\ Target(o).to \in Statuses
    BY <1>1, <1>3, <2>1, TargetIsCall
  <2>3. \/ OpenFile(o, Target(o).version, "writing")
        \/ FillFile(o, Target(o).version, Target(o).to, "log")
    BY <1>7 DEF OpenTarget, WriteTarget
  <2>4. {"writing", "log"} \subseteq PCs \ {"idle", "check", "dump", "set"}
    BY DEF PCs
  <2> QED BY <2>1, <2>2, <2>3, <2>4, WriteKeepsForm
<1>8. CASE LogRetired(o)
  <2>1. incumbent[o] \in Versions
    BY <1>1, <1>8, TypeParts DEF Working, LogRetired
  <2>2. log' \in Seq(Records)
    BY <1>1, <1>8, <2>1, RecordType DEF LogRetired, Statuses
  <2>3. pc' \in [Operators -> PCs]
    BY <1>1, <1>8, TypeParts DEF LogRetired, Goto, PCs
  <2>4. TypeOK'
    BY <1>1, <1>8, <2>2, <2>3 DEF LogRetired, TypeOK
  <2>5. \A p \in Operators : Working(p)'
    BY <1>1, <1>8, TypeParts DEF Working, WellFormed, LogRetired, Goto
  <2> QED BY <2>4, <2>5 DEF WellFormed
<1>9. CASE LogStatus(o)
  <2>1. plan[o] # <<>> /\ Target(o) \in Calls /\ pc[o] = "log"
    BY <1>3, <1>9 DEF LogStatus
  <2>2. /\ Target(o).version \in Versions /\ Target(o).to \in Statuses
        /\ Target(o).why \in {"registration", "promotion", "acknowledged", "rollback"}
    BY <2>1 DEF Calls
  <2>3. log' \in Seq(Records)
    BY <1>1, <1>9, <2>2, RecordType, TypeParts DEF LogStatus
  <2>4. /\ plan' = [plan EXCEPT ![o] = Tail(plan[o])]
        /\ from' = [from EXCEPT ![o] = None] /\ incumbent' = [incumbent EXCEPT ![o] = None]
        /\ pc' = [pc EXCEPT ![o] = IF Len(plan[o]) = 1 THEN "idle" ELSE "set"]
        /\ UNCHANGED <<artifacts, meta, torn, ops, crashes, overlapped>>
    BY <1>9 DEF LogStatus, Goto
  <2>5. /\ plan' \in [Operators -> Seq(Calls)] /\ pc' \in [Operators -> PCs]
        /\ from' \in [Operators -> Statuses \cup {None}]
        /\ incumbent' \in [Operators -> Versions \cup {None}]
    BY <1>1, <2>1, <2>4, TypeParts, TargetIsCall DEF PCs
  <2>6. TypeOK'
    BY <1>1, <2>3, <2>4, <2>5 DEF TypeOK
  <2>7. ASSUME NEW p \in Operators, p # o PROVE Working(p)'
    BY <1>1, <2>4, <2>7, TypeParts DEF Working, WellFormed
  <2>8. Working(o)'
    <3>1. /\ plan'[o] = Tail(plan[o]) /\ incumbent'[o] = None
          /\ pc'[o] = IF Len(plan[o]) = 1 THEN "idle" ELSE "set"
      BY <1>1, <2>4, TypeParts
    <3>2. Tail(plan[o]) = <<>> <=> Len(plan[o]) = 1
      <4>1. plan[o] \in Seq(Calls) /\ plan[o] # <<>>
        BY <1>1, <2>1, TypeParts
      <4>2. Tail(plan[o]) \in Seq(Calls) /\ Len(Tail(plan[o])) = Len(plan[o]) - 1
             /\ Len(plan[o]) \in Nat
        BY <1>1, <2>1, TargetIsCall
      <4>3. \A q \in Seq(Calls) : q = <<>> <=> Len(q) = 0
        <5> TAKE q \in Seq(Calls)
        <5>1. q # <<>> => Len(q) \in Nat \ {0}
          BY EmptySeq
        <5>2. Len(<<>>) = 0
          OBVIOUS
        <5> QED BY <5>1, <5>2
      <4> DEFINE rest == Tail(plan[o])
      <4>4. rest = <<>> <=> Len(rest) = 0
        <5> HIDE DEF rest
        <5>1. rest \in Seq(Calls)
          BY <4>2 DEF rest
        <5> QED BY <4>3, <5>1
      <4> QED BY <4>2, <4>4
    <3>3. \A i \in 2..Len(Tail(plan[o])) : Tail(plan[o])[i].why = "rollback"
      BY <1>1, <2>1, TargetIsCall DEF Working
    <3> QED BY <3>1, <3>2, <3>3 DEF Working
  <2> QED BY <2>6, <2>7, <2>8 DEF WellFormed
<1>10. CASE Crash(o)
  <2>1. crashes' \in 0..MaxCrashes
    BY <1>1, <1>10, RegistryAssumption DEF Crash, TypeOK
  <2> QED BY <1>10, <2>1, GiveUpKeepsForm DEF Crash
<1> QED BY <1>2, <1>4, <1>3a, <1>5, <1>6, <1>7, <1>8, <1>9, <1>10 DEF Acts
-----------------------------------------------------------------------------
(* Steps.                                                                   *)

\* An operator's step moves no other operator.
LEMMA OthersKeep ==
  ASSUME TypeOK, NEW o \in Operators, Acts(o)
  PROVE  \A p \in Operators \ {o} :
           /\ pc'[p] = pc[p] /\ plan'[p] = plan[p] /\ incumbent'[p] = incumbent[p]
           /\ Target(p)' = Target(p)
<1>1. /\ pc \in [Operators -> PCs] /\ plan \in [Operators -> Seq(Calls)]
      /\ incumbent \in [Operators -> Versions \cup {None}]
  BY TypeParts
<1> HIDE DEF PCs, Calls
<1> SUFFICES \A p \in Operators \ {o} :
               pc'[p] = pc[p] /\ plan'[p] = plan[p] /\ incumbent'[p] = incumbent[p]
  BY DEF Target
<1>2. CASE Register(o)
  BY <1>1, <1>2 DEF Register, Begin, Goto
<1>3. CASE \E v \in Versions, to \in Targets, acknowledged \in BOOLEAN :
             Promote(o, v, to, acknowledged)
  BY <1>1, <1>3 DEF Promote, Begin, Goto
<1>4. CASE Rollback(o)
  BY <1>1, <1>4 DEF Rollback, Begin, Goto
<1>5. CASE CheckArtifact(o) \/ Dump(o)
  BY <1>1, <1>5 DEF CheckArtifact, Dump, GiveUp, Goto
<1>6. CASE SetStatusRead(o)
  BY <1>1, <1>6 DEF SetStatusRead, GiveUp, Goto
<1>7. CASE OpenIncumbent(o) \/ RetireIncumbent(o) \/ OpenTarget(o) \/ WriteTarget(o)
  BY <1>1, <1>7
  DEF OpenIncumbent, RetireIncumbent, OpenTarget, WriteTarget, OpenFile, FillFile, Goto
<1>8. CASE LogRetired(o) \/ LogStatus(o)
  BY <1>1, <1>8 DEF LogRetired, LogStatus, Goto
<1>9. CASE Crash(o)
  BY <1>1, <1>9 DEF Crash, GiveUp, Goto
<1> QED BY <1>2, <1>3, <1>4, <1>5, <1>6, <1>7, <1>8, <1>9 DEF Acts

\* A status is written by the two steps that fill a file, and by no other.
LEMMA StatusWritten ==
  ASSUME WellFormed, NEW o \in Operators, Acts(o)
  PROVE  \/ meta' = meta
         \/ /\ RetireIncumbent(o) /\ incumbent[o] \in Versions
            /\ meta' = [meta EXCEPT ![incumbent[o]] = "RETIRED"]
         \/ /\ WriteTarget(o) /\ Target(o) \in Calls
            /\ meta' = [meta EXCEPT ![Target(o).version] = Target(o).to]
<1>1. TypeOK /\ Working(o)
  BY DEF WellFormed
<1>2. CASE RetireIncumbent(o)
  BY <1>1, <1>2, TypeParts DEF RetireIncumbent, FillFile, Working
<1>3. CASE WriteTarget(o)
  BY <1>1, <1>3, TargetIsCall DEF WriteTarget, FillFile, Working
<1>4. CASE \/ Register(o) \/ Rollback(o) \/ CheckArtifact(o) \/ Dump(o)
           \/ SetStatusRead(o) \/ Crash(o)
  BY <1>4 DEF Register, Rollback, CheckArtifact, Dump, SetStatusRead, Crash, files
<1>5. CASE \E v \in Versions, to \in Targets, acknowledged \in BOOLEAN :
             Promote(o, v, to, acknowledged)
  BY <1>5 DEF Promote, files
<1>6. CASE OpenIncumbent(o) \/ OpenTarget(o) \/ LogRetired(o) \/ LogStatus(o)
  BY <1>6 DEF OpenIncumbent, OpenTarget, OpenFile, LogRetired, LogStatus
<1> QED BY <1>2, <1>3, <1>4, <1>5, <1>6 DEF Acts

\* No model leaves the registry, and only a write of its own metadata lets one in.
LEMMA RegisteredGrows ==
  ASSUME WellFormed, Numbered, NEW o \in Operators, Acts(o)
  PROVE  /\ Registered \subseteq Registered'
         /\ WriteTarget(o) => Target(o).version \in Registered'
         /\ \A v \in Registered' \ Registered : WriteTarget(o) /\ v = Target(o).version
<1>1. /\ meta \in [Versions -> Statuses \cup {None}] /\ None \notin Statuses
      /\ "RETIRED" \in Statuses
  BY TypeParts, RegistryAssumption DEF WellFormed, Statuses
<1>2. CASE meta' = meta
  <2>1. ~WriteTarget(o) \/ Target(o).version \in Registered
    <3> SUFFICES ASSUME WriteTarget(o) PROVE Target(o).version \in Registered
      OBVIOUS
    <3>1. TypeOK /\ plan[o] # <<>>
      BY DEF WellFormed, Working, WriteTarget
    <3>2. Target(o).version \in Versions /\ Target(o).to \in Statuses
      BY <3>1, TargetIsCall
    <3>3. meta' = [meta EXCEPT ![Target(o).version] = Target(o).to]
      BY DEF WriteTarget, FillFile
    <3> QED BY <1>1, <1>2, <3>2, <3>3 DEF Registered
  <2> QED BY <1>2, <2>1 DEF Registered
<1>3. CASE /\ RetireIncumbent(o) /\ incumbent[o] \in Versions
           /\ meta' = [meta EXCEPT ![incumbent[o]] = "RETIRED"]
  <2>1. ~WriteTarget(o)
    BY <1>3 DEF RetireIncumbent, WriteTarget
  <2>2. Registered' = Registered \cup {incumbent[o]}
    BY <1>1, <1>3 DEF Registered
  <2>3. incumbent[o] \in Registered
    BY <1>1, <1>3, RegistryAssumption DEF Numbered, Versions
  <2> QED BY <2>1, <2>2, <2>3
<1>4. CASE /\ WriteTarget(o) /\ Target(o) \in Calls
           /\ meta' = [meta EXCEPT ![Target(o).version] = Target(o).to]
  <2>1. Target(o).version \in Versions /\ Target(o).to \in Statuses
    BY <1>4 DEF Calls
  <2>2. Registered' = Registered \cup {Target(o).version}
    BY <1>1, <1>4, <2>1 DEF Registered
  <2> QED BY <1>4, <2>2
<1> QED BY <1>2, <1>3, <1>4, StatusWritten
-----------------------------------------------------------------------------
(* Version numbers.                                                         *)

\* The next version comes right after the registered ones.
LEMMA NextIsFirstFree ==
  ASSUME TypeOK, \A v \in Registered : 1..v \subseteq Registered
  PROVE  1..(NextVersion - 1) = Registered /\ NextVersion \notin Registered
<1>1. MaxVersion \in Nat /\ Registered \in SUBSET Versions /\ Registered \subseteq 1..MaxVersion
  BY RegistryAssumption DEF Registered, Versions
<1>2. PICK k \in Nat : Registered = 1..k
  <2>1. CASE Registered = {}
    <3>1. 1..0 = {} /\ 0 \in Nat
      OBVIOUS
    <3> QED BY <2>1, <3>1
  <2>2. CASE Registered # {}
    <3>1. PICK k \in Registered : \A u \in Registered : u <= k
      BY <1>1, <2>2, NewestExists
    <3>2. k \in Nat /\ \A u \in Registered : u \in 1..k
      BY <1>1, <3>1
    <3> QED BY <3>1, <3>2
  <2> QED BY <2>1, <2>2
<1>3. Cardinality(Registered) = k
  BY <1>2, FS_Interval
<1> QED BY <1>2, <1>3 DEF NextVersion

\* Where the calls of an operator come from: it had them already, or begins now.
LEMMA PlansMade ==
  ASSUME WellFormed, NEW o \in Operators, Acts(o), NEW i \in 1..Len(plan'[o])
  PROVE  \/ \E j \in 1..Len(plan[o]) : plan'[o][i] = plan[o][j]
         \/ plan'[o][i] = Call(NextVersion, "CANDIDATE", "registration")
         \/ \E v \in Registered, to \in Targets, why \in {"promotion", "acknowledged"} :
              plan'[o][i] = Call(v, to, why)
         \/ Champion # None /\ plan'[o][i] = Call(Champion, "RETIRED", "rollback")
         \/ \E j \in 1..Len(log) :
              log[j].prev # None /\ plan'[o][i] = Call(log[j].prev, "CHAMPION", "rollback")
<1>1. TypeOK /\ Working(o) /\ plan \in [Operators -> Seq(Calls)]
  BY TypeParts DEF WellFormed
<1> HIDE DEF Calls
<1> DEFINE Had == \E j \in 1..Len(plan[o]) : plan'[o][i] = plan[o][j]
<1>2. CASE plan' = plan
  BY <1>2
<1>3. CASE plan' = [plan EXCEPT ![o] = <<>>]
  <2>1. plan'[o] = <<>>
    BY <1>1, <1>3
  <2> QED BY <2>1
<1>4. CASE Register(o)
  <2> DEFINE c == Call(NextVersion, "CANDIDATE", "registration")
  <2>1. plan' = [plan EXCEPT ![o] = <<c>>]
    BY <1>4 DEF Register, Begin
  <2> HIDE DEF c
  <2>2. plan'[o] = <<c>>
    BY <1>1, <2>1
  <2>3. plan'[o][i] = c
    BY <2>2
  <2> QED BY <2>3 DEF c
<1>5. CASE \E v \in Versions, to \in Targets, acknowledged \in BOOLEAN :
             Promote(o, v, to, acknowledged)
  <2>1. PICK v \in Versions, to \in Targets, acknowledged \in BOOLEAN :
               Promote(o, v, to, acknowledged)
    BY <1>5
  <2> DEFINE why == IF Gate(v) THEN "promotion" ELSE "acknowledged"
             c == Call(v, to, why)
  <2>2. plan' = [plan EXCEPT ![o] = <<c>>] /\ v \in Registered
    BY <2>1 DEF Promote, Begin
  <2>3. why \in {"promotion", "acknowledged"}
    OBVIOUS
  <2> HIDE DEF c, why
  <2>4. plan'[o] = <<c>>
    BY <1>1, <2>2
  <2>5. plan'[o][i] = c
    BY <2>4
  <2> QED BY <2>2, <2>3, <2>5 DEF c
<1>6. CASE Rollback(o)
  <2>1. PICK k \in Predecessors(Champion) :
          Begin(o, <<Call(Champion, "RETIRED", "rollback"),
                     Call(log[k].prev, "CHAMPION", "rollback")>>, "set")
    BY <1>6 DEF Rollback
  <2> DEFINE c == Call(Champion, "RETIRED", "rollback")
             d == Call(log[k].prev, "CHAMPION", "rollback")
  <2>2. plan' = [plan EXCEPT ![o] = <<c, d>>]
    BY <2>1 DEF Begin
  <2>3. Champion # None /\ k \in 1..Len(log) /\ log[k].prev # None
    BY <1>6 DEF Rollback, Predecessors
  <2> HIDE DEF c, d
  <2>4. plan'[o] = <<c, d>>
    BY <1>1, <2>2
  <2>5. plan'[o][i] \in {c, d}
    BY <2>4
  <2> QED BY <2>3, <2>5 DEF c, d
<1>7. CASE LogStatus(o)
  <2>1. plan'[o] = Tail(plan[o]) /\ plan[o] # <<>>
    BY <1>1, <1>7 DEF LogStatus, Working
  <2>2. /\ Len(plan[o]) \in Nat /\ Len(Tail(plan[o])) = Len(plan[o]) - 1
        /\ \A k \in 1..Len(Tail(plan[o])) : Tail(plan[o])[k] = plan[o][k + 1]
    BY <1>1, <2>1, TargetIsCall
  <2>3. plan'[o][i] = plan[o][i + 1] /\ i + 1 \in 1..Len(plan[o])
    BY <2>1, <2>2
  <2> QED BY <2>3
<1>9. CheckArtifact(o) \/ Dump(o) \/ SetStatusRead(o)
        => plan' = plan \/ plan' = [plan EXCEPT ![o] = <<>>]
  BY DEF CheckArtifact, Dump, SetStatusRead, GiveUp
<1>10. OpenIncumbent(o) \/ RetireIncumbent(o) \/ OpenTarget(o) \/ WriteTarget(o) => plan' = plan
  BY DEF OpenIncumbent, RetireIncumbent, OpenTarget, WriteTarget, OpenFile, FillFile
<1>11. LogRetired(o) => plan' = plan
  BY DEF LogRetired
<1>12. Crash(o) => plan' = [plan EXCEPT ![o] = <<>>]
  BY DEF Crash, GiveUp
<1> QED BY <1>2, <1>3, <1>4, <1>5, <1>6, <1>7, <1>9, <1>10, <1>11, <1>12 DEF Acts

\* The calls of a plan that begins, or goes on, have numbers as they should.
LEMMA PlansNumbered ==
  ASSUME WellFormed, Numbered, NEW o \in Operators, Acts(o), NEW i \in 1..Len(plan'[o])
  PROVE  Numbers(plan'[o][i])
<1>1. TypeOK /\ \A j \in 1..Len(plan[o]) : Numbers(plan[o][j])
  BY DEF WellFormed, Numbered
<1>2. Numbers(Call(NextVersion, "CANDIDATE", "registration"))
  BY <1>1, NextIsFirstFree DEF Numbers, Call, Numbered
<1>3. \A v \in Registered, why \in {"promotion", "acknowledged", "rollback"} :
        \A to : Numbers(Call(v, to, why))
  BY DEF Numbers, Call
<1>4. Champion # None => Champion \in Registered
  BY ChampionIsOne, RegistryAssumption DEF Champions, Registered, Statuses
<1>5. \A j \in 1..Len(log) : log[j].prev # None => log[j].prev \in Registered
  BY DEF Numbered
<1> DEFINE c == plan'[o][i]
<1>6. CASE \E j \in 1..Len(plan[o]) : c = plan[o][j]
  BY <1>1, <1>6
<1>7. CASE c = Call(NextVersion, "CANDIDATE", "registration")
  BY <1>2, <1>7
<1>8. CASE \E v \in Registered, to \in Targets, why \in {"promotion", "acknowledged"} :
             c = Call(v, to, why)
  BY <1>3, <1>8
<1>9. CASE Champion # None /\ c = Call(Champion, "RETIRED", "rollback")
  BY <1>3, <1>4, <1>9
<1>10. CASE \E j \in 1..Len(log) :
              log[j].prev # None /\ c = Call(log[j].prev, "CHAMPION", "rollback")
  BY <1>3, <1>5, <1>10
<1> HIDE DEF c
<1>11. \/ \E j \in 1..Len(plan[o]) : c = plan[o][j]
       \/ c = Call(NextVersion, "CANDIDATE", "registration")
       \/ \E v \in Registered, to \in Targets, why \in {"promotion", "acknowledged"} :
            c = Call(v, to, why)
       \/ Champion # None /\ c = Call(Champion, "RETIRED", "rollback")
       \/ \E j \in 1..Len(log) :
            log[j].prev # None /\ c = Call(log[j].prev, "CHAMPION", "rollback")
  BY PlansMade DEF c
<1> QED BY <1>6, <1>7, <1>8, <1>9, <1>10, <1>11 DEF c

\* The log grows by at most one record.
LEMMA LogGrows ==
  ASSUME WellFormed, NEW o \in Operators, Acts(o)
  PROVE  \/ log' = log
         \/ LogRetired(o) /\ incumbent[o] \in Versions
         \/ LogStatus(o) /\ Target(o) \in Calls
<1>1. TypeOK /\ Working(o)
  BY DEF WellFormed
<1>2. CASE LogRetired(o)
  BY <1>1, <1>2, TypeParts DEF LogRetired, Working
<1>3. CASE LogStatus(o)
  BY <1>1, <1>3, TargetIsCall DEF LogStatus, Working
<1>4. CASE \/ Register(o) \/ Rollback(o) \/ CheckArtifact(o) \/ Dump(o)
           \/ SetStatusRead(o) \/ Crash(o)
  BY <1>4 DEF Register, Rollback, CheckArtifact, Dump, SetStatusRead, Crash, files
<1>5. CASE \E v \in Versions, to \in Targets, acknowledged \in BOOLEAN :
             Promote(o, v, to, acknowledged)
  BY <1>5 DEF Promote, files
<1>6. CASE OpenIncumbent(o) \/ OpenTarget(o) \/ RetireIncumbent(o) \/ WriteTarget(o)
  BY <1>6 DEF OpenIncumbent, OpenTarget, OpenFile, RetireIncumbent, WriteTarget, FillFile
<1> QED BY <1>2, <1>3, <1>4, <1>5, <1>6 DEF Acts

\* What is said about one record, said about the log after it was appended.
LEMMA OneMoreRecord ==
  ASSUME TypeOK, NEW r, log' = Append(log, r)
  PROVE  /\ Len(log) \in Nat /\ Len(log') = Len(log) + 1
         /\ \A i \in 1..Len(log) : log'[i] = log[i]
         /\ log'[Len(log) + 1] = r
<1>1. log \in Seq(Records)
  BY TypeParts
<1> HIDE DEF Records
<1> DEFINE S == Records \cup {r}
<1>2. log \in Seq(S) /\ r \in S
  BY <1>1, SeqMonotonic
<1> HIDE DEF S
<1>3. Len(log) \in Nat
  BY <1>2
<1>4. Len(Append(log, r)) = Len(log) + 1 /\ Append(log, r)[Len(log) + 1] = r
  BY <1>2, AppendProperties
<1>5. \A i \in 1..Len(log) : Append(log, r)[i] = log[i]
  BY <1>2, AppendProperties
<1> QED BY <1>3, <1>4, <1>5

\* The record of a retired incumbent, and that of a call.
LEMMA RecordsMade ==
  ASSUME NEW o \in Operators
  PROVE  /\ LogRetired(o) =>
              \E r : /\ log' = Append(log, r)
                     /\ r.version = incumbent[o] /\ r.to = "RETIRED" /\ r.prev = None
                     /\ r.why = "superseded"
         /\ LogStatus(o) =>
              \E r : /\ log' = Append(log, r)
                     /\ r.version = Target(o).version /\ r.to = Target(o).to
                     /\ r.prev = incumbent[o] /\ r.why = Target(o).why
<1>1. ASSUME LogRetired(o)
      PROVE  \E r : /\ log' = Append(log, r)
                    /\ r.version = incumbent[o] /\ r.to = "RETIRED" /\ r.prev = None
                    /\ r.why = "superseded"
  <2> DEFINE r == [version |-> incumbent[o], from |-> "CHAMPION",
                   to |-> "RETIRED", prev |-> None, why |-> "superseded"]
  <2>1. /\ r.version = incumbent[o] /\ r.to = "RETIRED" /\ r.prev = None
        /\ r.why = "superseded"
    OBVIOUS
  <2>2. log' = Append(log, r)
    BY <1>1 DEF LogRetired
  <2> QED BY <2>1, <2>2
<1>2. ASSUME LogStatus(o)
      PROVE  \E r : /\ log' = Append(log, r)
                    /\ r.version = Target(o).version /\ r.to = Target(o).to
                    /\ r.prev = incumbent[o] /\ r.why = Target(o).why
  <2> DEFINE r == [version |-> Target(o).version, from |-> from[o],
                   to |-> Target(o).to, prev |-> incumbent[o], why |-> Target(o).why]
  <2>1. /\ r.version = Target(o).version /\ r.to = Target(o).to
        /\ r.prev = incumbent[o] /\ r.why = Target(o).why
    OBVIOUS
  <2>2. log' = Append(log, r)
    BY <1>2 DEF LogStatus
  <2> QED BY <2>1, <2>2
<1> QED BY <1>1, <1>2

\* Every record names registered models.
LEMMA LogNumbered ==
  ASSUME WellFormed, Numbered, NEW o \in Operators, Acts(o), Registered \subseteq Registered'
  PROVE  \A i \in 1..Len(log') :
           /\ log'[i].version \in Registered'
           /\ log'[i].prev # None => log'[i].prev \in Registered'
<1>1. TypeOK
  BY DEF WellFormed
<1>2. \A i \in 1..Len(log) :
        log[i].version \in Registered /\ (log[i].prev # None => log[i].prev \in Registered)
  BY DEF Numbered
<1>3. ASSUME NEW r, log' = Append(log, r), r.version \in Registered',
             r.prev # None => r.prev \in Registered'
      PROVE  \A i \in 1..Len(log') :
               /\ log'[i].version \in Registered'
               /\ log'[i].prev # None => log'[i].prev \in Registered'
  <2>1. /\ Len(log) \in Nat /\ Len(log') = Len(log) + 1
        /\ \A i \in 1..Len(log) : log'[i] = log[i]
        /\ log'[Len(log) + 1] = r
    BY <1>1, <1>3, OneMoreRecord
  <2>2. \A i \in 1..Len(log') : i \in 1..Len(log) \/ i = Len(log) + 1
    BY <2>1
  <2> QED BY <1>2, <1>3, <2>1, <2>2
<1>4. CASE LogRetired(o)
  <2>1. incumbent[o] \in Registered
    BY <1>4 DEF WellFormed, Working, Numbered, LogRetired
  <2>2. PICK r : log' = Append(log, r) /\ r.version = incumbent[o] /\ r.prev = None
    BY <1>4, RecordsMade
  <2> QED BY <1>3, <2>1, <2>2
<1>5. CASE LogStatus(o)
  <2>1. Target(o).version \in Registered
    BY <1>5 DEF Numbered, LogStatus
  <2>2. incumbent[o] # None => incumbent[o] \in Registered
    BY DEF Numbered
  <2>3. PICK r : log' = Append(log, r) /\ r.version = Target(o).version /\ r.prev = incumbent[o]
    BY <1>5, RecordsMade
  <2> QED BY <1>3, <2>1, <2>2, <2>3
<1>6. CASE log' = log
  BY <1>2, <1>6
<1> QED BY <1>4, <1>5, <1>6, LogGrows

\* The champion is a registered model.
LEMMA ChampionIsRegistered == Champion # None => Champion \in Registered
BY ChampionIsOne, RegistryAssumption DEF Champions, Registered, Statuses

\* An incumbent is a champion that was read, or one read before.
LEMMA IncumbentRead ==
  ASSUME TypeOK, NEW o \in Operators, Acts(o)
  PROVE  incumbent'[o] \in {None, incumbent[o]} \cup Champions
<1>1. incumbent \in [Operators -> Versions \cup {None}]
  BY TypeParts
<1>2. CASE SetStatusRead(o)
  BY <1>1, <1>2, ChampionIsOne DEF SetStatusRead, GiveUp
<1>3. CASE incumbent' = incumbent
  BY <1>3
<1>4. CASE incumbent' = [incumbent EXCEPT ![o] = None]
  BY <1>1, <1>4
<1>5. Register(o) \/ Rollback(o) => incumbent' = incumbent
  BY DEF Register, Rollback
<1>6. (\E v \in Versions, to \in Targets, acknowledged \in BOOLEAN :
         Promote(o, v, to, acknowledged)) => incumbent' = incumbent
  BY DEF Promote
<1>7. CheckArtifact(o) \/ Dump(o) => incumbent' \in {incumbent, [incumbent EXCEPT ![o] = None]}
  BY DEF CheckArtifact, Dump, GiveUp
<1>8. OpenIncumbent(o) \/ RetireIncumbent(o) \/ OpenTarget(o) \/ WriteTarget(o) => incumbent' = incumbent
  BY DEF OpenIncumbent, RetireIncumbent, OpenTarget, WriteTarget, OpenFile, FillFile
<1>9. LogRetired(o) => incumbent' = incumbent
  BY DEF LogRetired
<1>10. LogStatus(o) \/ Crash(o) => incumbent' = [incumbent EXCEPT ![o] = None]
  BY DEF LogStatus, Crash, GiveUp
<1> QED BY <1>2, <1>3, <1>4, <1>5, <1>6, <1>7, <1>8, <1>9, <1>10 DEF Acts

\* Only the step that wrote a model's metadata leads to the record of it.
LEMMA ReachesLog ==
  ASSUME TypeOK, NEW o \in Operators, Acts(o), pc'[o] = "log"
  PROVE  WriteTarget(o)
<1>1. pc \in [Operators -> PCs]
  BY TypeParts
<1>2. ~Register(o) /\ ~Rollback(o)
  BY <1>1 DEF Register, Rollback, Begin, Goto
<1>3. ~\E v \in Versions, to \in Targets, acknowledged \in BOOLEAN :
         Promote(o, v, to, acknowledged)
  BY <1>1 DEF Promote, Begin, Goto
<1>4. ~CheckArtifact(o) /\ ~Dump(o) /\ ~SetStatusRead(o) /\ ~Crash(o)
  BY <1>1 DEF CheckArtifact, Dump, SetStatusRead, Crash, GiveUp, Goto
<1>5. ~OpenIncumbent(o) /\ ~RetireIncumbent(o) /\ ~OpenTarget(o)
  BY <1>1 DEF OpenIncumbent, RetireIncumbent, OpenTarget, OpenFile, FillFile, Goto
<1>6. ~LogRetired(o) /\ ~LogStatus(o)
  BY <1>1 DEF LogRetired, LogStatus, Goto
<1> QED BY <1>2, <1>3, <1>4, <1>5, <1>6 DEF Acts

\* Without a death, an artefact without metadata has an operator at work on it.
LEMMA ArtefactsNumbered ==
  ASSUME WellFormed, Numbered, NEW o \in Operators, Acts(o), crashes' = 0
  PROVE  \A v \in artifacts' \ Registered' :
           \E p \in Operators : pc'[p] \in {"write", "writing"} /\ Target(p)'.version = v
<1>1. TypeOK /\ Working(o) /\ pc \in [Operators -> PCs] /\ plan \in [Operators -> Seq(Calls)]
  BY TypeParts DEF WellFormed
<1> HIDE DEF PCs, Calls
<1>2. Registered \subseteq Registered'
  BY RegisteredGrows
<1>3. \A p \in Operators \ {o} : pc'[p] = pc[p] /\ Target(p)' = Target(p)
  BY <1>1, OthersKeep
<1>4. crashes = 0 /\ ~Crash(o)
  <2>1. crashes \in Nat
    BY <1>1, TypeParts
  <2>2. ~Crash(o)
    BY <2>1 DEF Crash
  <2>3. crashes' = crashes
    BY <2>2 DEF Acts, Register, Promote, Rollback, CheckArtifact, Dump, SetStatusRead, OpenIncumbent,
                OpenFile, RetireIncumbent, FillFile, LogRetired, OpenTarget, WriteTarget, LogStatus
  <2> QED BY <2>2, <2>3
<1>5. \A v \in artifacts \ Registered :
        \E p \in Operators : pc[p] \in {"write", "writing"} /\ Target(p).version = v
  BY <1>4 DEF Numbered
<1>6. CASE Dump(o)
  <2>1. /\ artifacts' = artifacts \cup {Head(plan[o]).version}
        /\ pc' = [pc EXCEPT ![o] = "write"] /\ plan' = plan
    BY <1>6 DEF Dump, Goto
  <2>2. pc'[o] = "write" /\ Target(o)'.version = Head(plan[o]).version
    BY <1>1, <2>1 DEF Target
  <2>3. pc[o] \notin {"write", "writing"}
    BY <1>6 DEF Dump
  <2> QED BY <1>2, <1>3, <1>5, <2>1, <2>2, <2>3
<1>7. CASE WriteTarget(o)
  <2>1. artifacts' = artifacts /\ Target(o).version \in Registered'
    BY <1>7, RegisteredGrows DEF WriteTarget, FillFile
  <2> QED BY <1>2, <1>3, <1>5, <2>1
<1>8. CASE OpenTarget(o)
  <2>1. artifacts' = artifacts /\ pc'[o] = "writing" /\ Target(o)' = Target(o)
    BY <1>1, <1>8 DEF OpenTarget, OpenFile, Goto, Target
  <2> QED BY <1>2, <1>3, <1>5, <2>1
<1>9. CASE artifacts' = artifacts /\ pc[o] \notin {"write", "writing"}
  BY <1>2, <1>3, <1>5, <1>9
<1>10. Register(o) \/ Rollback(o) => artifacts' = artifacts /\ pc[o] \notin {"write", "writing"}
  BY DEF Register, Rollback, Begin, files
<1>11. (\E v \in Versions, to \in Targets, acknowledged \in BOOLEAN :
          Promote(o, v, to, acknowledged)) => artifacts' = artifacts /\ pc[o] \notin {"write", "writing"}
  BY DEF Promote, Begin, files
<1>12. CheckArtifact(o) \/ SetStatusRead(o) \/ LogRetired(o) \/ LogStatus(o)
         => artifacts' = artifacts /\ pc[o] \notin {"write", "writing"}
  BY DEF CheckArtifact, SetStatusRead, LogRetired, LogStatus, files
<1>13. OpenIncumbent(o) \/ RetireIncumbent(o)
         => artifacts' = artifacts /\ pc[o] \notin {"write", "writing"}
  BY DEF OpenIncumbent, RetireIncumbent, OpenFile, FillFile
<1> QED BY <1>4, <1>6, <1>7, <1>8, <1>9, <1>10, <1>11, <1>12, <1>13 DEF Acts

\* Version numbers stay in order.
LEMMA StepNumbered ==
  ASSUME WellFormed, Numbered, NEW o \in Operators, Acts(o)
  PROVE  Numbered'
<1>1. TypeOK /\ Working(o)
  BY DEF WellFormed
<1>2. Registered \subseteq Registered'
  BY RegisteredGrows
<1>3. ASSUME NEW v \in Registered' PROVE 1..v \subseteq Registered'
  <2>1. CASE v \in Registered
    BY <1>2, <2>1 DEF Numbered
  <2>2. CASE v \notin Registered
    <3>1. WriteTarget(o) /\ v = Target(o).version
      BY <2>2, RegisteredGrows
    <3>2. plan[o] # <<>>
      BY <1>1, <3>1 DEF WriteTarget, Working
    <3>3. Target(o) = plan[o][1] /\ 1 \in 1..Len(plan[o]) /\ v \in Versions
      BY <1>1, <3>1, <3>2, TargetIsCall
    <3>4. Numbers(Target(o))
      BY <3>3 DEF Numbered
    <3>5. 1..(v - 1) \subseteq Registered
      BY <2>2, <3>1, <3>4 DEF Numbers
    <3>6. v \in Nat /\ \A u \in 1..v : u \in 1..(v - 1) \/ u = v
      BY <3>3, RegistryAssumption DEF Versions
    <3> QED BY <1>2, <3>5, <3>6
  <2> QED BY <2>1, <2>2
<1>4. ASSUME NEW p \in Operators PROVE (\A i \in 1..Len(plan[p]) : Numbers(plan[p][i]))'
  <2>1. \A i \in 1..Len(plan'[p]) : Numbers(plan'[p][i])
    <3>1. CASE p = o
      BY <3>1, PlansNumbered
    <3>2. CASE p # o
      BY <1>1, <3>2, OthersKeep DEF Numbered
    <3> QED BY <3>1, <3>2
  <2>2. ASSUME NEW c, Numbers(c) PROVE IF c.why = "registration" THEN 1..(c.version - 1) \subseteq Registered'
                                        ELSE c.version \in Registered'
    BY <1>2, <2>2 DEF Numbers
  <2> QED BY <2>1, <2>2 DEF Numbers
<1>5. ASSUME NEW p \in Operators
      PROVE  /\ incumbent'[p] # None => incumbent'[p] \in Registered'
             /\ pc'[p] = "log" => Target(p)'.version \in Registered'
  <2>1. CASE p # o
    BY <1>1, <1>2, <2>1, OthersKeep DEF Numbered
  <2>2. CASE p = o
    <3>1. incumbent'[p] # None => incumbent'[p] \in Registered'
      <4>1. Champions \subseteq Registered
        BY RegistryAssumption DEF Champions, Registered, Statuses
      <4> QED BY <1>1, <1>2, <2>2, <4>1, IncumbentRead DEF Numbered
    <3>2. ASSUME pc'[p] = "log" PROVE Target(p)'.version \in Registered'
      <4>1. WriteTarget(o)
        BY <1>1, <2>2, <3>2, ReachesLog
      <4>2. Target(o)' = Target(o)
        BY <4>1 DEF WriteTarget, FillFile, Target
      <4> QED BY <2>2, <4>1, <4>2, RegisteredGrows
    <3> QED BY <3>1, <3>2
  <2> QED BY <2>1, <2>2
<1>6. /\ \A i \in 1..Len(log') : log'[i].version \in Registered'
      /\ \A i \in 1..Len(log') : log'[i].prev # None => log'[i].prev \in Registered'
  BY <1>2, LogNumbered
<1>7. crashes' = 0 =>
        \A v \in artifacts' \ Registered' :
          \E p \in Operators : pc'[p] \in {"write", "writing"} /\ Target(p)'.version = v
  BY ArtefactsNumbered
<1> QED BY <1>3, <1>4, <1>5, <1>6, <1>7 DEF Numbered
-----------------------------------------------------------------------------
(* The processes.                                                           *)

\* The types of the processes' state.
ServingTypes ==
  /\ stage \in [Processes -> {"down", "loading", "up"}]
  /\ running \in [Processes -> Versions \cup {None}]
  /\ shadow \in [Processes -> Versions \cup {None}]
  /\ settled \in [Processes -> BOOLEAN]
  /\ scores \in SUBSET (Versions \X BOOLEAN)

\* The registry changes by a step of an operator or not at all.
LEMMA OperatorsOrProcesses ==
  ASSUME NextServing
  PROVE  \/ Operate /\ \E o \in Operators : Acts(o)
         \/ UNCHANGED vars /\ \E p \in Processes :
                                LoadChampion(p) \/ LoadChallenger(p) \/ Stop(p) \/ Score(p)
<1>1. Operate => \E o \in Operators : Acts(o)
  BY DEF Operate, Next, Acts
<1>2. \A p \in Processes :
        LoadChampion(p) \/ LoadChallenger(p) \/ Stop(p) \/ Score(p) => UNCHANGED vars
  BY DEF LoadChampion, LoadChallenger, Stop, Score
<1> QED BY <1>1, <1>2 DEF NextServing

\* The newest model of a status is a model of that status, if there is one.
LEMMA NewestIsOne ==
  ASSUME NEW status
  PROVE  /\ NewestOf(status) # None => NewestOf(status) \in Versions /\ meta[NewestOf(status)] = status
         /\ NewestOf(status) = None => \A v \in Versions : meta[v] # status
<1> DEFINE S == {v \in Versions : meta[v] = status}
<1>1. S \in SUBSET Versions /\ None \notin Versions
  BY RegistryAssumption DEF Versions
<1>2. NewestOf(status) = IF S = {} THEN None ELSE CHOOSE v \in S : \A u \in S : u <= v
  BY DEF NewestOf
<1>3. S # {} => \E v \in S : \A u \in S : u <= v
  BY <1>1, NewestExists
<1>4. S # {} => NewestOf(status) \in S
  <2> HIDE DEF S
  <2> QED BY <1>2, <1>3
<1>5. CASE S = {}
  BY <1>1, <1>2, <1>5
<1>6. CASE S # {}
  BY <1>1, <1>4, <1>6
<1> QED BY <1>5, <1>6

\* What a process runs has a type.
LEMMA ServingTypesStep ==
  ASSUME ServingTypes, [NextServing]_allVars
  PROVE  ServingTypes'
<1> USE DEF ServingTypes
<1>1. \A status : NewestOf(status) \in Versions \cup {None}
  BY NewestIsOne
<1>2. CASE Operate
  BY <1>2 DEF Operate
<1>3. ASSUME NEW p \in Processes, LoadChampion(p) PROVE ServingTypes'
  <2>1. Quiet \in BOOLEAN
    BY DEF Quiet
  <2>2. NewestOf("CHAMPION") \in Versions \cup {None}
    BY <1>1
  <2>3. settled' \in [Processes -> BOOLEAN] /\ UNCHANGED <<shadow, scores>>
    BY <1>3, <2>1 DEF LoadChampion
  <2>4. running' \in [Processes -> Versions \cup {None}] /\ stage' \in [Processes -> {"down", "loading", "up"}]
    BY <1>3, <2>2 DEF LoadChampion, Unavailable
  <2> QED BY <2>3, <2>4
<1>4. ASSUME NEW p \in Processes, LoadChallenger(p) PROVE ServingTypes'
  <2>1. NewestOf("CHALLENGER") \in Versions \cup {None}
    BY <1>1
  <2>2. UNCHANGED <<settled, scores>>
    BY <1>4 DEF LoadChallenger
  <2>3. stage' \in [Processes -> {"down", "loading", "up"}]
    BY <1>4 DEF LoadChallenger, Unavailable
  <2>4. running' \in [Processes -> Versions \cup {None}] /\ shadow' \in [Processes -> Versions \cup {None}]
    BY <1>4, <2>1 DEF LoadChallenger, Unavailable
  <2> QED BY <2>2, <2>3, <2>4
<1>5. ASSUME NEW p \in Processes, Stop(p) PROVE ServingTypes'
  BY <1>5 DEF Stop
<1>6. ASSUME NEW p \in Processes, Score(p) PROVE ServingTypes'
  <2>1. running[p] \in Versions /\ (shadow[p] # None => shadow[p] \in Versions)
    BY <1>6 DEF Score
  <2>2. scores' \in SUBSET (Versions \X BOOLEAN)
    <3>1. /\ <<running[p], FALSE>> \in Versions \X BOOLEAN
          /\ shadow[p] # None => <<shadow[p], TRUE>> \in Versions \X BOOLEAN
      BY <2>1
    <3>2. scores \subseteq Versions \X BOOLEAN
      OBVIOUS
    <3>3. \A x \in scores' : \/ x \in scores \/ x = <<running[p], FALSE>>
                             \/ shadow[p] # None /\ x = <<shadow[p], TRUE>>
      BY <1>6 DEF Score
    <3> QED BY <3>1, <3>2, <3>3
  <2> QED BY <1>6, <2>2 DEF Score
<1>7. CASE UNCHANGED allVars
  BY <1>7 DEF allVars, servingVars
<1> QED BY <1>2, <1>3, <1>4, <1>5, <1>6, <1>7 DEF NextServing

\* A step that leaves the registry alone leaves what is said of it.
LEMMA RegistryUnchanged ==
  ASSUME UNCHANGED vars
  PROVE  /\ WellFormed => WellFormed'
         /\ Numbered => Numbered'
<1>1. WellFormed => WellFormed'
  BY DEF WellFormed, TypeOK, Working, vars, files, local
<1>2. Registered' = Registered
  BY DEF Registered, vars, files
<1>3. Numbered => Numbered'
  BY <1>2 DEF Numbered, Numbers, Target, vars, files, local
<1> QED BY <1>1, <1>3

\* Types and version numbers are kept by every step of the whole system.
LEMMA FormStep ==
  ASSUME WellFormed, Numbered, ServingTypes, [NextServing]_allVars
  PROVE  WellFormed' /\ Numbered' /\ ServingTypes'
<1>1. ServingTypes'
  BY ServingTypesStep
<1>2. CASE UNCHANGED vars
  BY <1>1, <1>2, RegistryUnchanged
<1>3. ASSUME NEW o \in Operators, Acts(o) PROVE WellFormed' /\ Numbered'
  BY <1>3, StepWellFormed, StepNumbered
<1>4. UNCHANGED allVars => UNCHANGED vars
  BY DEF allVars
<1> QED BY <1>1, <1>2, <1>3, <1>4, OperatorsOrProcesses

\* The system starts in order.
LEMMA InitForm == InitServing => WellFormed /\ Numbered /\ ServingTypes
<1> SUFFICES ASSUME InitServing PROVE WellFormed /\ Numbered /\ ServingTypes
  OBVIOUS
<1>1. WellFormed
  BY InitWellFormed DEF InitServing
<1>2. Numbered
  BY DEF InitServing, Init, Numbered, Registered
<1>3. ServingTypes
  BY DEF InitServing, ServingTypes
<1> QED BY <1>1, <1>2, <1>3

\* What the other proofs rest on: types, and version numbers in order.
THEOREM FormInvariant == SpecServing => [](WellFormed /\ Numbered /\ ServingTypes)
BY InitForm, FormStep, PTL DEF SpecServing

\* The type invariant of the registry and of the processes that run its models.
THEOREM TypeCorrect == SpecServing => []TypeOKServing
<1>1. WellFormed /\ ServingTypes => TypeOKServing
  BY DEF WellFormed, ServingTypes, TypeOKServing
<1> QED BY <1>1, FormInvariant, PTL

\* next_version finds a version that register will take, unless a process died in
\* between: operators at work at once do not block training.
THEOREM NextVersionStaysFree == SpecServing => []NextVersionIsFree
<1>1. WellFormed /\ Numbered => NextVersionIsFree
  <2> SUFFICES ASSUME WellFormed, Numbered, Quiet, crashes = 0 PROVE NextVersion \notin artifacts
    BY DEF NextVersionIsFree
  <2>1. artifacts \subseteq Registered
    BY DEF Numbered, Quiet
  <2>2. NextVersion \notin Registered
    BY NextIsFirstFree DEF WellFormed, Numbered
  <2> QED BY <2>1, <2>2
<1> QED BY <1>1, FormInvariant, PTL
-----------------------------------------------------------------------------
(* Superseded models.                                                       *)

\* Only two steps write the log, and only a death is counted.
LEMMA QuietActs ==
  ASSUME WellFormed, NEW o \in Operators, Acts(o)
  PROVE  /\ Crash(o) \/ crashes' = crashes
         /\ LogRetired(o) \/ LogStatus(o) \/ log' = log
<1>1. Register(o) \/ Rollback(o) => crashes' = crashes
  BY DEF Register, Rollback
<1>2. (\E v \in Versions, to \in Targets, acknowledged \in BOOLEAN :
         Promote(o, v, to, acknowledged)) => crashes' = crashes
  BY DEF Promote
<1>3. CheckArtifact(o) \/ Dump(o) \/ SetStatusRead(o) => crashes' = crashes
  BY DEF CheckArtifact, Dump, SetStatusRead
<1>4. OpenIncumbent(o) \/ RetireIncumbent(o) \/ OpenTarget(o) \/ WriteTarget(o) => crashes' = crashes
  BY DEF OpenIncumbent, RetireIncumbent, OpenTarget, WriteTarget, OpenFile, FillFile
<1>5. LogRetired(o) \/ LogStatus(o) => crashes' = crashes
  BY DEF LogRetired, LogStatus
<1> QED BY <1>1, <1>2, <1>3, <1>4, <1>5, LogGrows DEF Acts

\* On the way to its record, a promotion keeps the incumbent it will name.
LEMMA KeepsIncumbent ==
  ASSUME TypeOK, NEW o \in Operators, Acts(o), ~LogStatus(o), ~Crash(o),
         pc[o] \in {"write", "writing", "log"}
  PROVE  pc'[o] \in {"write", "writing", "log"} /\ incumbent'[o] = incumbent[o]
<1>1. OpenTarget(o) \/ WriteTarget(o)
  BY DEF Acts, Register, Promote, Rollback, Begin, CheckArtifact, Dump, SetStatusRead, OpenIncumbent,
         RetireIncumbent, LogRetired
<1> QED BY <1>1, TypeParts DEF OpenTarget, WriteTarget, OpenFile, FillFile, Goto

\* A model stays unnamed as long as no record names it.
LEMMA UnnamedAfter ==
  ASSUME TypeOK, NEW r, log' = Append(log, r)
  PROVE  \A i \in Unnamed' : \/ i = Len(log) + 1 /\ r.why = "superseded"
                             \/ i \in Unnamed /\ r.prev # log[i].version
<1>1. /\ Len(log) \in Nat /\ Len(log') = Len(log) + 1
      /\ \A i \in 1..Len(log) : log'[i] = log[i]
      /\ log'[Len(log) + 1] = r
  BY OneMoreRecord
<1> SUFFICES ASSUME NEW i \in Unnamed'
             PROVE  \/ i = Len(log) + 1 /\ r.why = "superseded"
                    \/ i \in Unnamed /\ r.prev # log[i].version
  OBVIOUS
<1>2. /\ i \in 1..Len(log') /\ log'[i].why = "superseded"
      /\ \A j \in (i + 1)..Len(log') : log'[j].prev # log'[i].version
  BY DEF Unnamed
<1>3. CASE i = Len(log) + 1
  BY <1>1, <1>2, <1>3
<1>4. CASE i # Len(log) + 1
  <2>1. i \in 1..Len(log)
    BY <1>1, <1>2, <1>4
  <2>2. \A j \in (i + 1)..Len(log) : j \in 1..Len(log) /\ j \in (i + 1)..Len(log')
    BY <1>1, <2>1
  <2>3. Len(log) + 1 \in (i + 1)..Len(log')
    BY <1>1, <2>1
  <2>4. i \in Unnamed
    BY <1>1, <1>2, <2>1, <2>2 DEF Unnamed
  <2>5. r.prev # log[i].version
    BY <1>1, <1>2, <2>1, <2>3
  <2> QED BY <2>4, <2>5
<1> QED BY <1>3, <1>4

\* What is unnamed is a superseded model of the log.
LEMMA UnnamedType ==
  ASSUME TypeOK, NEW i \in Unnamed
  PROVE  i \in 1..Len(log) /\ log[i].version \in Versions
<1>1. i \in 1..Len(log) /\ log \in Seq(Records)
  BY TypeParts DEF Unnamed
<1>2. log[i] \in Records
  <2> HIDE DEF Records
  <2> QED BY <1>1
<1> QED BY <1>1, <1>2 DEF Records

\* Every step keeps the superseded models accounted for.
LEMMA StepSuperseding ==
  ASSUME WellFormed, Superseding, NEW o \in Operators, Acts(o)
  PROVE  Superseding'
<1>1. TypeOK /\ Working(o) /\ crashes \in Nat /\ Len(log) \in Nat
  BY TypeParts DEF WellFormed
<1>2. PICK E \in SUBSET (1..Len(log)), owner \in [1..Len(log) -> Operators] :
        /\ Cardinality(E) <= crashes
        /\ \A i \in Unnamed \ E : /\ pc[owner[i]] \in {"write", "writing", "log"}
                                  /\ incumbent[owner[i]] = log[i].version
        /\ \A i, j \in Unnamed \ E : owner[i] = owner[j] => i = j
  BY DEF Superseding
<1>3. \A p \in Operators \ {o} : pc'[p] = pc[p] /\ incumbent'[p] = incumbent[p]
  BY <1>1, OthersKeep
<1>4. \A i \in Unnamed : i \in 1..Len(log) /\ log[i].version \in Versions /\ owner[i] \in Operators
  BY <1>1, UnnamedType
<1>5. CASE LogRetired(o)
  <2> DEFINE n == Len(log) + 1
             next == [i \in 1..n |-> IF i = n THEN o ELSE owner[i]]
  <2>1. PICK r : log' = Append(log, r) /\ r.version = incumbent[o] /\ r.prev = None
    BY <1>5, RecordsMade
  <2>2. Len(log') = n /\ (\A i \in 1..Len(log) : log'[i] = log[i]) /\ log'[n] = r
    BY <1>1, <2>1, OneMoreRecord
  <2>3. \A i \in Unnamed' : i = n \/ i \in Unnamed
    BY <1>1, <2>1, UnnamedAfter
  <2>4. pc[o] = "log_retire" /\ pc'[o] = "write" /\ incumbent'[o] = incumbent[o] /\ crashes' = crashes
    BY <1>1, <1>5, TypeParts DEF LogRetired, Goto
  <2>5. next \in [1..Len(log') -> Operators] /\ E \in SUBSET (1..Len(log')) /\ n \notin 1..Len(log)
    BY <1>1, <2>2
  <2>6. \A i \in Unnamed : i \in 1..n /\ i # n /\ next[i] = owner[i] /\ log'[i] = log[i]
    BY <1>1, <1>4, <2>2
  <2>7. n \in 1..n /\ next[n] = o
    BY <1>1
  <2> HIDE DEF n, next
  <2>8. \A i \in Unnamed' \ E : /\ pc'[next[i]] \in {"write", "writing", "log"}
                                /\ incumbent'[next[i]] = log'[i].version
    BY <1>2, <1>3, <1>4, <2>1, <2>2, <2>3, <2>4, <2>6, <2>7
  <2>9. \A i, j \in Unnamed' \ E : next[i] = next[j] => i = j
    BY <1>2, <2>3, <2>4, <2>6, <2>7
  <2>10. Cardinality(E) <= crashes'
    BY <1>2, <2>4
  <2> QED BY <2>5, <2>8, <2>9, <2>10 DEF Superseding
<1>6. CASE LogStatus(o)
  <2> DEFINE n == Len(log) + 1
             next == [i \in 1..n |-> IF i = n THEN o ELSE owner[i]]
  <2>1. PICK r : log' = Append(log, r) /\ r.prev = incumbent[o] /\ r.why = Target(o).why
    BY <1>6, RecordsMade
  <2>2. Len(log') = n /\ (\A i \in 1..Len(log) : log'[i] = log[i]) /\ log'[n] = r
    BY <1>1, <2>1, OneMoreRecord
  <2>3. Target(o).why # "superseded"
    BY <1>1, <1>6, TargetIsCall DEF LogStatus, Working, Calls
  <2>4. \A i \in Unnamed' : i \in Unnamed /\ incumbent[o] # log[i].version
    BY <1>1, <2>1, <2>3, UnnamedAfter
  <2>5. next \in [1..Len(log') -> Operators] /\ E \in SUBSET (1..Len(log'))
    BY <1>1, <2>2
  <2>6. \A i \in Unnamed : i \in 1..n /\ i # n /\ next[i] = owner[i] /\ log'[i] = log[i]
    BY <1>1, <1>4, <2>2
  <2>7. crashes' = crashes
    BY <1>6 DEF LogStatus
  <2> HIDE DEF n, next
  <2>8. \A i \in Unnamed' \ E : /\ pc'[next[i]] \in {"write", "writing", "log"}
                                /\ incumbent'[next[i]] = log'[i].version
    BY <1>2, <1>3, <1>4, <2>4, <2>6
  <2>9. \A i, j \in Unnamed' \ E : next[i] = next[j] => i = j
    BY <1>2, <2>4, <2>6
  <2>10. Cardinality(E) <= crashes'
    BY <1>2, <2>7
  <2> QED BY <2>5, <2>8, <2>9, <2>10 DEF Superseding
<1>7. CASE Crash(o)
  <2>1. log' = log /\ crashes' = crashes + 1
    BY <1>7 DEF Crash, files
  <2>2. Unnamed' = Unnamed
    BY <2>1 DEF Unnamed
  <2>3. IsFiniteSet(E) /\ Cardinality(E) \in Nat
    <3>1. IsFiniteSet(1..Len(log))
      BY <1>1, FS_Interval
    <3>2. IsFiniteSet(E)
      BY <3>1, FS_Subset
    <3> QED BY <3>2, FS_CardinalityType
  <2>4. CASE \E i \in Unnamed \ E : owner[i] = o
    <3>1. PICK k \in Unnamed \ E : owner[k] = o
      BY <2>4
    <3> DEFINE D == E \cup {k}
    <3>2. D \in SUBSET (1..Len(log)) /\ Cardinality(D) <= crashes'
      <4>1. Cardinality(D) = Cardinality(E) + 1
        BY <2>3, <3>1, FS_AddElement
      <4>2. Cardinality(D) <= crashes'
        BY <1>1, <1>2, <2>1, <2>3, <4>1
      <4>3. D \in SUBSET (1..Len(log))
        BY <1>4, <3>1
      <4> QED BY <4>2, <4>3
    <3>3. \A i \in Unnamed \ D : i \in Unnamed \ E /\ owner[i] # o
      BY <1>2, <3>1
    <3> HIDE DEF D
    <3>4. \A i \in Unnamed \ D : /\ pc'[owner[i]] \in {"write", "writing", "log"}
                                 /\ incumbent'[owner[i]] = log[i].version
      BY <1>2, <1>3, <1>4, <3>3
    <3>5. \A i, j \in Unnamed \ D : owner[i] = owner[j] => i = j
      BY <1>2, <3>3
    <3> QED BY <2>1, <2>2, <3>2, <3>4, <3>5 DEF Superseding
  <2>5. CASE ~\E i \in Unnamed \ E : owner[i] = o
    <3>1. \A i \in Unnamed \ E : /\ pc'[owner[i]] \in {"write", "writing", "log"}
                                 /\ incumbent'[owner[i]] = log[i].version
      BY <1>2, <1>3, <1>4, <2>5
    <3>2. Cardinality(E) <= crashes'
      BY <1>1, <1>2, <2>1, <2>3
    <3> QED BY <1>2, <2>1, <2>2, <3>1, <3>2 DEF Superseding
  <2> QED BY <2>4, <2>5
<1>8. CASE ~LogRetired(o) /\ ~LogStatus(o) /\ ~Crash(o)
  <2>1. log' = log /\ crashes' = crashes
    BY <1>8, QuietActs
  <2>2. Unnamed' = Unnamed
    BY <2>1 DEF Unnamed
  <2>3. \A p \in Operators : pc[p] \in {"write", "writing", "log"} =>
          pc'[p] \in {"write", "writing", "log"} /\ incumbent'[p] = incumbent[p]
    BY <1>1, <1>3, <1>8, KeepsIncumbent
  <2>4. \A i \in Unnamed \ E : /\ pc'[owner[i]] \in {"write", "writing", "log"}
                               /\ incumbent'[owner[i]] = log[i].version
    BY <1>2, <1>4, <2>3
  <2> QED BY <1>2, <2>1, <2>2, <2>4 DEF Superseding
<1> QED BY <1>5, <1>6, <1>7, <1>8

\* Every superseded model is named by a promotion, but for one per operator that
\* died: a rollback finds what to restore, however operators interleave.
THEOREM SupersededAreNamed == SpecServing => []SupersededIsNamed
<1>1. InitServing => Superseding
  <2> SUFFICES ASSUME InitServing PROVE Superseding
    OBVIOUS
  <2>1. log = <<>> /\ crashes = 0 /\ Len(log) = 0
    BY DEF InitServing, Init
  <2>2. Unnamed = {} /\ {} \in SUBSET (1..Len(log)) /\ Cardinality({}) <= crashes
    BY <2>1, FS_EmptySet DEF Unnamed
  <2>3. [i \in 1..Len(log) |-> CHOOSE o \in Operators : TRUE] \in [1..Len(log) -> Operators]
    BY <2>1
  <2> QED BY <2>2, <2>3 DEF Superseding
<1>2. WellFormed /\ Superseding /\ [NextServing]_allVars => Superseding'
  <2> SUFFICES ASSUME WellFormed, Superseding, [NextServing]_allVars PROVE Superseding'
    OBVIOUS
  <2>1. ASSUME UNCHANGED vars PROVE Superseding'
    <3>1. UNCHANGED <<log, pc, incumbent, crashes>>
      BY <2>1 DEF vars, files, local
    <3>2. Unnamed' = Unnamed
      BY <3>1 DEF Unnamed
    <3> QED BY <3>1, <3>2 DEF Superseding
  <2>2. \A o \in Operators : Acts(o) => Superseding'
    BY StepSuperseding
  <2>3. UNCHANGED allVars => UNCHANGED vars
    BY DEF allVars
  <2> QED BY <2>1, <2>2, <2>3, OperatorsOrProcesses
<1>3. WellFormed /\ Superseding => SupersededIsNamed
  <2> SUFFICES ASSUME WellFormed, Superseding, Quiet PROVE Cardinality(Unnamed) <= crashes
    BY DEF SupersededIsNamed
  <2>1. PICK E \in SUBSET (1..Len(log)), owner \in [1..Len(log) -> Operators] :
          /\ Cardinality(E) <= crashes
          /\ \A i \in Unnamed \ E : /\ pc[owner[i]] \in {"write", "writing", "log"}
                                    /\ incumbent[owner[i]] = log[i].version
          /\ \A i, j \in Unnamed \ E : owner[i] = owner[j] => i = j
    BY DEF Superseding
  <2>2. Unnamed \subseteq E
    BY <2>1 DEF Quiet, Unnamed
  <2>3. IsFiniteSet(E)
    <3>1. Len(log) \in Nat
      BY TypeParts DEF WellFormed
    <3>2. IsFiniteSet(1..Len(log))
      BY <3>1, FS_Interval
    <3> QED BY <3>2, FS_Subset
  <2>4. Cardinality(Unnamed) <= Cardinality(E) /\ Cardinality(Unnamed) \in Nat
        /\ Cardinality(E) \in Nat /\ crashes \in Nat
    BY <2>2, <2>3, FS_Subset, FS_CardinalityType, TypeParts DEF WellFormed
  <2> QED BY <2>1, <2>4
<1> QED BY <1>1, <1>2, <1>3, FormInvariant, PTL DEF SpecServing
-----------------------------------------------------------------------------
(* Promotions on record.                                                    *)

\* The sets of models for which operators died are finite.
LEMMA VersionsFinite ==
  ASSUME NEW E \in SUBSET Versions
  PROVE  IsFiniteSet(E) /\ Cardinality(E) \in Nat
<1>1. IsFiniteSet(Versions)
  BY RegistryAssumption, FS_Interval DEF Versions
<1>2. IsFiniteSet(E)
  BY <1>1, FS_Subset
<1> QED BY <1>2, FS_CardinalityType

\* What was approved stays so.
LEMMA ApprovedStays ==
  ASSUME TypeOK, NEW r, log' = Append(log, r)
  PROVE  /\ \A v : Approved(v) => Approved(v)'
         /\ r.to = "CHAMPION" /\ r.why \in {"promotion", "acknowledged"} => Approved(r.version)'
<1>1. /\ Len(log) \in Nat /\ Len(log') = Len(log) + 1
      /\ \A i \in 1..Len(log) : log'[i] = log[i]
      /\ log'[Len(log) + 1] = r
  BY OneMoreRecord
<1>2. \A i \in 1..Len(log) : i \in 1..Len(log')
  BY <1>1
<1>3. Len(log) + 1 \in 1..Len(log')
  BY <1>1
<1> QED BY <1>1, <1>2, <1>3 DEF Approved

\* A step leaves no model without an excuse, but for one when an operator dies.
LEMMA ExcusedStays ==
  ASSUME WellFormed, NEW o \in Operators, Acts(o), NEW E \in SUBSET Versions,
         Cardinality(E) <= crashes
  PROVE  \E D \in SUBSET Versions :
           Cardinality(D) <= crashes' /\ \A v : Excused(E, v) => Excused(D, v)'
<1>1. TypeOK /\ Working(o) /\ crashes \in Nat
  BY TypeParts DEF WellFormed
<1>2. \A p \in Operators \ {o} : pc'[p] = pc[p] /\ Target(p)' = Target(p)
  BY <1>1, OthersKeep
<1>3. \A v : Approved(v) => Approved(v)'
  <2>1. log' = log => \A v : Approved(v) => Approved(v)'
    BY DEF Approved
  <2>2. (\E r : log' = Append(log, r)) => \A v : Approved(v) => Approved(v)'
    BY <1>1, ApprovedStays
  <2>3. log' = log \/ \E r : log' = Append(log, r)
    BY QuietActs DEF LogRetired, LogStatus
  <2> QED BY <2>1, <2>2, <2>3
<1>4. CASE Crash(o)
  <2>1. crashes' = crashes + 1
    BY <1>4 DEF Crash
  <2>2. plan[o] # <<>>
    BY <1>1, <1>4 DEF Crash, Working
  <2>3. PICK D \in SUBSET Versions : D = E \cup {Target(o).version}
    BY <1>1, <2>2, TargetIsCall
  <2>4. Cardinality(D) <= Cardinality(E) + 1
    BY <2>3, VersionsFinite, FS_AddElement
  <2>5. Cardinality(D) <= crashes'
    BY <1>1, <2>1, <2>3, <2>4, VersionsFinite
  <2>6. ASSUME NEW v, Excused(E, v) PROVE Excused(D, v)'
    <3>1. CASE v \in E \/ Approved(v)
      BY <1>3, <2>3, <3>1 DEF Excused
    <3>2. CASE \E p \in Operators :
                 /\ pc[p] = "log" /\ Target(p).version = v /\ Target(p).to = "CHAMPION"
                 /\ Target(p).why \in {"promotion", "acknowledged"}
      <4>1. PICK p \in Operators :
                 /\ pc[p] = "log" /\ Target(p).version = v /\ Target(p).to = "CHAMPION"
                 /\ Target(p).why \in {"promotion", "acknowledged"}
        BY <3>2
      <4>2. CASE p = o
        BY <2>3, <4>1, <4>2 DEF Excused
      <4>3. CASE p # o
        BY <1>2, <4>1, <4>3 DEF Excused
      <4> QED BY <4>2, <4>3
    <3> QED BY <2>6, <3>1, <3>2 DEF Excused
  <2> QED BY <2>3, <2>5, <2>6
<1>5. CASE ~Crash(o)
  <2>1. crashes' = crashes
    BY <1>5, QuietActs
  <2>2. ASSUME NEW v, Excused(E, v) PROVE Excused(E, v)'
    <3>1. CASE v \in E \/ Approved(v)
      BY <1>3, <3>1 DEF Excused
    <3>2. CASE \E p \in Operators \ {o} :
                 /\ pc[p] = "log" /\ Target(p).version = v /\ Target(p).to = "CHAMPION"
                 /\ Target(p).why \in {"promotion", "acknowledged"}
      BY <1>2, <3>2 DEF Excused
    <3>3. CASE /\ pc[o] = "log" /\ Target(o).version = v /\ Target(o).to = "CHAMPION"
               /\ Target(o).why \in {"promotion", "acknowledged"}
      <4>1. LogStatus(o)
        BY <1>5, <3>3 DEF Acts, Register, Promote, Rollback, Begin, CheckArtifact, Dump, SetStatusRead,
                OpenIncumbent, RetireIncumbent, LogRetired, OpenTarget, WriteTarget
      <4>2. PICK r : /\ log' = Append(log, r)
                     /\ r.version = Target(o).version /\ r.to = Target(o).to
                     /\ r.prev = incumbent[o] /\ r.why = Target(o).why
        BY <4>1, RecordsMade
      <4>3. Approved(r.version)'
        BY <1>1, <3>3, <4>2, ApprovedStays
      <4> QED BY <3>3, <4>2, <4>3 DEF Excused, Approved
    <3> QED BY <2>2, <3>1, <3>2, <3>3 DEF Excused
  <2> QED BY <2>1, <2>2
<1> QED BY <1>4, <1>5

\* A champion was one before, or was just written by an operator that will record it.
LEMMA ChampionMade ==
  ASSUME WellFormed, NEW o \in Operators, Acts(o), NEW v \in Champions', v \notin Champions
  PROVE  /\ WriteTarget(o) /\ Target(o)' = Target(o) /\ pc'[o] = "log"
         /\ Target(o).version = v /\ Target(o).to = "CHAMPION"
         /\ 1 \in 1..Len(plan[o]) /\ Target(o) = plan[o][1]
<1>1. TypeOK /\ Working(o)
  BY DEF WellFormed
<1>2. meta \in [Versions -> Statuses \cup {None}] /\ pc \in [Operators -> PCs]
  BY <1>1, TypeParts
<1>3. v \in Versions /\ meta'[v] = "CHAMPION" /\ meta[v] # "CHAMPION"
  BY DEF Champions
<1>4. /\ WriteTarget(o) /\ Target(o) \in Calls
      /\ meta' = [meta EXCEPT ![Target(o).version] = Target(o).to]
  BY <1>2, <1>3, StatusWritten
<1>5. v = Target(o).version /\ Target(o).to = "CHAMPION"
  BY <1>2, <1>3, <1>4
<1>6. pc'[o] = "log" /\ Target(o)' = Target(o)
  BY <1>2, <1>4 DEF WriteTarget, FillFile, Goto, Target
<1>7. 1 \in 1..Len(plan[o]) /\ Target(o) = plan[o][1]
  BY <1>1, <1>4, TargetIsCall DEF WriteTarget, Working
<1> QED BY <1>4, <1>5, <1>6, <1>7

\* Operators promote no model that was not approved, or is about to be on record.
LEMMA StepPromoting ==
  ASSUME WellFormed, Promoting, NEW o \in Operators, Acts(o), UNCHANGED <<running, scores>>
  PROVE  Promoting'
<1>1. TypeOK /\ Working(o)
  BY DEF WellFormed
<1>2. PICK E \in SUBSET Versions :
        /\ Cardinality(E) <= crashes
        /\ \A v \in Champions : Excused(E, v)
        /\ \A i \in 1..Len(log) : log[i].prev # None => Excused(E, log[i].prev)
        /\ \A p \in Operators :
             /\ incumbent[p] # None => Excused(E, incumbent[p])
             /\ \A i \in 1..Len(plan[p]) :
                  plan[p][i].to = "CHAMPION" => \/ plan[p][i].why \in {"promotion", "acknowledged"}
                                                \/ Excused(E, plan[p][i].version)
        /\ \A p \in Processes : running[p] # None => Excused(E, running[p])
        /\ \A s \in scores : s[2] = FALSE => Excused(E, s[1])
  BY DEF Promoting
<1>3. PICK D \in SUBSET Versions :
        Cardinality(D) <= crashes' /\ \A v : Excused(E, v) => Excused(D, v)'
  BY <1>2, ExcusedStays
<1>4. ASSUME NEW v \in Champions' PROVE Excused(D, v)'
  <2>1. CASE v \in Champions
    BY <1>2, <1>3, <2>1
  <2>2. CASE v \notin Champions
    <3>1. /\ WriteTarget(o) /\ Target(o)' = Target(o) /\ pc'[o] = "log"
          /\ Target(o).version = v /\ Target(o).to = "CHAMPION"
          /\ 1 \in 1..Len(plan[o]) /\ Target(o) = plan[o][1]
      BY <2>2, ChampionMade
    <3>2. CASE Target(o).why \in {"promotion", "acknowledged"}
      BY <3>1, <3>2 DEF Excused
    <3>3. CASE Target(o).why \notin {"promotion", "acknowledged"}
      <4>1. Excused(E, v)
        BY <1>2, <3>1, <3>3
      <4> QED BY <1>3, <4>1
    <3> QED BY <3>2, <3>3
  <2> QED BY <2>1, <2>2
<1>5. ASSUME NEW i \in 1..Len(log'), NEW w, w = log'[i].prev, w # None PROVE Excused(D, w)'
  <2>1. ASSUME NEW r, log' = Append(log, r), r.prev # None => Excused(E, r.prev)
        PROVE  Excused(E, w)
    <3>1. /\ Len(log) \in Nat /\ Len(log') = Len(log) + 1
          /\ \A k \in 1..Len(log) : log'[k] = log[k]
          /\ log'[Len(log) + 1] = r
      BY <1>1, <2>1, OneMoreRecord
    <3>2. i \in 1..Len(log) \/ i = Len(log) + 1
      BY <3>1
    <3>3. CASE i \in 1..Len(log)
      BY <1>2, <1>5, <3>1, <3>3
    <3>4. CASE i = Len(log) + 1
      BY <1>5, <2>1, <3>1, <3>4
    <3> QED BY <3>2, <3>3, <3>4
  <2>2. LogRetired(o) => \E r : log' = Append(log, r) /\ r.prev = None
    BY RecordsMade
  <2>3. LogStatus(o) => \E r : log' = Append(log, r) /\ r.prev = incumbent[o]
    BY RecordsMade
  <2>4. log' = log => Excused(E, w)
    BY <1>2, <1>5
  <2>5. Excused(E, w)
    BY <1>2, <2>1, <2>2, <2>3, <2>4, QuietActs
  <2> QED BY <1>3, <1>5, <2>5
<1>6. ASSUME NEW p \in Operators, NEW w, w = incumbent'[p], w # None PROVE Excused(D, w)'
  <2>1. CASE p = o
    <3>1. w = incumbent[o] \/ w \in Champions
      BY <1>1, <1>6, <2>1, IncumbentRead
    <3>2. Excused(E, w)
      BY <1>2, <1>6, <3>1
    <3> QED BY <1>3, <3>2
  <2>2. CASE p # o
    <3>1. w = incumbent[p]
      BY <1>1, <1>6, <2>2, OthersKeep
    <3>2. Excused(E, w)
      BY <1>2, <1>6, <3>1
    <3> QED BY <1>3, <3>2
  <2> QED BY <2>1, <2>2
<1>7. ASSUME NEW p \in Operators, NEW i \in 1..Len(plan'[p]), NEW c, c = plan'[p][i],
             c.to = "CHAMPION", c.why \notin {"promotion", "acknowledged"}
      PROVE  Excused(D, c.version)'
  <2>1. CASE \E q \in Operators : \E j \in 1..Len(plan[q]) : c = plan[q][j]
    <3>1. Excused(E, c.version)
      BY <1>2, <1>7, <2>1
    <3> QED BY <1>3, <3>1
  <2>2. CASE p = o /\ c = Call(NextVersion, "CANDIDATE", "registration")
    BY <1>7, <2>2 DEF Call
  <2>3. CASE p = o /\ \E v \in Registered, to \in Targets, why \in {"promotion", "acknowledged"} :
               c = Call(v, to, why)
    BY <1>7, <2>3 DEF Call
  <2>4. CASE p = o /\ Champion # None /\ c = Call(Champion, "RETIRED", "rollback")
    BY <1>7, <2>4 DEF Call
  <2>5. CASE p = o /\ \E j \in 1..Len(log) :
               log[j].prev # None /\ c = Call(log[j].prev, "CHAMPION", "rollback")
    <3>1. PICK j \in 1..Len(log) :
               log[j].prev # None /\ c = Call(log[j].prev, "CHAMPION", "rollback")
      BY <2>5
    <3>2. c.version = log[j].prev
      BY <3>1 DEF Call
    <3>3. Excused(E, c.version)
      BY <1>2, <3>1, <3>2
    <3> QED BY <1>3, <3>3
  <2>6. p # o => \E j \in 1..Len(plan[p]) : c = plan[p][j]
    BY <1>1, <1>7, OthersKeep
  <2>7. CASE p = o
    <3>1. \/ \E j \in 1..Len(plan[o]) : c = plan[o][j]
          \/ c = Call(NextVersion, "CANDIDATE", "registration")
          \/ \E v \in Registered, to \in Targets, why \in {"promotion", "acknowledged"} :
               c = Call(v, to, why)
          \/ Champion # None /\ c = Call(Champion, "RETIRED", "rollback")
          \/ \E j \in 1..Len(log) :
               log[j].prev # None /\ c = Call(log[j].prev, "CHAMPION", "rollback")
      BY <1>7, <2>7, PlansMade
    <3> QED BY <2>1, <2>2, <2>3, <2>4, <2>5, <2>7, <3>1
  <2> QED BY <2>1, <2>6, <2>7
<1>8. (\A v \in Champions : Excused(D, v))'
  BY <1>4
<1>9. (\A i \in 1..Len(log) : log[i].prev # None => Excused(D, log[i].prev))'
  BY <1>5
<1>10. (\A p \in Operators : incumbent[p] # None => Excused(D, incumbent[p]))'
  BY <1>6
<1>11. (\A p \in Operators : \A i \in 1..Len(plan[p]) :
         plan[p][i].to = "CHAMPION" => \/ plan[p][i].why \in {"promotion", "acknowledged"}
                                       \/ Excused(D, plan[p][i].version))'
  BY <1>7
<1>12. (\A p \in Processes : running[p] # None => Excused(D, running[p]))'
  BY <1>2, <1>3
<1>13. (\A s \in scores : s[2] = FALSE => Excused(D, s[1]))'
  BY <1>2, <1>3
<1>14. D \in SUBSET Versions /\ Cardinality(D) <= crashes'
  BY <1>3
<1> HIDE DEF Excused, Champions
<1> QED BY <1>8, <1>9, <1>10, <1>11, <1>12, <1>13, <1>14 DEF Promoting

\* What is excused does not depend on the processes.
LEMMA ExcusedUnchanged ==
  ASSUME UNCHANGED vars, NEW E, NEW v, Excused(E, v)
  PROVE  Excused(E, v)'
BY DEF Excused, Approved, Target, vars, files, local

\* Processes run champions and store the scores of what they run.
LEMMA ServeStepPromoting ==
  ASSUME ServingTypes, Promoting, UNCHANGED vars,
         NEW q \in Processes, LoadChampion(q) \/ LoadChallenger(q) \/ Stop(q) \/ Score(q)
  PROVE  Promoting'
<1>1. PICK E \in SUBSET Versions :
        /\ Cardinality(E) <= crashes
        /\ \A v \in Champions : Excused(E, v)
        /\ \A i \in 1..Len(log) : log[i].prev # None => Excused(E, log[i].prev)
        /\ \A p \in Operators :
             /\ incumbent[p] # None => Excused(E, incumbent[p])
             /\ \A i \in 1..Len(plan[p]) :
                  plan[p][i].to = "CHAMPION" => \/ plan[p][i].why \in {"promotion", "acknowledged"}
                                                \/ Excused(E, plan[p][i].version)
        /\ \A p \in Processes : running[p] # None => Excused(E, running[p])
        /\ \A s \in scores : s[2] = FALSE => Excused(E, s[1])
  BY DEF Promoting
<1>2. \A v : Excused(E, v) => Excused(E, v)'
  BY ExcusedUnchanged
<1>3. running \in [Processes -> Versions \cup {None}]
  BY DEF ServingTypes
<1>4. ASSUME NEW p \in Processes, NEW w, w = running'[p], w # None PROVE Excused(E, w)'
  <2>1. CASE LoadChampion(q)
    <3>1. w = running[p] \/ w = NewestOf("CHAMPION")
      BY <1>3, <1>4, <2>1 DEF LoadChampion, Unavailable
    <3>2. NewestOf("CHAMPION") # None => NewestOf("CHAMPION") \in Champions
      BY NewestIsOne DEF Champions
    <3>3. Excused(E, w)
      BY <1>1, <1>4, <3>1, <3>2
    <3> QED BY <1>2, <3>3
  <2>2. CASE LoadChallenger(q) \/ Stop(q) \/ Score(q)
    <3>1. w = running[p]
      BY <1>3, <1>4, <2>2 DEF LoadChallenger, Unavailable, Stop, Score
    <3>2. Excused(E, w)
      BY <1>1, <1>4, <3>1
    <3> QED BY <1>2, <3>2
  <2> QED BY <2>1, <2>2
<1>5. ASSUME NEW s \in scores', s[2] = FALSE PROVE Excused(E, s[1])'
  <2>1. CASE LoadChampion(q) \/ LoadChallenger(q) \/ Stop(q)
    BY <1>1, <1>2, <1>5, <2>1 DEF LoadChampion, LoadChallenger, Stop
  <2>2. CASE Score(q)
    <3>1. s \in scores \/ s = <<running[q], FALSE>> \/ s = <<shadow[q], TRUE>>
      BY <1>5, <2>2 DEF Score
    <3>2. running[q] # None
      BY <2>2 DEF Score
    <3>3. s[1] = running[q] \/ s \in scores
      <4>1. \A x, y : <<x, y>>[1] = x /\ <<x, y>>[2] = y
        OBVIOUS
      <4>2. s # <<shadow[q], TRUE>>
        BY <1>5, <4>1
      <4>3. s = <<running[q], FALSE>> => s[1] = running[q]
        BY <4>1
      <4> QED BY <3>1, <4>2, <4>3
    <3>4. Excused(E, running[q])
      BY <1>1, <3>2
    <3>5. s \in scores => Excused(E, s[1])
      BY <1>1, <1>5
    <3>6. Excused(E, s[1])
      BY <3>3, <3>4, <3>5
    <3> QED BY <1>2, <3>6
  <2> QED BY <2>1, <2>2
<1>6. (\A v \in Champions : Excused(E, v))'
  <2>1. Champions' = Champions
    BY DEF Champions, vars, files
  <2> QED BY <1>1, <1>2, <2>1
<1>7. /\ log' = log /\ incumbent' = incumbent /\ plan' = plan /\ crashes' = crashes
  BY DEF vars, files, local
<1>8. (\A i \in 1..Len(log) : log[i].prev # None => Excused(E, log[i].prev))'
  BY <1>1, <1>2, <1>7
<1>9. (\A p \in Operators : incumbent[p] # None => Excused(E, incumbent[p]))'
  BY <1>1, <1>2, <1>7
<1>10. (\A p \in Operators : \A i \in 1..Len(plan[p]) :
         plan[p][i].to = "CHAMPION" => \/ plan[p][i].why \in {"promotion", "acknowledged"}
                                       \/ Excused(E, plan[p][i].version))'
  BY <1>1, <1>2, <1>7
<1>11. (\A p \in Processes : running[p] # None => Excused(E, running[p]))'
  BY <1>4
<1>12. (\A s \in scores : s[2] = FALSE => Excused(E, s[1]))'
  BY <1>5
<1>13. Cardinality(E) <= crashes'
  BY <1>1, <1>7
<1> HIDE DEF Excused, Champions
<1> QED BY <1>6, <1>8, <1>9, <1>10, <1>11, <1>12, <1>13 DEF Promoting

\* No model raises alerts but one that passed the gate or was acknowledged, on
\* record: of all the champions ever, at most one per operator that died, whoever
\* interleaves, and however often models are promoted and rolled back.
THEOREM ServedWerePromoted == SpecServing => []ServedWasPromoted
<1>1. InitServing => Promoting
  <2> SUFFICES ASSUME InitServing PROVE Promoting
    OBVIOUS
  <2> USE DEF InitServing, Init
  <2>1. Champions = {}
    BY RegistryAssumption DEF Champions, Statuses
  <2>2. {} \in SUBSET Versions /\ Cardinality({}) <= crashes
    BY FS_EmptySet
  <2>3. Len(log) = 0 /\ \A p \in Operators : Len(plan[p]) = 0
    OBVIOUS
  <2> QED BY <2>1, <2>2, <2>3 DEF Promoting
<1>2. WellFormed /\ ServingTypes /\ Promoting /\ [NextServing]_allVars => Promoting'
  <2> SUFFICES ASSUME WellFormed, ServingTypes, Promoting, [NextServing]_allVars PROVE Promoting'
    OBVIOUS
  <2>1. CASE Operate /\ \E o \in Operators : Acts(o)
    <3>1. UNCHANGED <<running, scores>>
      BY <2>1 DEF Operate
    <3> QED BY <2>1, <3>1, StepPromoting
  <2>2. CASE UNCHANGED vars /\ \E p \in Processes :
               LoadChampion(p) \/ LoadChallenger(p) \/ Stop(p) \/ Score(p)
    BY <2>2, ServeStepPromoting
  <2>3. CASE UNCHANGED allVars
    BY <2>3 DEF Promoting, Excused, Approved, Champions, Target, allVars, vars, files, local, servingVars
  <2> QED BY <2>1, <2>2, <2>3, OperatorsOrProcesses
<1>3. WellFormed /\ ServingTypes /\ Promoting => ServedWasPromoted
  <2> SUFFICES ASSUME WellFormed, ServingTypes, Promoting PROVE ServedWasPromoted
    OBVIOUS
  <2>1. PICK E \in SUBSET Versions :
          Cardinality(E) <= crashes /\ \A s \in scores : s[2] = FALSE => Excused(E, s[1])
    BY DEF Promoting
  <2> DEFINE U == {v \in LiveScores(FALSE) \ Unrecorded : ~Approved(v)}
  <2>2. ASSUME NEW v \in U PROVE v \in E
    <3>1. PICK s \in scores : s[2] = FALSE /\ v = s[1]
      BY DEF LiveScores
    <3>2. Excused(E, v)
      BY <2>1, <3>1
    <3> QED BY <3>2 DEF Excused, Unrecorded
  <2>3. U \subseteq E
    BY <2>2
  <2> HIDE DEF U
  <2>4. Cardinality(U) <= Cardinality(E) /\ U \in SUBSET Versions
    BY <2>3, VersionsFinite, FS_Subset
  <2>5. Cardinality(U) \in Nat /\ Cardinality(E) \in Nat /\ crashes \in Nat
    BY <2>4, VersionsFinite, TypeParts DEF WellFormed
  <2> QED BY <2>1, <2>4, <2>5 DEF ServedWasPromoted, U
<1> QED BY <1>1, <1>2, <1>3, FormInvariant, PTL DEF SpecServing
-----------------------------------------------------------------------------
(* Operations in turn.                                                      *)

\* While no two operations were ever under way at once, the others are idle.
LEMMA AloneStays ==
  ASSUME WellFormed, ~overlapped => Alone, NEW o \in Operators, Acts(o), ~overlapped'
  PROVE  ~overlapped /\ Alone' /\ \A p \in Operators \ {o} : pc[p] = "idle" /\ pc'[p] = "idle"
<1>1. TypeOK /\ overlapped \in BOOLEAN
  BY TypeParts DEF WellFormed
<1>2. CASE pc[o] = "idle"
  <2>1. overlapped' = (overlapped \/ \E p \in Operators : pc[p] # "idle")
    BY <1>2 DEF Acts, Register, Promote, Rollback, Begin, CheckArtifact, Dump, SetStatusRead, OpenIncumbent,
       RetireIncumbent, LogRetired, OpenTarget, WriteTarget, LogStatus, Crash
  <2>2. ~overlapped /\ \A p \in Operators : pc[p] = "idle"
    BY <2>1
  <2> QED BY <1>1, <2>2, OthersKeep DEF Alone
<1>3. CASE pc[o] # "idle"
  <2>1. overlapped' = overlapped
    BY <1>3 DEF Acts, Register, Promote, Rollback, Begin, CheckArtifact, Dump, SetStatusRead, OpenIncumbent,
       RetireIncumbent, LogRetired, OpenTarget, WriteTarget, LogStatus, Crash, OpenFile, FillFile
  <2>2. ~overlapped /\ \A p \in Operators \ {o} : pc[p] = "idle"
    BY <1>3, <2>1 DEF Alone
  <2> QED BY <1>1, <2>2, OthersKeep DEF Alone
<1> QED BY <1>2, <1>3

\* The champions depend on the statuses alone.
LEMMA ChampionsKept ==
  ASSUME meta' = meta
  PROVE  /\ Champions' = Champions /\ Champion' = Champion
         /\ AtMostOneChampion => AtMostOneChampion'
<1>1. Champions' = Champions
  BY DEF Champions
<1> QED BY <1>1 DEF Champion, AtMostOneChampion

\* An operation starts its turn.
LEMMA BeginsTurn ==
  ASSUME WellFormed, AtMostOneChampion, NEW o \in Operators,
         \/ Register(o) \/ Rollback(o)
         \/ \E v \in Versions, to \in Targets, acknowledged \in BOOLEAN :
              Promote(o, v, to, acknowledged)
  PROVE  AtMostOneChampion' /\ Turn(o)'
<1>1. TypeOK /\ Working(o) /\ plan \in [Operators -> Seq(Calls)] /\ pc \in [Operators -> PCs]
  BY TypeParts DEF WellFormed
<1> HIDE DEF Calls, PCs
<1>2. meta' = meta /\ incumbent' = incumbent /\ incumbent[o] = None
  BY <1>1 DEF Register, Rollback, Promote, Begin, files, Working
<1>3. AtMostOneChampion' /\ Champion' = Champion
  BY <1>2, ChampionsKept
<1>4. CASE Register(o)
  <2> DEFINE c == Call(NextVersion, "CANDIDATE", "registration")
  <2>1. plan' = [plan EXCEPT ![o] = <<c>>] /\ pc' = [pc EXCEPT ![o] = "check"]
    BY <1>4 DEF Register, Begin, Goto
  <2>2. c.to = "CANDIDATE" /\ c.why = "registration"
    BY DEF Call
  <2> HIDE DEF c
  <2>3. Target(o)' = c /\ pc'[o] = "check"
    BY <1>1, <2>1 DEF Target
  <2> QED BY <1>2, <1>3, <2>2, <2>3 DEF Turn
<1>5. CASE \E v \in Versions, to \in Targets, acknowledged \in BOOLEAN :
             Promote(o, v, to, acknowledged)
  <2>1. PICK v \in Versions, to \in Targets, acknowledged \in BOOLEAN :
               Promote(o, v, to, acknowledged)
    BY <1>5
  <2> DEFINE c == Call(v, to, IF Gate(v) THEN "promotion" ELSE "acknowledged")
  <2>2. plan' = [plan EXCEPT ![o] = <<c>>] /\ pc' = [pc EXCEPT ![o] = "set"]
    BY <2>1 DEF Promote, Begin, Goto
  <2>3. c.version = v /\ (c.why = "promotion" => Gate(v))
    BY DEF Call
  <2> HIDE DEF c
  <2>4. Target(o)' = c /\ pc'[o] = "set"
    BY <1>1, <2>2 DEF Target
  <2> QED BY <1>2, <1>3, <2>3, <2>4 DEF Turn, Gate
<1>6. CASE Rollback(o)
  <2>1. PICK k \in Predecessors(Champion) :
          Begin(o, <<Call(Champion, "RETIRED", "rollback"),
                     Call(log[k].prev, "CHAMPION", "rollback")>>, "set")
    BY <1>6 DEF Rollback
  <2> DEFINE c == Call(Champion, "RETIRED", "rollback")
             d == Call(log[k].prev, "CHAMPION", "rollback")
  <2>2. plan' = [plan EXCEPT ![o] = <<c, d>>] /\ pc' = [pc EXCEPT ![o] = "set"]
    BY <2>1 DEF Begin, Goto
  <2>3. c.why = "rollback"
    BY DEF Call
  <2> HIDE DEF c, d
  <2>4. Target(o)' = c /\ pc'[o] = "set"
    BY <1>1, <2>2 DEF Target
  <2> QED BY <1>2, <1>3, <2>3, <2>4 DEF Turn
<1> QED BY <1>4, <1>5, <1>6

\* In its turn, an operator never makes a second champion, nor replaces a better one
\* without acknowledgement.
LEMMA TurnStays ==
  ASSUME WellFormed, AtMostOneChampion, NEW o \in Operators, Turn(o), Acts(o)
  PROVE  AtMostOneChampion' /\ Turn(o)'
<1>1. /\ TypeOK /\ Working(o) /\ plan \in [Operators -> Seq(Calls)] /\ pc \in [Operators -> PCs]
      /\ incumbent \in [Operators -> Versions \cup {None}] /\ meta \in [Versions -> Statuses \cup {None}]
  BY TypeParts DEF WellFormed
<1> HIDE DEF Calls, PCs, Statuses
<1>2. CASE \/ Register(o) \/ Rollback(o)
           \/ \E v \in Versions, to \in Targets, acknowledged \in BOOLEAN :
                Promote(o, v, to, acknowledged)
  BY <1>2, BeginsTurn
<1>3. ASSUME meta' = meta, pc'[o] = "idle", incumbent'[o] = None
      PROVE  AtMostOneChampion' /\ Turn(o)'
  BY <1>3, ChampionsKept DEF Turn
<1>4. CASE CheckArtifact(o) \/ Dump(o)
  <2>1. meta' = meta
    BY <1>4 DEF CheckArtifact, Dump, files
  <2>2. GiveUp(o) => pc'[o] = "idle" /\ incumbent'[o] = None
    BY <1>1 DEF GiveUp, Goto
  <2>3. CASE ~GiveUp(o)
    <3>1. /\ pc'[o] \in {"dump", "write"} /\ Target(o)' = Target(o)
          /\ incumbent'[o] = None /\ pc[o] \in {"check", "dump"}
      BY <1>1, <1>4, <2>3 DEF CheckArtifact, Dump, Goto, Target, Working
    <3> QED BY <2>1, <3>1, ChampionsKept DEF Turn
  <2> QED BY <1>3, <2>1, <2>2, <2>3
<1>5. CASE SetStatusRead(o)
  <2>1. meta' = meta /\ pc[o] = "set" /\ incumbent[o] = None
    BY <1>1, <1>5 DEF SetStatusRead, files, Working
  <2>2. GiveUp(o) => pc'[o] = "idle" /\ incumbent'[o] = None
    BY <1>1 DEF GiveUp, Goto
  <2>3. CASE ~GiveUp(o)
    <3> DEFINE v == Target(o).version
               other == IF Target(o).to = "CHAMPION" /\ Champion # v THEN Champion ELSE None
    <3>1. /\ incumbent' = [incumbent EXCEPT ![o] = other] /\ plan' = plan
          /\ pc' = [pc EXCEPT ![o] = IF other = None THEN "write" ELSE "retire"]
      BY <1>5, <2>3 DEF SetStatusRead, Goto
    <3>2. /\ incumbent'[o] = other /\ Target(o)' = Target(o)
          /\ pc'[o] = IF other = None THEN "write" ELSE "retire"
      BY <1>1, <3>1 DEF Target
    <3>3. Champions' = Champions /\ AtMostOneChampion'
      BY <2>1, ChampionsKept
    <3>4. Champion # None => Champions = {Champion}
      BY ChampionIsOne DEF AtMostOneChampion
    <3>5. CASE other # None
      <4>1. other = Champion
        BY <3>5
      <4>2. Target(o).why = "promotion" => F1[Target(o).version] >= F1[other]
        BY <2>1, <3>5, <4>1 DEF Turn
      <4> HIDE DEF other, v
      <4> QED BY <3>2, <3>3, <3>4, <3>5, <4>1, <4>2 DEF Turn
    <3>6. CASE other = None
      <4>1. Target(o).to = "CHAMPION" => Champion = None \/ Champion = v
        BY <3>6
      <4>2. Target(o).to = "CHAMPION" => Champions \subseteq {v}
        BY <3>4, <4>1, ChampionIsOne
      <4> HIDE DEF other
      <4> QED BY <3>2, <3>3, <3>6, <4>2 DEF Turn
    <3> QED BY <3>5, <3>6
  <2> QED BY <1>3, <2>1, <2>2, <2>3
<1>6. CASE OpenIncumbent(o) \/ OpenTarget(o)
  <2>1. /\ meta' = meta /\ incumbent' = incumbent /\ Target(o)' = Target(o)
        /\ \/ pc[o] = "retire" /\ pc'[o] = "retiring"
           \/ pc[o] = "write" /\ pc'[o] = "writing"
    BY <1>1, <1>6 DEF OpenIncumbent, OpenTarget, OpenFile, Goto, Target
  <2> QED BY <2>1, ChampionsKept DEF Turn
<1>7. CASE RetireIncumbent(o)
  <2>1. /\ meta' = [meta EXCEPT ![incumbent[o]] = "RETIRED"] /\ incumbent' = incumbent
        /\ Target(o)' = Target(o) /\ pc[o] = "retiring" /\ pc'[o] = "log_retire"
    BY <1>1, <1>7 DEF RetireIncumbent, FillFile, Goto, Target
  <2>2. Champions \subseteq {incumbent[o]} /\ incumbent[o] \in Versions
    BY <1>1, <2>1 DEF Turn, Working
  <2>3. Champions' = {}
    BY <1>1, <2>1, <2>2 DEF Champions
  <2>4. meta'[incumbent[o]] = "RETIRED"
    BY <1>1, <2>1, <2>2
  <2> QED BY <2>1, <2>3, <2>4 DEF Turn, AtMostOneChampion
<1>8. CASE LogRetired(o)
  <2>1. /\ meta' = meta /\ incumbent' = incumbent /\ Target(o)' = Target(o)
        /\ pc[o] = "log_retire" /\ pc'[o] = "write"
    BY <1>1, <1>8 DEF LogRetired, Goto, Target
  <2> QED BY <2>1, ChampionsKept DEF Turn
<1>9. CASE WriteTarget(o)
  <2>1. /\ meta' = [meta EXCEPT ![Target(o).version] = Target(o).to] /\ incumbent' = incumbent
        /\ Target(o)' = Target(o) /\ pc[o] = "writing" /\ pc'[o] = "log"
    BY <1>1, <1>9 DEF WriteTarget, FillFile, Goto, Target
  <2>2. Target(o).version \in Versions /\ Target(o).to \in Statuses
    BY <1>1, <2>1, TargetIsCall DEF Working
  <2>3. meta'[Target(o).version] = Target(o).to
    BY <1>1, <2>1, <2>2
  <2>4. CASE Target(o).to = "CHAMPION"
    <3>1. Champions' \subseteq {Target(o).version}
      BY <1>1, <2>1, <2>2, <2>4 DEF Champions, Turn
    <3> QED BY <2>1, <2>3, <3>1 DEF Turn, AtMostOneChampion
  <2>5. CASE Target(o).to # "CHAMPION"
    <3>1. Champions' \subseteq Champions
      BY <1>1, <2>1, <2>2, <2>5 DEF Champions
    <3> QED BY <2>1, <2>3, <3>1 DEF Turn, AtMostOneChampion
  <2> QED BY <2>4, <2>5
<1>10. CASE LogStatus(o)
  <2>1. /\ meta' = meta /\ incumbent'[o] = None /\ plan'[o] = Tail(plan[o])
        /\ pc'[o] = IF Len(plan[o]) = 1 THEN "idle" ELSE "set"
    BY <1>1, <1>10 DEF LogStatus, Goto
  <2>2. CASE Len(plan[o]) # 1
    <3>1. plan[o] # <<>>
      BY <1>1, <1>10 DEF LogStatus, Working
    <3>2. Len(plan[o]) \in Nat \ {0} /\ Tail(plan[o]) \in Seq(Calls)
          /\ Len(Tail(plan[o])) = Len(plan[o]) - 1
          /\ \A i \in 1..Len(Tail(plan[o])) : Tail(plan[o])[i] = plan[o][i + 1]
      BY <1>1, <3>1, TargetIsCall
    <3>3. 1 \in 1..Len(Tail(plan[o])) /\ 2 \in 2..Len(plan[o])
      <4>1. \A n \in Nat \ {0} : n # 1 => 1 \in 1..(n - 1) /\ 2 \in 2..n
        OBVIOUS
      <4> QED BY <2>2, <3>2, <4>1
    <3>4. Head(Tail(plan[o])) = Tail(plan[o])[1]
      BY <3>2, <3>3
    <3>5. Target(o)' = plan[o][2]
      BY <2>1, <3>2, <3>3, <3>4 DEF Target
    <3>6. Target(o)'.why = "rollback"
      BY <1>1, <3>3, <3>5 DEF Working
    <3> QED BY <2>1, <2>2, <3>6, ChampionsKept DEF Turn
  <2> QED BY <1>3, <2>1, <2>2
<1>11. CASE Crash(o)
  <2>1. meta' = meta /\ pc'[o] = "idle" /\ incumbent'[o] = None
    BY <1>1, <1>11 DEF Crash, GiveUp, Goto, files
  <2> QED BY <1>3, <2>1
<1> QED BY <1>2, <1>4, <1>5, <1>6, <1>7, <1>8, <1>9, <1>10, <1>11 DEF Acts

\* Operators in turn keep what OneChampionInTurn needs.
LEMMA StepInTurn ==
  ASSUME WellFormed, InTurn, NEW o \in Operators, Acts(o)
  PROVE  InTurn'
<1> SUFFICES ASSUME ~overlapped' PROVE Alone' /\ AtMostOneChampion' /\ \A p \in Operators : Turn(p)'
  BY DEF InTurn
<1>1. /\ ~overlapped /\ Alone'
      /\ \A p \in Operators \ {o} : pc[p] = "idle" /\ pc'[p] = "idle"
  BY AloneStays DEF InTurn
<1>2. AtMostOneChampion /\ Turn(o)
  BY <1>1 DEF InTurn
<1>3. AtMostOneChampion' /\ Turn(o)'
  BY <1>2, TurnStays
<1>4. ASSUME NEW p \in Operators, p # o PROVE Turn(p)'
  <2>1. pc'[p] = "idle" /\ incumbent'[p] = None
    BY <1>1, <1>4, OthersKeep DEF WellFormed, Working
  <2> QED BY <2>1 DEF Turn
<1> QED BY <1>1, <1>3, <1>4

\* Operations that follow each other never make a second champion, wherever one of
\* them dies.
THEOREM OneChampion == SpecServing => [](InTurn /\ OneChampionInTurn)
<1>1. InitServing => InTurn
  <2> SUFFICES ASSUME InitServing PROVE InTurn
    OBVIOUS
  <2> USE DEF InitServing, Init
  <2>1. Champions = {}
    BY RegistryAssumption DEF Champions, Statuses
  <2> QED BY <2>1 DEF InTurn, Alone, AtMostOneChampion, Turn
<1>2. WellFormed /\ InTurn /\ [NextServing]_allVars => InTurn'
  <2> SUFFICES ASSUME WellFormed, InTurn, [NextServing]_allVars PROVE InTurn'
    OBVIOUS
  <2>1. ASSUME UNCHANGED vars PROVE InTurn'
    <3>1. UNCHANGED <<meta, pc, plan, incumbent, overlapped>>
      BY <2>1 DEF vars, files, local
    <3> QED BY <3>1, ChampionsKept DEF InTurn, Alone, Turn, Target
  <2>2. \A o \in Operators : Acts(o) => InTurn'
    BY StepInTurn
  <2>3. UNCHANGED allVars => UNCHANGED vars
    BY DEF allVars
  <2> QED BY <2>1, <2>2, <2>3, OperatorsOrProcesses
<1>3. InTurn => OneChampionInTurn
  BY DEF InTurn, OneChampionInTurn
<1> QED BY <1>1, <1>2, <1>3, FormInvariant, PTL DEF SpecServing

\* A model promoted by operations in turn, unless the operator acknowledged it, is
\* at least as good as the champion it replaced.
THEOREM ChampionsNeverWorse == SpecServing => []ChampionNeverWorse
<1>1. InitServing => ChampionNeverWorse
  <2> SUFFICES ASSUME InitServing PROVE ChampionNeverWorse
    OBVIOUS
  <2>1. Len(log) = 0
    BY DEF InitServing, Init
  <2> QED BY <2>1 DEF ChampionNeverWorse
<1>2. WellFormed /\ InTurn /\ ChampionNeverWorse /\ [NextServing]_allVars => ChampionNeverWorse'
  <2> SUFFICES ASSUME WellFormed, InTurn, ChampionNeverWorse, [NextServing]_allVars
               PROVE  ChampionNeverWorse'
    OBVIOUS
  <2>1. ASSUME UNCHANGED vars PROVE ChampionNeverWorse'
    BY <2>1 DEF ChampionNeverWorse, vars, files
  <2>2. ASSUME NEW o \in Operators, Acts(o) PROVE ChampionNeverWorse'
    <3> SUFFICES ASSUME ~overlapped', NEW i \in 1..Len(log'),
                        log'[i].why = "promotion", log'[i].prev # None
                 PROVE  F1[log'[i].version] >= F1[log'[i].prev]
      BY DEF ChampionNeverWorse
    <3>1. ~overlapped /\ TypeOK
      BY <2>2, AloneStays DEF InTurn, WellFormed
    <3>2. \A k \in 1..Len(log) :
            log[k].why = "promotion" /\ log[k].prev # None => F1[log[k].version] >= F1[log[k].prev]
      BY <3>1 DEF ChampionNeverWorse
    <3>3. ASSUME NEW r, log' = Append(log, r),
                 r.why = "promotion" /\ r.prev # None => F1[r.version] >= F1[r.prev]
          PROVE  F1[log'[i].version] >= F1[log'[i].prev]
      <4>1. /\ Len(log) \in Nat /\ Len(log') = Len(log) + 1
            /\ \A k \in 1..Len(log) : log'[k] = log[k]
            /\ log'[Len(log) + 1] = r
        BY <3>1, <3>3, OneMoreRecord
      <4>2. i \in 1..Len(log) \/ i = Len(log) + 1
        BY <4>1
      <4>3. CASE i \in 1..Len(log)
        BY <3>2, <4>1, <4>3
      <4>4. CASE i = Len(log) + 1
        BY <3>3, <4>1, <4>4
      <4> QED BY <4>2, <4>3, <4>4
    <3>4. CASE LogRetired(o)
      <4>1. PICK r : log' = Append(log, r) /\ r.why = "superseded"
        BY <3>4, RecordsMade
      <4> QED BY <3>3, <4>1
    <3>5. CASE LogStatus(o)
      <4>1. PICK r : /\ log' = Append(log, r)
                     /\ r.version = Target(o).version /\ r.to = Target(o).to
                     /\ r.prev = incumbent[o] /\ r.why = Target(o).why
        BY <3>5, RecordsMade
      <4>2. incumbent[o] # None /\ Target(o).why = "promotion" =>
              F1[Target(o).version] >= F1[incumbent[o]]
        BY <3>1 DEF InTurn, Turn
      <4> QED BY <3>3, <4>1, <4>2
    <3>6. CASE log' = log
      BY <3>2, <3>6
    <3> QED BY <2>2, <3>4, <3>5, <3>6, QuietActs
  <2>3. UNCHANGED allVars => UNCHANGED vars
    BY DEF allVars
  <2> QED BY <2>1, <2>2, <2>3, OperatorsOrProcesses
<1> QED BY <1>1, <1>2, OneChampion, FormInvariant, PTL DEF SpecServing
-----------------------------------------------------------------------------
(* The log and the files.                                                   *)

\* The last record of a model.
LEMMA LastRecordIs ==
  ASSUME NEW q, Len(q) \in Nat, NEW v, NEW i \in 1..Len(q), q[i].version = v,
         \A j \in 1..Len(q) : q[j].version = v => j <= i
  PROVE  LastIn(q, v) = i
<1> DEFINE S == {k \in 1..Len(q) : q[k].version = v}
<1>1. i \in S /\ (\A j \in S : j <= i) /\ S \subseteq Nat
  OBVIOUS
<1>2. LastIn(q, v) = CHOOSE k \in S : \A j \in S : j <= k
  BY DEF LastIn
<1> HIDE DEF S
<1>3. \A k \in S : (\A j \in S : j <= k) => k = i
  BY <1>1
<1>4. (CHOOSE k \in S : \A j \in S : j <= k) \in S
       /\ \A j \in S : j <= (CHOOSE k \in S : \A m \in S : m <= k)
  BY <1>1
<1> QED BY <1>2, <1>3, <1>4

\* A model that has records has a last one.
LEMMA LastRecordExists ==
  ASSUME NEW q, Len(q) \in Nat, NEW v, \E i \in 1..Len(q) : q[i].version = v
  PROVE  /\ LastIn(q, v) \in 1..Len(q) /\ q[LastIn(q, v)].version = v
         /\ \A j \in 1..Len(q) : q[j].version = v => j <= LastIn(q, v)
<1> DEFINE S == {k \in 1..Len(q) : q[k].version = v}
<1>1. S \in SUBSET (1..Len(q)) /\ S # {}
  OBVIOUS
<1>2. PICK i \in S : \A j \in S : j <= i
  <2> HIDE DEF S
  <2> QED BY <1>1, GreatestNat
<1>3. LastIn(q, v) = i
  BY <1>2, LastRecordIs
<1> QED BY <1>2, <1>3

\* What is unlogged, in terms of the last record.
LEMMA UnloggedMeans ==
  Unlogged = {v \in Registered : \/ \A i \in 1..Len(log) : log[i].version # v
                                 \/ log[LastIn(log, v)].to # meta[v]}
BY DEF Unlogged, LastRecord, LastIn

\* A record logs its own model and no other.
LEMMA UnloggedAfterRecord ==
  ASSUME TypeOK, NEW r, log' = Append(log, r), meta' = meta
  PROVE  \A v \in Unlogged' : /\ v = r.version => r.to # meta[v]
                              /\ v # r.version => v \in Unlogged
<1>1. /\ Len(log) \in Nat /\ Len(log') = Len(log) + 1
      /\ \A k \in 1..Len(log) : log'[k] = log[k]
      /\ log'[Len(log) + 1] = r
  BY OneMoreRecord
<1> DEFINE n == Len(log) + 1
<1>2. n \in 1..Len(log') /\ n \notin 1..Len(log) /\ n \in Nat
      /\ (\A k \in 1..Len(log') : k \in 1..Len(log) \/ k = n)
      /\ (\A k \in 1..Len(log) : k \in 1..Len(log') /\ k <= n)
  BY <1>1
<1>3. Len(log) \in Nat /\ Len(log') \in Nat /\ log'[n] = r
      /\ \A k \in 1..Len(log) : log'[k] = log[k]
  BY <1>1
<1> HIDE DEF n
<1> SUFFICES ASSUME NEW v, v \in Unlogged'
             PROVE  /\ v = r.version => r.to # meta[v]
                    /\ v # r.version => v \in Unlogged
  OBVIOUS
<1>4. /\ v \in Registered
      /\ \/ \A i \in 1..Len(log') : log'[i].version # v
         \/ log'[LastIn(log', v)].to # meta[v]
  <2>1. Registered' = Registered
    BY DEF Registered
  <2>2. Unlogged' = {u \in Registered' : \/ \A i \in 1..Len(log') : log'[i].version # u
                                         \/ log'[LastIn(log', u)].to # meta'[u]}
    BY DEF Unlogged, LastRecord, LastIn
  <2> QED BY <2>1, <2>2
<1>5. ASSUME v = r.version PROVE r.to # meta[v]
  <2>1. LastIn(log', v) = n
    <3>1. \A j \in 1..Len(log') : j <= n
      BY <1>2
    <3>2. log'[n].version = v
      BY <1>3, <1>5
    <3> QED BY <1>2, <1>3, <3>1, <3>2, LastRecordIs
  <2> QED BY <1>2, <1>3, <1>4, <1>5, <2>1
<1>6. ASSUME v # r.version PROVE v \in Unlogged
  <2>1. CASE \A i \in 1..Len(log) : log[i].version # v
    BY <1>4, <2>1, UnloggedMeans
  <2>2. CASE \E i \in 1..Len(log) : log[i].version = v
    <3>1. /\ LastIn(log, v) \in 1..Len(log) /\ log[LastIn(log, v)].version = v
          /\ \A j \in 1..Len(log) : log[j].version = v => j <= LastIn(log, v)
      BY <1>3, <2>2, LastRecordExists
    <3>2. /\ LastIn(log, v) \in 1..Len(log') /\ log'[LastIn(log, v)].version = v
          /\ \A j \in 1..Len(log') : log'[j].version = v => j <= LastIn(log, v)
      BY <1>2, <1>3, <1>6, <3>1
    <3>3. LastIn(log', v) = LastIn(log, v)
      BY <1>3, <3>2, LastRecordIs
    <3>4. log'[LastIn(log', v)] = log[LastIn(log, v)]
      BY <1>3, <3>1, <3>3
    <3> QED BY <1>4, <3>2, <3>4, UnloggedMeans
  <2> QED BY <2>1, <2>2
<1> QED BY <1>5, <1>6

\* A file that is filled makes nothing unlogged but its own model.
LEMMA UnloggedAfterWrite ==
  ASSUME WellFormed, Numbered, NEW o \in Operators, Acts(o), log' = log,
         NEW u, \A v \in Versions : v # u => meta'[v] = meta[v]
  PROVE  \A v \in Unlogged' : v = u \/ v \in Unlogged
<1> SUFFICES ASSUME NEW v, v \in Unlogged', v # u PROVE v \in Unlogged
  OBVIOUS
<1>1. v \in Versions /\ meta'[v] # None
      /\ \/ \A i \in 1..Len(log) : log[i].version # v
         \/ log[LastIn(log, v)].to # meta'[v]
  <2>1. Unlogged' = {w \in Registered' : \/ \A i \in 1..Len(log') : log'[i].version # w
                                         \/ log'[LastIn(log', w)].to # meta'[w]}
    BY DEF Unlogged, LastRecord, LastIn
  <2> QED BY <2>1 DEF Registered
<1>2. v \in Registered
  BY <1>1 DEF Registered
<1> QED BY <1>1, <1>2, UnloggedMeans

\* Operators in turn log what they write, in the next step.
LEMMA StepLagging ==
  ASSUME WellFormed, Numbered, InTurn, Lagging, NEW o \in Operators, Acts(o)
  PROVE  Lagging'
<1> SUFFICES ASSUME ~overlapped'
             PROVE  \E E \in SUBSET Versions :
                      /\ Cardinality(E) <= crashes'
                      /\ \A v \in Unlogged' \ E :
                           \E p \in Operators : \/ pc'[p] = "log_retire" /\ incumbent'[p] = v
                                                \/ pc'[p] = "log" /\ Target(p)'.version = v
  BY DEF Lagging
<1>1. /\ ~overlapped /\ \A p \in Operators \ {o} : pc[p] = "idle" /\ pc'[p] = "idle"
  BY AloneStays DEF InTurn
<1>2. /\ TypeOK /\ Working(o) /\ Turn(o) /\ crashes \in Nat
      /\ pc \in [Operators -> PCs] /\ plan \in [Operators -> Seq(Calls)]
      /\ incumbent \in [Operators -> Versions \cup {None}] /\ meta \in [Versions -> Statuses \cup {None}]
  BY <1>1, TypeParts DEF WellFormed, InTurn
<1> HIDE DEF PCs, Calls, Statuses
<1>3. PICK E \in SUBSET Versions :
        /\ Cardinality(E) <= crashes
        /\ \A v \in Unlogged \ E :
             \E p \in Operators : \/ pc[p] = "log_retire" /\ incumbent[p] = v
                                  \/ pc[p] = "log" /\ Target(p).version = v
  BY <1>1 DEF Lagging
<1>4. \A v \in Unlogged \ E : \/ pc[o] = "log_retire" /\ incumbent[o] = v
                              \/ pc[o] = "log" /\ Target(o).version = v
  BY <1>1, <1>3
<1>5. CASE LogRetired(o)
  <2>1. /\ meta' = meta /\ crashes' = crashes /\ pc[o] = "log_retire" /\ meta[incumbent[o]] = "RETIRED"
    BY <1>2, <1>5 DEF LogRetired, Turn
  <2>2. PICK r : log' = Append(log, r) /\ r.version = incumbent[o] /\ r.to = "RETIRED"
    BY <1>5, RecordsMade
  <2>3. \A v \in Unlogged' : v # incumbent[o] /\ v \in Unlogged
    BY <1>2, <2>1, <2>2, UnloggedAfterRecord
  <2>4. Unlogged' \subseteq E
    BY <1>4, <2>1, <2>3
  <2> QED BY <1>3, <2>1, <2>4
<1>6. CASE LogStatus(o)
  <2>1. /\ meta' = meta /\ crashes' = crashes /\ pc[o] = "log"
        /\ meta[Target(o).version] = Target(o).to
    BY <1>2, <1>6 DEF LogStatus, Turn
  <2>2. PICK r : log' = Append(log, r) /\ r.version = Target(o).version /\ r.to = Target(o).to
    BY <1>6, RecordsMade
  <2>3. \A v \in Unlogged' : v # Target(o).version /\ v \in Unlogged
    BY <1>2, <2>1, <2>2, UnloggedAfterRecord
  <2>4. Unlogged' \subseteq E
    BY <1>4, <2>1, <2>3
  <2> QED BY <1>3, <2>1, <2>4
<1>7. CASE RetireIncumbent(o) \/ WriteTarget(o)
  <2> DEFINE u == IF pc[o] = "retiring" THEN incumbent[o] ELSE Target(o).version
             to == IF pc[o] = "retiring" THEN "RETIRED" ELSE Target(o).to
  <2>1. /\ meta' = [meta EXCEPT ![u] = to] /\ log' = log /\ crashes' = crashes
        /\ incumbent' = incumbent /\ Target(o)' = Target(o)
        /\ \/ pc[o] = "retiring" /\ pc'[o] = "log_retire"
           \/ pc[o] = "writing" /\ pc'[o] = "log"
    BY <1>2, <1>7 DEF RetireIncumbent, WriteTarget, FillFile, Goto, Target
  <2>2. \/ pc'[o] = "log_retire" /\ incumbent'[o] = u
        \/ pc'[o] = "log" /\ Target(o)'.version = u
    BY <2>1
  <2>3. \A v \in Versions : v # u => meta'[v] = meta[v]
    BY <1>2, <2>1
  <2> HIDE DEF u, to
  <2>4. \A v \in Unlogged' : v = u \/ v \in Unlogged
    BY <2>1, <2>3, UnloggedAfterWrite
  <2>5. \A v \in Unlogged : v \in E
    BY <1>4, <2>1
  <2> QED BY <1>3, <2>1, <2>2, <2>4, <2>5
<1>8. CASE Crash(o)
  <2>1. UNCHANGED <<meta, log>> /\ crashes' = crashes + 1 /\ pc[o] # "idle"
    BY <1>8 DEF Crash, files
  <2>2. Unlogged' = Unlogged
    BY <2>1 DEF Unlogged, LastRecord, Registered
  <2>3. PICK D : D = E \cup (Unlogged \ E)
    OBVIOUS
  <2>4. PICK u \in Versions \cup {None} : \A v \in Unlogged \ E : v = u
    <3>1. Unlogged \subseteq Versions
      BY DEF Unlogged, Registered
    <3> QED BY <1>4, <3>1
  <2>5. D \in SUBSET Versions /\ D \subseteq E \cup {u}
    BY <2>3, <2>4 DEF Unlogged, Registered
  <2>6. IsFiniteSet(E \cup {u}) /\ Cardinality(E \cup {u}) <= Cardinality(E) + 1
    BY VersionsFinite, FS_AddElement
  <2>7. Cardinality(D) <= Cardinality(E \cup {u})
    BY <2>5, <2>6, FS_Subset
  <2>8. Cardinality(D) <= crashes'
    <3>1. Cardinality(D) \in Nat /\ Cardinality(E) \in Nat
      BY <2>5, VersionsFinite
    <3>2. Cardinality(E \cup {u}) \in Nat
      BY <2>6, FS_CardinalityType
    <3> QED BY <1>2, <1>3, <2>1, <2>6, <2>7, <3>1, <3>2
  <2> QED BY <2>2, <2>3, <2>5, <2>8
<1>9. CASE meta' = meta /\ log' = log /\ crashes' = crashes /\ pc[o] \notin {"log_retire", "log"}
  <2>1. Unlogged' = Unlogged
    BY <1>9 DEF Unlogged, LastRecord, Registered
  <2> QED BY <1>3, <1>4, <1>9, <2>1
<1>10. Register(o) \/ Rollback(o)
         => meta' = meta /\ log' = log /\ crashes' = crashes /\ pc[o] \notin {"log_retire", "log"}
  BY DEF Register, Rollback, Begin, files
<1>11. (\E v \in Versions, to \in Targets, acknowledged \in BOOLEAN :
          Promote(o, v, to, acknowledged))
         => meta' = meta /\ log' = log /\ crashes' = crashes /\ pc[o] \notin {"log_retire", "log"}
  BY DEF Promote, Begin, files
<1>12. CheckArtifact(o) \/ Dump(o) \/ SetStatusRead(o)
         => meta' = meta /\ log' = log /\ crashes' = crashes /\ pc[o] \notin {"log_retire", "log"}
  BY DEF CheckArtifact, Dump, SetStatusRead, files
<1>13. OpenIncumbent(o) \/ OpenTarget(o)
         => meta' = meta /\ log' = log /\ crashes' = crashes /\ pc[o] \notin {"log_retire", "log"}
  BY DEF OpenIncumbent, OpenTarget, OpenFile
<1> QED BY <1>5, <1>6, <1>7, <1>8, <1>9, <1>10, <1>11, <1>12, <1>13 DEF Acts

\* With operations in turn, the log lags behind the files throughout by what the
\* operator at work will record next, and by what operators died over.
THEOREM LagInvariant == SpecServing => []Lagging
<1>1. InitServing => Lagging
  <2> SUFFICES ASSUME InitServing PROVE Lagging
    OBVIOUS
  <2>1. Registered = {} /\ crashes = 0
    BY DEF InitServing, Init, Registered
  <2>2. Unlogged = {}
    BY <2>1 DEF Unlogged
  <2>3. Cardinality({}) <= crashes
    BY <2>1, FS_EmptySet
  <2> QED BY <2>2, <2>3 DEF Lagging
<1>2. WellFormed /\ Numbered /\ InTurn /\ Lagging /\ [NextServing]_allVars => Lagging'
  <2> SUFFICES ASSUME WellFormed, Numbered, InTurn, Lagging, [NextServing]_allVars PROVE Lagging'
    OBVIOUS
  <2>1. UNCHANGED vars => Lagging'
    BY DEF Lagging, Unlogged, LastRecord, Registered, Target, vars, files, local
  <2>2. \A o \in Operators : Acts(o) => Lagging'
    BY StepLagging
  <2>3. UNCHANGED allVars => UNCHANGED vars
    BY DEF allVars
  <2> QED BY <2>1, <2>2, <2>3, OperatorsOrProcesses
<1> QED BY <1>1, <1>2, OneChampion, FormInvariant, PTL DEF SpecServing

\* When all is quiet, what the log does not tell died with an operator.
LEMMA QuietLag ==
  ASSUME WellFormed, Lagging, Quiet, ~overlapped
  PROVE  Cardinality(Unlogged) <= crashes /\ (crashes = 0 => Unlogged = {})
<1>1. PICK E \in SUBSET Versions :
        /\ Cardinality(E) <= crashes
        /\ \A v \in Unlogged \ E :
             \E p \in Operators : \/ pc[p] = "log_retire" /\ incumbent[p] = v
                                  \/ pc[p] = "log" /\ Target(p).version = v
  BY DEF Lagging
<1>2. Unlogged \subseteq E
  BY <1>1 DEF Quiet
<1>3. Cardinality(Unlogged) <= Cardinality(E) /\ Unlogged \in SUBSET Versions
  BY <1>2, VersionsFinite, FS_Subset
<1>4. Cardinality(Unlogged) \in Nat /\ Cardinality(E) \in Nat /\ crashes \in Nat
  BY <1>3, VersionsFinite, TypeParts DEF WellFormed
<1>5. crashes = 0 => Cardinality(E) = 0
  BY <1>1, <1>4
<1>6. crashes = 0 => E = {}
  BY <1>5, VersionsFinite, FS_EmptySet
<1> QED BY <1>1, <1>2, <1>3, <1>4, <1>6

\* Every transition is in the log: between operations in turn, the files differ from
\* it in at most one model for each operator that died.
THEOREM LogLags == SpecServing => []LogLagsByCrashes
<1>1. WellFormed /\ Lagging => LogLagsByCrashes
  BY QuietLag DEF LogLagsByCrashes
<1> QED BY <1>1, LagInvariant, FormInvariant, PTL
-----------------------------------------------------------------------------
(* Restarts.                                                                *)

\* An operation that begins unsettles every process.
LEMMA OperateUnsettles ==
  ASSUME WellFormed, Quiet, NEW o \in Operators, Acts(o)
  PROVE  ops' # ops
<1>1. pc[o] = "idle" /\ ops \in Nat
  BY TypeParts DEF WellFormed, Quiet
<1>2. ops' = ops + 1
  BY <1>1 DEF Acts, Register, Promote, Rollback, Begin, CheckArtifact, Dump, SetStatusRead, OpenIncumbent,
       RetireIncumbent, LogRetired, OpenTarget, WriteTarget, LogStatus, Crash
<1> QED BY <1>1, <1>2

\* A settled process stays with the newest champion.
LEMMA StepSettling ==
  ASSUME WellFormed, ServingTypes, \A p \in Processes : Settling(p), NextServing
  PROVE  \A p \in Processes : Settling(p)'
<1>1. ASSUME Operate, NEW p \in Processes PROVE Settling(p)'
  <2>1. PICK o \in Operators : Acts(o)
    BY <1>1 DEF Operate, Next, Acts
  <2>2. settled[p] => ops' # ops
    BY <2>1, OperateUnsettles DEF Settling
  <2>3. ~settled'[p]
    BY <1>1, <2>2 DEF Operate
  <2> QED BY <2>3 DEF Settling
<1>2. ASSUME UNCHANGED vars PROVE Quiet' = Quiet /\ \A status : NewestOf(status)' = NewestOf(status)
  BY <1>2 DEF Quiet, NewestOf, vars, files, local
<1>3. ASSUME NEW q \in Processes, LoadChampion(q), NEW p \in Processes PROVE Settling(p)'
  <2>1. UNCHANGED vars
    BY <1>3 DEF LoadChampion
  <2>2. CASE p = q
    <3>1. settled'[p] = Quiet /\ stage[p] = "down"
      BY <1>3, <2>2 DEF LoadChampion, ServingTypes
    <3>2. CASE NewestOf("CHAMPION") = None \/ ~Loads(NewestOf("CHAMPION"))
      <4>1. running'[p] = None /\ stage'[p] = "up"
        BY <1>3, <2>2, <3>2 DEF LoadChampion, Unavailable, ServingTypes
      <4> QED BY <1>2, <2>1, <3>1, <3>2, <4>1 DEF Settling, Loads
    <3>3. CASE ~(NewestOf("CHAMPION") = None \/ ~Loads(NewestOf("CHAMPION")))
      <4>1. running'[p] = NewestOf("CHAMPION") /\ stage'[p] = "loading"
        BY <1>3, <2>2, <3>3 DEF LoadChampion, ServingTypes
      <4> QED BY <1>2, <2>1, <3>1, <3>3, <4>1 DEF Settling
    <3> QED BY <3>2, <3>3
  <2>3. CASE p # q
    <3>1. settled'[p] = settled[p] /\ running'[p] = running[p] /\ stage'[p] = stage[p]
      BY <1>3, <2>3 DEF LoadChampion, Unavailable, ServingTypes
    <3> QED BY <1>2, <2>1, <3>1 DEF Settling
  <2> QED BY <2>2, <2>3
<1>4. ASSUME NEW q \in Processes, LoadChallenger(q), NEW p \in Processes PROVE Settling(p)'
  <2>1. UNCHANGED vars /\ settled' = settled
    BY <1>4 DEF LoadChallenger
  <2>2. CASE p = q
    <3>1. CASE NewestOf("CHALLENGER") # None /\ ~Loads(NewestOf("CHALLENGER"))
      <4>1. running'[p] = None /\ stage'[p] = "up"
        BY <1>4, <2>2, <3>1 DEF LoadChallenger, Unavailable, ServingTypes
      <4> QED BY <1>2, <2>1, <2>2, <3>1, <4>1 DEF Settling, Loads
    <3>2. CASE ~(NewestOf("CHALLENGER") # None /\ ~Loads(NewestOf("CHALLENGER")))
      <4>1. running'[p] = running[p] /\ stage[p] = "loading" /\ stage'[p] = "up"
        BY <1>4, <2>2, <3>2 DEF LoadChallenger, ServingTypes
      <4> QED BY <1>2, <2>1, <4>1 DEF Settling
    <3> QED BY <3>1, <3>2
  <2>3. CASE p # q
    <3>1. running'[p] = running[p] /\ stage'[p] = stage[p]
      BY <1>4, <2>3 DEF LoadChallenger, Unavailable, ServingTypes
    <3> QED BY <1>2, <2>1, <3>1 DEF Settling
  <2> QED BY <2>2, <2>3
<1>5. ASSUME NEW q \in Processes, Stop(q), NEW p \in Processes PROVE Settling(p)'
  <2>1. UNCHANGED vars
    BY <1>5 DEF Stop
  <2>2. CASE p = q
    <3>1. ~settled'[p]
      BY <1>5, <2>2 DEF Stop, ServingTypes
    <3> QED BY <3>1 DEF Settling
  <2>3. CASE p # q
    <3>1. settled'[p] = settled[p] /\ running'[p] = running[p] /\ stage'[p] = stage[p]
      BY <1>5, <2>3 DEF Stop, ServingTypes
    <3> QED BY <1>2, <2>1, <3>1 DEF Settling
  <2> QED BY <2>2, <2>3
<1>6. ASSUME NEW q \in Processes, Score(q), NEW p \in Processes PROVE Settling(p)'
  <2>1. UNCHANGED <<vars, stage, running, settled>>
    BY <1>6 DEF Score
  <2> QED BY <1>2, <2>1 DEF Settling
<1> QED BY <1>1, <1>3, <1>4, <1>5, <1>6 DEF NextServing

\* A process that settles runs the newest champion, until an operation begins.
THEOREM SettledInvariant == SpecServing => [](\A p \in Processes : Settling(p))
<1>1. InitServing => \A p \in Processes : Settling(p)
  BY DEF InitServing, Settling
<1>2. WellFormed /\ ServingTypes /\ (\A p \in Processes : Settling(p)) /\ [NextServing]_allVars
        => (\A p \in Processes : Settling(p))'
  <2> SUFFICES ASSUME WellFormed, ServingTypes, \A p \in Processes : Settling(p), [NextServing]_allVars
               PROVE  (\A p \in Processes : Settling(p))'
    OBVIOUS
  <2>1. UNCHANGED allVars => \A p \in Processes : Settling(p)'
    BY DEF Settling, Quiet, NewestOf, allVars, vars, files, local, servingVars
  <2> QED BY <2>1, StepSettling
<1> QED BY <1>1, <1>2, FormInvariant, PTL DEF SpecServing

\* A log that lacks nothing tells every model's status.
LEMMA LogTellsStatus ==
  ASSUME WellFormed, Numbered, Unlogged = {}, NEW status \in Statuses
  PROVE  OnRecord(status) = {v \in Versions : meta[v] = status}
<1>1. None \notin Statuses
  BY RegistryAssumption
<1>2. ASSUME NEW v \in Versions
      PROVE  v \in OnRecord(status) <=> meta[v] = status
  <2>1. CASE v \in Registered
    <3>1. (\E i \in 1..Len(log) : log[i].version = v) /\ LastRecord(v).to = meta[v]
      BY <2>1 DEF Unlogged
    <3> QED BY <3>1 DEF OnRecord
  <2>2. CASE v \notin Registered
    <3>1. ~\E i \in 1..Len(log) : log[i].version = v
      BY <2>2 DEF Numbered
    <3>2. meta[v] = None
      BY <2>2 DEF Registered
    <3> QED BY <1>1, <3>1, <3>2 DEF OnRecord
  <2> QED BY <2>1, <2>2
<1> QED BY <1>2 DEF OnRecord

\* Restarting the workers loads the new champion: one that comes up between
\* operations in turn, none of which died, runs what the promotions log calls
\* champion, unless an artefact is damaged.
THEOREM RestartsServeTheRecord == SpecServing => []RestartServesTheRecord
<1>1. ASSUME WellFormed, Numbered, InTurn, Lagging, \A p \in Processes : Settling(p)
      PROVE  RestartServesTheRecord
  <2> SUFFICES ASSUME NEW p \in Processes, stage[p] = "up", settled[p], ~overlapped, crashes = 0
               PROVE  IF running[p] # None
                      THEN OnRecord("CHAMPION") = {running[p]}
                      ELSE \/ OnRecord("CHAMPION") = {}
                           \/ Damaged \cap (OnRecord("CHAMPION") \cup OnRecord("CHALLENGER")) # {}
    BY DEF RestartServesTheRecord
  <2>1. Quiet /\ Settling(p) /\ AtMostOneChampion
    BY <1>1 DEF Settling, InTurn
  <2>2. Unlogged = {}
    BY <1>1, <2>1, QuietLag
  <2>3. /\ OnRecord("CHAMPION") = {v \in Versions : meta[v] = "CHAMPION"}
        /\ OnRecord("CHALLENGER") = {v \in Versions : meta[v] = "CHALLENGER"}
    BY <1>1, <2>2, LogTellsStatus DEF Statuses
  <2>4. \A status : /\ NewestOf(status) # None => NewestOf(status) \in Versions /\ meta[NewestOf(status)] = status
                    /\ NewestOf(status) = None => \A v \in Versions : meta[v] # status
    BY NewestIsOne
  <2>5. CASE running[p] # None
    <3>1. running[p] = NewestOf("CHAMPION")
      BY <2>1, <2>5 DEF Settling
    <3>2. running[p] \in OnRecord("CHAMPION") /\ OnRecord("CHAMPION") = Champions
      BY <2>3, <2>4, <2>5, <3>1 DEF Champions
    <3> QED BY <2>1, <2>5, <3>2 DEF AtMostOneChampion
  <2>6. CASE running[p] = None
    <3>1. \/ NewestOf("CHAMPION") = None
          \/ NewestOf("CHAMPION") # None /\ NewestOf("CHAMPION") \in Damaged
          \/ NewestOf("CHALLENGER") # None /\ NewestOf("CHALLENGER") \in Damaged
      BY <2>1, <2>6 DEF Settling
    <3>2. NewestOf("CHAMPION") = None => OnRecord("CHAMPION") = {}
      BY <2>3, <2>4
    <3>3. NewestOf("CHAMPION") # None => NewestOf("CHAMPION") \in OnRecord("CHAMPION")
      BY <2>3, <2>4
    <3>4. NewestOf("CHALLENGER") # None => NewestOf("CHALLENGER") \in OnRecord("CHALLENGER")
      BY <2>3, <2>4
    <3> QED BY <2>6, <3>1, <3>2, <3>3, <3>4
  <2> QED BY <2>5, <2>6
<1> QED BY <1>1, FormInvariant, OneChampion, LagInvariant, SettledInvariant, PTL
=============================================================================
