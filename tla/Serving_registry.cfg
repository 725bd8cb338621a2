\* Two operators, at once or in turn, a death between any two file operations, and
\* a process that loads its models in between; the third model's artefact is
\* damaged.  The operations are bounded, and a death can leave a file that keeps the
\* process from starting: the system stops.
CONSTANTS
  Operators = {o1, o2}
  MaxVersion = 3
  F1 <- Quality
  Sound = {1, 2}
  Targets <- ToUse
  MaxOps = 5
  MaxCrashes = 1
  None = None
  Processes = {p1}
  Damaged = {3}
SPECIFICATION SpecServing
SYMMETRY Symmetry
INVARIANTS TypeOKServing OneChampionInTurn LogLagsByCrashes ChampionNeverWorse
  SupersededIsNamed NextVersionIsFree ServedWasPromoted RestartServesTheRecord
CHECK_DEADLOCK FALSE
