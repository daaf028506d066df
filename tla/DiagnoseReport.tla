--------------------------- MODULE DiagnoseReport ---------------------------
(***************************************************************************)
(* scripts/report/diagnose_report.py: summarize() reads the directory of a *)
(* study, of either recorder and in whatever state it was left, and raises *)
(* an error unless all of its checks pass.                                 *)
(***************************************************************************)
EXTENDS StudyDirectory

SaysIncompleteIgnored(dir) == FALSE

\* environment["complete"], absent in bench_record.py's env.json.
SaysIncomplete(dir) == dir.env = "incomplete"

\* The design in env.json, or what is taken when there is no file.
DesignRepetitions(dir) == IF dir.env = "none" THEN 5 ELSE Repetitions
DesignWarmup(dir) == IF dir.env = "none" THEN 0 ELSE Warmup

LaunchRecords(dir) == {row.key : row \in dir.launches}

\* The rows of one launch that are not marked as a warm-up.
Counted(row) == row.reps \ (0 .. Warmup - 1)

\* Counted rows come in groups; a launch without one has no group.
Groups(dir) == {row \in dir.samples : Counted(row) # {}}

Accepts(dir) ==
  /\ ~SaysIncomplete(dir)
  /\ dir.samples # {} /\ dir.launches # {}
  /\ \A row \in dir.launches : row.exit = 0
  /\ \A row \in dir.samples : row.key \in LaunchRecords(dir)
  /\ \A row \in Groups(dir) :
       Counted(row) = DesignWarmup(dir) .. DesignRepetitions(dir) - 1
  /\ LaunchRecords(dir) \subseteq {row.key : row \in Groups(dir)}

\* raw_files(): raw/ and the archive together, while they agree on a file.
RawFiles(dir) == dir.raw \cup dir.archive
Conflict(dir) ==
  \E key \in Keys : {Command(key, "started"), Command(key, "complete")} \subseteq RawFiles(dir)

\* The launches whose logs tell where things lay in memory: any with a log.
LayoutLaunches(dir) == {file.of : file \in {f \in RawFiles(dir) : f.is = "log"}}

\* layout_rows() joins each such log, through its metadata, to one launch.
LayoutsJoin(dir) ==
  /\ ~Conflict(dir)
  /\ \A key \in LayoutLaunches(dir) :
       Command(key, "complete") \in RawFiles(dir) /\ key \in LaunchRecords(dir)
=============================================================================
