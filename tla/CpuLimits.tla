------------------------------- MODULE CpuLimits -------------------------------
(***************************************************************************)
(* threading/hardware_concurrency.cpp with PSI_SWEATER_DOCKER_LIMITS: how  *)
(* many CPUs the process may use, from the CPU quotas of its cgroups.      *)
(*                                                                         *)
(* A cgroup hierarchy is a function from paths (sequences of names, the    *)
(* root is empty) to the quota that its files state, in microseconds per   *)
(* period.  A file that is not there, cannot be read, or says "max" yields *)
(* NoQuota, as the code's -1 does.  /proc/self/cgroup is a sequence of     *)
(* lines: a list of controllers, empty for the unified hierarchy (v2), and *)
(* the path of the process in that hierarchy.                              *)
(***************************************************************************)
EXTENDS Integers, Sequences, SequencesExt

NoQuota == [quota |-> -1, period |-> -1]

None == -1

Least(a, b) == IF a < b THEN a ELSE b
Most(a, b)  == IF a > b THEN a ELSE b

\* cpus_from_quota: rounded to the nearest, at least one.
CpusFromQuota(cell) ==
  IF cell.quota <= 0 \/ cell.period <= 0 THEN None
  ELSE Most((cell.quota + cell.period \div 2) \div cell.period, 1)

\* The smaller of two limits that may be missing.
Tighter(a, b) == IF a = None THEN b ELSE IF b = None THEN a ELSE Least(a, b)

\* Mutant: the walk ends at the first quota it meets.
ScanBranchFirst(files, path) ==
  FoldLeft(LAMBDA limit, n : IF limit # None THEN limit
                             ELSE CpusFromQuota(files[SubSeq(path, 1, Len(path) - n)]),
           None, [k \in 1..(Len(path) + 1) |-> k - 1])

\* scan_branch: from the process's own directory up to and including the root.
ScanBranch(files, path) ==
  FoldLeft(LAMBDA limit, n : Tighter(limit, CpusFromQuota(files[SubSeq(path, 1, Len(path) - n)])),
           None, [k \in 1..(Len(path) + 1) |-> k - 1])

\* has_cpu_controller: a whole entry of the list.
HasCpuController(controllers) == "cpu" \in ToSet(controllers)

\* self_cgroup: the first line of the hierarchy; without one, its root.
SelfCgroup(lines, v2) ==
  LET mine == SelectSeq(lines, LAMBDA line : IF v2 THEN line.controllers = <<>>
                                             ELSE HasCpuController(line.controllers))
  IN  IF mine = <<>> THEN <<>> ELSE Head(mine).path

\* get_docker_limit: a host can have both hierarchies.
DockerLimit(lines, v2files, v1files) ==
  Tighter(ScanBranch(v2files, SelfCgroup(lines, TRUE)),
          ScanBranch(v1files, SelfCgroup(lines, FALSE)))

\* get_hardware_concurrency_max: the quota, if there is one, else the CPUs that are
\* configured, in a type of `range` values.
HardwareConcurrencyMax(limit, configured, range) ==
  (IF limit # None THEN limit ELSE configured) % range
================================================================================
