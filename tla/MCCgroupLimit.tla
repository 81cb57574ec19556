--------------------------- MODULE MCCgroupLimit ---------------------------
(* Instances of CgroupLimit for TLC. *)
EXTENDS CgroupLimit

\* Pid 12 and pid 127000: the name of one group begins with the other's, and
\* one of the pids does not fit in 16 bits.
MCPids   == {<<1, 2>>, <<1, 2, 7, 0, 0, 0>>}
MCWide   == {<<1, 2, 7, 0, 0, 0>>}
MCOne    == {<<5>>}
MCNone   == {}
MCMajors == {"1", "other"}
\* No failures, those the marks must stand, and those they do not.
MCFaultSets == {{}, {"create", "classify", "classdel", "qdiscdel", "check"}, Harmful}
MCNoFaults  == {{}}
\* All subcommands, in combinations that touch each other's groups.
MCOpSets == {{"cpu", "cpu-C", "clear", "clearall"},
             {"mem", "mem-C", "blkio", "blkio-C"},
             {"cpu", "net", "net-C", "clear", "clearall"}}
MCClearOps == {{"mem", "clear"}}
=============================================================================
