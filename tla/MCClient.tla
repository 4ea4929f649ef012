------------------------------ MODULE MCClient ------------------------------
(* The command lines of a small instance of Client: up to two options, each *)
(* with arguments on both sides of what the code tells apart.               *)
EXTENDS Client

Option(opt, nums, suffixes) == [opt : {opt}, num : nums, suffix : suffixes]

MCOptions ==
  Option("--shm-size", {3, 60}, {"", "k", "M", "g", "x"})
    \cup Option("--port", {8, 20}, {""})
    \cup Option("--wait", {1500001}, {""})
    \cup Option("-n", {0, 1, 3}, {""}) \cup Option("-s", {1, 2}, {""})
    \cup UNION {Option(o, {5}, {""}) : o \in {"--shm-path", "--backend-type",
                  "--dir", "--single", "--peers", "--verbose", "--runs",
                  "--interactive", "--help", "--unknown"}}

MCCmdlines == {<<>>} \cup {<<a>> : a \in MCOptions}
                \cup {<<a, b>> : a, b \in MCOptions}

=============================================================================
