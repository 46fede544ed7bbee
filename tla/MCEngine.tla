------------------------------ MODULE MCEngine ------------------------------
(* Command lines over every option; a file like examples/logger.conf, one  *)
(* without blanks, and one that cannot be opened.                          *)
EXTENDS Engine

Line(k, b, v) == [key |-> k, blank |-> b, value |-> v]
MCFiles == [spaced |-> <<Line("#", FALSE, "comment"),
                         Line("log_level", TRUE, "debug"),
                         Line("use_colors", TRUE, "true"),
                         Line("log_to_file", TRUE, "true"),
                         Line("log_to_console", TRUE, "true"),
                         Line("log_file_path", TRUE, "application.log"),
                         Line("async_enabled", TRUE, "true"),
                         Line("flush_immediately", TRUE, "false")>>,
            tight |-> <<Line("log_level", FALSE, "error"),
                        Line("flush_immediately", FALSE, "on"),
                        Line("use_colors", FALSE, "no"),
                        Line("log_to_file", FALSE, "1"),
                        Line("log_file_path", FALSE, "long"),
                        Line("log_level", FALSE, "loud")>>]
Option(o, v) == [opt |-> o, value |-> v]
MCOptions ==
    {Option("--log-config", v) : v \in {"spaced", "tight", "absent", Missing}}
    \cup {Option("--log-level", v) : v \in {"warn", "loud", Missing}}
    \cup {Option("--log-file", v) : v \in {"my.log", "long", Missing}}
    \cup {Option("--startup", v) : v \in {"client", Missing}}
    \cup {Option(o, "none") : o \in {"--no-colors", "--no-async",
              "--console-only", "--file-only", "--help", "unknown"}}
=============================================================================
