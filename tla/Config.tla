------------------------------- MODULE Config -------------------------------
(***************************************************************************)
(* The configuration of the server: the defaults, the command line and the *)
(* configuration files it names, src/src/config.c.                         *)
(*                                                                         *)
(* An argument is an option with its value; the value is missing only at   *)
(* the end of the command line.  A line of a file is what fgets returns, a *)
(* piece of a longer line too; it is a key and a value, and says whether   *)
(* blanks precede the value; comments, empty lines, pieces without a key   *)
(* or a value and keys nobody knows are lines with another key.            *)
(***************************************************************************)
EXTENDS Naturals, Sequences, SequencesExt

CONSTANTS Options,      \* the arguments: [opt, value]
          MaxArgs,      \* bound on the length of a command line
          Files,        \* [names of files that can be opened -> lines]
          Long          \* values of 255 characters and more

ASSUME MaxArgsAssumption == MaxArgs \in Nat
ASSUME FilesAssumption ==
    \A n \in DOMAIN Files :
        Files[n] \in Seq([key : STRING, blank : BOOLEAN, value : STRING])

VARIABLES args, i,      \* of parse_args: argv and the index in it
          line,         \* of logger_config_read: the next line, 0 outside it
          cfg,          \* logger_config and server_config
          exited,
          zeroed        \* the last byte of log_file_path is zero; it is what
                        \* was on the stack, and nobody writes it

config == <<args, i, line, cfg, exited, zeroed>>

Levels == {"debug", "info", "warn", "error", "fatal"}
True == {"true", "yes", "1", "on"}
Missing == "missing"

(* What trim_string leaves of a value: blanks at its end are cut off, but  *)
(* those at its start stay, as only a local pointer is moved.              *)
Trimmed(l) == [blank |-> l.blank, text |-> l.value]
Plain(v) == [blank |-> FALSE, text |-> v]

(* strncpy into log_file_path: a long path ends at the last byte, if that  *)
(* is zero, and else runs on into what follows.                            *)
Copied(v) == IF v.text \notin Long THEN v
             ELSE [v EXCEPT !.text = IF zeroed THEN "cut" ELSE "runs on"]

parse_log_level(v) == IF ~v.blank /\ v.text \in Levels THEN v.text ELSE "info"
parse_boolean(v) == ~v.blank /\ v.text \in True

Defaults == [level |-> "info", use_colors |-> TRUE, log_to_file |-> FALSE,
             log_to_console |-> TRUE, async_enabled |-> TRUE,
             flush_immediately |-> FALSE,
             log_file_path |-> Plain("application.log"),
             startup_cmd |-> Missing]
Flags == {"use_colors", "log_to_file", "log_to_console", "async_enabled",
          "flush_immediately"}

(* No value is missing but the last. *)
CommandLines == {a \in BoundedSeq(Options, MaxArgs) :
                    \A k \in 1 .. Len(a) - 1 : a[k].value # Missing}

ConfigInit == /\ args \in CommandLines
              /\ i = 1 /\ line = 0
              /\ cfg = Defaults
              /\ exited = FALSE
              /\ zeroed \in BOOLEAN

-----------------------------------------------------------------------------
At(o) == ~exited /\ line = 0 /\ i <= Len(args) /\ args[i].opt = o
Value == Plain(args[i].value)
HasValue == args[i].value # Missing
Advance == i' = i + 1 /\ UNCHANGED <<args, line, exited, zeroed>>
Set(f, v) == cfg' = [cfg EXCEPT ![f] = v]

(* Mutant: --log-file does not turn the file on. *)
LogFileQuiet == /\ At("--log-file") /\ HasValue
                /\ Set("log_file_path", Copied(Value)) /\ Advance

LogLevel == /\ At("--log-level") /\ HasValue
            /\ Set("level", parse_log_level(Value)) /\ Advance
LogFile == /\ At("--log-file") /\ HasValue
           /\ cfg' = [cfg EXCEPT !.log_file_path = Copied(Value),
                                   !.log_to_file = TRUE]
           /\ Advance
NoColors == At("--no-colors") /\ Set("use_colors", FALSE) /\ Advance
NoAsync == At("--no-async") /\ Set("async_enabled", FALSE) /\ Advance
ConsoleOnly == At("--console-only") /\ Set("log_to_file", FALSE) /\ Advance
FileOnly == At("--file-only") /\ Set("log_to_console", FALSE) /\ Advance

Startup == /\ At("--startup")
           /\ IF HasValue
              THEN Set("startup_cmd", args[i].value) /\ Advance
              ELSE exited' = TRUE /\ UNCHANGED <<args, i, line, cfg, zeroed>>
Help == At("--help") /\ exited' = TRUE /\ UNCHANGED <<args, i, line, cfg, zeroed>>

(* Unknown, or a value is missing: the chain of comparisons falls through. *)
Ignored == /\ \/ At("unknown")
              \/ /\ \E o \in {"--log-config", "--log-level", "--log-file"} : At(o)
                 /\ ~HasValue
           /\ UNCHANGED cfg /\ Advance

-----------------------------------------------------------------------------
(* logger_config_read.  A file that cannot be opened is passed over.       *)
Open == /\ At("--log-config") /\ HasValue /\ args[i].value \in DOMAIN Files
        /\ line' = 1 /\ UNCHANGED <<args, i, cfg, exited, zeroed>>
OpenFails == /\ At("--log-config") /\ HasValue
             /\ args[i].value \notin DOMAIN Files
             /\ UNCHANGED cfg /\ Advance

Reading == line # 0
Lines == Files[args[i].value]

ReadLine == /\ Reading /\ line <= Len(Lines)
            /\ LET l == Lines[line]
                   v == Trimmed(l)
               IN  CASE l.key = "log_level" -> Set("level", parse_log_level(v))
                     [] l.key = "log_file_path" -> Set("log_file_path", Copied(v))
                     [] l.key \in Flags -> Set(l.key, parse_boolean(v))
                     [] OTHER -> UNCHANGED cfg
            /\ line' = line + 1
            /\ UNCHANGED <<args, i, exited, zeroed>>

EndOfFile == /\ Reading /\ line > Len(Lines)
             /\ line' = 0 /\ i' = i + 1
             /\ UNCHANGED <<args, cfg, exited, zeroed>>

Finished == line = 0 /\ i > Len(args)

(* One step of parse_args. *)
ParseStep == \/ LogLevel \/ LogFile \/ NoColors \/ NoAsync
             \/ ConsoleOnly \/ FileOnly \/ Startup \/ Help \/ Ignored
             \/ Open \/ OpenFails \/ ReadLine \/ EndOfFile

-----------------------------------------------------------------------------
(* A path is one that was given, whole or cut, or the default.             *)
Given == {o.value : o \in Options}
            \cup UNION {{Files[n][k].value : k \in DOMAIN Files[n]} : n \in DOMAIN Files}
Texts == [blank : BOOLEAN, text : Given \cup {"cut", "runs on", "application.log"}]
ConfigTypes == /\ cfg.level \in Levels
               /\ \A f \in Flags : cfg[f] \in BOOLEAN
               /\ cfg.log_file_path \in Texts
               /\ i \in 1 .. Len(args) + 1
               /\ line # 0 => line \in 1 .. Len(Lines) + 1

(* Reference: what a line of a file sets, and what an argument sets.       *)
LineSets(l) ==
    CASE l.key = "log_level" -> {<<"level", parse_log_level(Trimmed(l))>>}
      [] l.key = "log_file_path" -> {<<l.key, Trimmed(l)>>}
      [] l.key \in Flags -> {<<l.key, parse_boolean(Trimmed(l))>>}
      [] OTHER -> {}
ArgSets(a) ==
    CASE a.opt = "--no-colors" -> {<<"use_colors", FALSE>>}
      [] a.opt = "--no-async" -> {<<"async_enabled", FALSE>>}
      [] a.opt = "--console-only" -> {<<"log_to_file", FALSE>>}
      [] a.opt = "--file-only" -> {<<"log_to_console", FALSE>>}
      [] a.opt = "--log-level" /\ a.value # Missing ->
            {<<"level", parse_log_level(Plain(a.value))>>}
      [] a.opt = "--log-file" /\ a.value # Missing ->
            {<<"log_file_path", Plain(a.value)>>, <<"log_to_file", TRUE>>}
      [] a.opt = "--startup" /\ a.value # Missing -> {<<"startup_cmd", a.value>>}
      [] OTHER -> {}

(* The places something can be set at, in their order: an argument, or in  *)
(* its stead the lines of the file it names.                               *)
Names(a) == a.opt = "--log-config" /\ a.value # Missing /\ a.value \in DOMAIN Files
PlacesOf(k) == IF Names(args[k]) THEN DOMAIN Files[args[k].value] ELSE {1}
Places == UNION {{<<k, n>> : n \in PlacesOf(k)} : k \in DOMAIN args}
Earlier(p, q) == p[1] < q[1] \/ (p[1] = q[1] /\ p[2] < q[2])
Settings(p) == IF Names(args[p[1]]) THEN LineSets(Files[args[p[1]].value][p[2]])
               ELSE ArgSets(args[p[1]])
Sets(p, f) == \E s \in Settings(p) : s[1] = f

(* Only a path that is too long is not kept whole (config.c:102, 126).     *)
Kept(s, v) == IF s[1] = "log_file_path" /\ s[2].text \in Long
              THEN zeroed => v = [s[2] EXCEPT !.text = "cut"]
              ELSE v = s[2]

(* The last setting of a field decides, a file's where the file is named,  *)
(* and a field nobody sets has its default: parse_args goes through the    *)
(* command line once, from left to right.                                  *)
LastWins ==
    Finished /\ ~exited =>
        \A f \in DOMAIN cfg :
            \/ cfg[f] = Defaults[f] /\ \A p \in Places : ~Sets(p, f)
            \/ \E p \in Places :
                  /\ \E s \in Settings(p) : s[1] = f /\ Kept(s, cfg[f])
                  /\ \A q \in Places : Earlier(p, q) => ~Sets(q, f)
=============================================================================
