----------------------------- MODULE NativeRun -----------------------------
(* --resolve=native: one run of a project's own build tool (run_native_driver in
   dynamic/drivers/base.py) as a child in the sandbox (dynamic/sandbox), from the
   probe of the platform to what the scan reports. *)
EXTENDS Naturals, Sequences

VARIABLES
    host,      \* the system, whether it can confine, whether there are a driver and its tools
    options,   \* --dangerously-no-sandbox and --allow-net
    phase,     \* how far the run came
    done,      \* the steps of the sandbox that the child has behind it
    files,     \* where the driver's scratch files were written
    output,    \* how much the tool wrote before it ended
    outcome,   \* how it ended
    lingers,   \* a process that it started holds its output open
    told,      \* warnings of the scan (SORB-W015)
    reported   \* how much of the tool's resolution became findings
nativeVars == <<host, options, phase, done, files, output, outcome, lingers, told, reported>>

NativeStart ==
    /\ phase = "start" /\ done = << >> /\ files = "none" /\ output = "none"
    /\ outcome = "none" /\ lingers = FALSE /\ told = {} /\ reported = "none"

NativeInit ==
    /\ host \in [system : {"linux", "macos", "windows"}, confines : BOOLEAN, driver : BOOLEAN, tools : BOOLEAN]
    /\ options \in [unconfined : BOOLEAN, net : BOOLEAN]
    /\ NativeStart

End(warnings, findings) == phase' = "end" /\ told' = told \cup warnings /\ reported' = findings
\* The plain run still scrubs the environment and sets the limits.
Unconfined == options.unconfined
Available == host.system # "windows" /\ host.confines

\* driver_for, tool_available and run_sandboxed: without a driver, a tool or a
\* sandbox nothing runs, and a warning says so.
Refuse ==
    /\ phase = "start"
    /\ ~host.driver \/ ~host.tools \/ (~Available /\ ~Unconfined)
    /\ End({"not run"}, "none")
    /\ UNCHANGED <<host, options, done, files, output, outcome, lingers>>

\* macOS and the plain run write the scratch files in the home that the child will
\* have; on Linux it gets a private one first.
Prepare ==
    /\ phase = "start" /\ host.driver /\ host.tools /\ (Available \/ Unconfined)
    /\ IF Unconfined \/ host.system = "macos"
       THEN /\ files' = "home" /\ done' = IF Unconfined THEN <<"limits">> ELSE <<"limits", "profile">>
            /\ phase' = "running"
       ELSE phase' = "setup" /\ UNCHANGED <<files, done>>
    /\ UNCHANGED <<host, options, output, outcome, lingers, told, reported>>

\* Mutant: the scratch files are written before the private home is mounted.
FilesFirst == <<"namespaces", "files", "binds", "scratch", "pivot", "detach", "limits", "seccomp">>
\* The child confines itself between fork and exec (preexec of linux.py).
Steps == <<"namespaces", "binds", "scratch", "pivot", "detach", "files", "limits", "seccomp">>
Passed(step) == \E i \in DOMAIN done : done[i] = step

SetUp ==
    /\ phase = "setup"
    /\ LET step == Steps[Len(done) + 1]
       IN  /\ done' = Append(done, step)
           /\ files' = IF step = "files" THEN IF Passed("scratch") THEN "scratch" ELSE "home" ELSE files
           /\ phase' = IF Len(done') = Len(Steps) THEN "running" ELSE "setup"
    /\ UNCHANGED <<host, options, output, outcome, lingers, told, reported>>

\* Any step may be refused: the child reports the step and dies before exec; a
\* program that is not there in the new root fails like it.
SetUpFails ==
    /\ phase \in {"setup", "running"} /\ output = "none" /\ ~lingers
    /\ outcome' = "refused" /\ phase' = "ended"
    /\ UNCHANGED <<host, options, done, files, output, lingers, told, reported>>

Works ==
    /\ phase = "running"
    /\ \/ output = "none" /\ output' = "part" /\ UNCHANGED lingers
       \/ output = "part" /\ output' = "whole" /\ UNCHANGED lingers
       \/ lingers' = TRUE /\ UNCHANGED output
    /\ UNCHANGED <<host, options, phase, done, files, outcome, told, reported>>

\* The output is complete when everything that holds it open has closed it.
Exits(well) ==
    /\ phase = "running" /\ ~lingers
    /\ outcome' = IF well THEN "well" ELSE "failed"
    /\ phase' = "ended"
    /\ UNCHANGED <<host, options, done, files, output, lingers, told, reported>>
\* After timeout_s the child is killed, its own children are not.
TimesOut ==
    /\ phase = "running" /\ outcome' = "timeout" /\ phase' = "killed"
    /\ UNCHANGED <<host, options, done, files, output, lingers, told, reported>>
Drains == phase = "killed" /\ ~lingers /\ phase' = "ended"
          /\ UNCHANGED <<host, options, done, files, output, outcome, lingers, told, reported>>
DescendantEnds ==
    /\ lingers /\ lingers' = FALSE
    /\ UNCHANGED <<host, options, phase, done, files, output, outcome, told, reported>>

\* A tool that failed is only warned of when nothing could be parsed; what it
\* wrote until it was killed is reported with a warning.
Bridge ==
    /\ phase = "ended"
    /\ End((IF outcome = "timeout" THEN {"timed out"} ELSE {})
             \cup (IF outcome \in {"failed", "refused"} /\ output = "none" THEN {"no output"} ELSE {}), output)
    /\ UNCHANGED <<host, options, done, files, output, outcome, lingers>>

NativeNext == Refuse \/ Prepare \/ SetUp \/ SetUpFails \/ Works \/ (\E well \in BOOLEAN : Exits(well))
              \/ TimesOut \/ Drains \/ DescendantEnds \/ Bridge

NativeSpec == NativeInit /\ [][NativeNext]_nativeVars
----------------------------------------------------------------------------
(* Properties *)

\* What the child can see and reach once it runs the tool.
Sees == IF Passed("profile") \/ (Passed("pivot") /\ Passed("detach")) THEN {"system", "tools", "project", "scratch"}
        ELSE {"system", "tools", "project", "scratch", "home"}
Network == IF Passed("profile") \/ Passed("namespaces") THEN options.net ELSE TRUE

\* The tool runs unconfined only for who asked for it, always with its limits and
\* with the scratch files where it looks for them; and when it did not run, was
\* stopped, or wrote nothing and failed, the scan says so.  (Of one that wrote
\* something the exit code is not looked at.)
NativeRunIsHonest ==
    /\ phase = "running" =>
         /\ options.unconfined \/ ("home" \notin Sees /\ (Network => options.net))
         /\ Passed("limits")
         /\ files = IF Passed("scratch") THEN "scratch" ELSE "home"
    /\ phase = "end" =>
         /\ outcome \notin {"well", "failed"} => told # {}
         /\ reported = "none" /\ outcome # "well" => told # {}
         /\ reported # "none" => outcome # "none" /\ files # "none"
=============================================================================
