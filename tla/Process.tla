------------------------------- MODULE Process -------------------------------
(***************************************************************************)
(* The whole of main(): Config until the daemon is constructed, which      *)
(* opens the database, and Daemon from the start of its thread on.  The    *)
(* handlers of the signals are there from the first.                       *)
(***************************************************************************)
EXTENDS Config, Daemon

\* The stages at which the process has ended without a daemon: parse_args() has
\* failed, std::stoi has thrown, the database cannot be opened.
Ended == {"refused", "aborted", "noDatabase"}

\* The constructor of Daemon opens the database; nobody catches what it throws.
Construct ==
  /\ stage = "configured"
  /\ stage' \in {"running", "noDatabase"}
  /\ UNCHANGED <<options, file, config>>

\* The main thread before there is another one.
Prepare ==
  /\ Configuring \/ Construct
  /\ mainAt' = IF stage' \in Ended THEN "exited" ELSE mainAt
  /\ UNCHANGED <<signalled, mainHas, run, stop, server, parts, fate>>

While(running, A) == Alive /\ (stage = "running") = running /\ A

ProcessInit == ConfigInit /\ Init

ProcessNext ==
  \/ While(FALSE, Prepare)
  \/ While(TRUE, RunThread /\ UNCHANGED configVars)
  \/ While(TRUE, MainThread /\ UNCHANGED configVars)
  \/ While(TRUE, HttpThread /\ UNCHANGED configVars)
  \/ While(TRUE, ProjectionEnds /\ UNCHANGED configVars)
  \/ Alive /\ Signal /\ UNCHANGED configVars

processVars == <<configVars, vars>>

ProcessSpec == ProcessInit /\ [][ProcessNext]_processVars

\* The scheduler runs the threads; no signal has to come.
ProcessFairSpec ==
  /\ ProcessSpec
  /\ WF_processVars(While(FALSE, Prepare))
  /\ WF_processVars(While(TRUE, RunThread /\ UNCHANGED configVars))
  /\ WF_processVars(While(TRUE, MainThread /\ UNCHANGED configVars))
  /\ WF_processVars(While(TRUE, HttpThread /\ UNCHANGED configVars))
  /\ WF_processVars(While(TRUE, ProjectionEnds /\ UNCHANGED configVars))
=============================================================================
