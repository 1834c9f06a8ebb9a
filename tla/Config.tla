------------------------------- MODULE Config -------------------------------
(***************************************************************************)
(* What the daemon is configured with: main() parses the command line,     *)
(* converts the port numbers, loads the configuration file and lets        *)
(* RuntimeConfig::Override put the one over the other.  A command line and *)
(* a file are functions from the keys they give to texts; how a text is    *)
(* read depends on the key and on where it stands.                         *)
(***************************************************************************)
EXTENDS Integers

CONSTANTS
  Ports,      \* the members of RuntimeConfig that are uint16_t
  Plain,      \* members that are taken as they are written
  Options,    \* those of Ports and Plain that have a command line option
  Default,    \* what RuntimeConfig initialises each member to
  Stoi,       \* the texts std::stoi takes, with the numbers it makes of them
  JsonNumber, \* the texts that are a number or a boolean in JSON, as integers
  Texts,      \* bound: what is written for a port, on either side
  Words       \* bound: what is written for a member of Plain

VARIABLES
  options, \* the command line
  file,    \* the configuration file; one that does not exist gives no key
  config,  \* config_cli, and after the file config
  stage    \* how far main() has come, or how it ended

configVars == <<options, file, config, stage>>

Keys == Ports \cup Plain

Written(k) == IF k \in Ports THEN Texts ELSE Words

\* What can be given for some of the keys.
Given(keys) ==
  UNION {{g \in [given -> Texts \cup Words] : \A k \in given : g[k] \in Written(k)} :
         given \in SUBSET keys}

\* Mutant: the cast to uint16_t is off by one.
ToPortOffByOne(n) == n % 65535

\* The cast to uint16_t, of what std::stoi returns and of a number in JSON.
ToPort(n) == n % 65536

ConfigInit ==
  /\ options \in Given(Options) \cup [{"unknown"} -> Words]
  /\ file \in Given(Keys)
  /\ config = Default
  /\ stage = "parsing"

\* parse_args(): an option the parser does not know ends the process.
ParseArgs ==
  /\ stage = "parsing"
  /\ stage' = IF DOMAIN options \subseteq Options THEN "converting" ELSE "refused"
  /\ UNCHANGED <<options, file, config>>

\* The parser fills in the default of every option that is not given.  Nobody
\* catches what std::stoi throws.
Convert ==
  /\ stage = "converting"
  /\ IF \A k \in DOMAIN options \cap Ports : options[k] \in DOMAIN Stoi
       THEN /\ config' = [k \in Keys |->
                            IF k \notin DOMAIN options THEN Default[k]
                            ELSE IF k \in Ports THEN ToPort(Stoi[options[k]])
                            ELSE options[k]]
            /\ stage' = "loading"
       ELSE /\ stage' = "aborted"
            /\ UNCHANGED config
  /\ UNCHANGED <<options, file>>

\* from_json asks for every member with at(), and for its type.
FileLoads ==
  /\ DOMAIN file = Keys
  /\ \A k \in Ports : file[k] \in DOMAIN JsonNumber

InFile == [k \in Keys |-> IF k \in Ports THEN ToPort(JsonNumber[file[k]]) ELSE file[k]]

\* Mutant: the file over the command line.
OverrideReversed(json, cli) ==
  [k \in Keys |-> IF json[k] # Default[k] THEN json[k] ELSE cli[k]]

\* A value of the command line counts when it differs from the default.
Override(json, cli) == [k \in Keys |-> IF cli[k] # Default[k] THEN cli[k] ELSE json[k]]

\* A file that does not load, or is not asked for, changes nothing.
LoadFile ==
  /\ stage = "loading"
  /\ config' = IF FileLoads THEN Override(InFile, config) ELSE config
  /\ stage' = "configured"
  /\ UNCHANGED <<options, file>>

Configuring == ParseArgs \/ Convert \/ LoadFile

-----------------------------------------------------------------------------
(* Properties.                                                             *)

IsConfigured == stage \in {"configured", "running"}

\* README.md: "Configuration precedence is: 1. CLI arguments 2. Config file
\* 3. Built-in defaults".
PrecedenceKept ==
  IsConfigured =>
    \A k \in Plain :
      config[k] = CASE k \in DOMAIN options -> options[k]
                    [] k \in DOMAIN file \ DOMAIN options -> file[k]
                    [] OTHER -> Default[k]

\* The numbers the command line and the file ask for as port k.
Asked(k) ==
  {Stoi[t] : t \in {options[x] : x \in {k} \cap DOMAIN options} \cap DOMAIN Stoi}
    \cup {JsonNumber[t] : t \in {file[x] : x \in {k} \cap DOMAIN file} \cap DOMAIN JsonNumber}

IsPort(n) == n \in 0..65535

\* The daemon listens on, and connects to, no port that nobody gave and that is not
\* the built-in one, unless it was given a number that is no port: the conversions
\* in main() and of the file lose none that is.
UnaskedPortWasNoPort ==
  IsConfigured =>
    \A k \in Ports :
      config[k] \in Asked(k) \cup {Default[k]} \/ \E n \in Asked(k) : ~IsPort(n)

\* The precedence README.md promises is kept for a file that gives every key, or
\* none, and a command line that does not ask for a default: through two
\* conversions, for the members that are numbers and those that are not.
PrecedenceKeptWhenComplete ==
  /\ IsConfigured
  /\ file = <<>> \/ FileLoads
  /\ \A k \in Ports : \A n \in Asked(k) : IsPort(n)
  /\ \A k \in DOMAIN options \cap Ports : Stoi[options[k]] # Default[k]
  /\ \A k \in DOMAIN options \cap Plain : options[k] # Default[k]
  => \A k \in Keys :
       config[k] =
         CASE k \in DOMAIN options -> IF k \in Ports THEN Stoi[options[k]] ELSE options[k]
           [] k \in DOMAIN file \ DOMAIN options ->
                IF k \in Ports THEN JsonNumber[file[k]] ELSE file[k]
           [] OTHER -> Default[k]
=============================================================================
