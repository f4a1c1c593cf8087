--------------------------- MODULE MCDockerCommand ---------------------------
(* TLC instances of DockerCommand. *)
EXTENDS DockerCommand, TLC

CommandSymmetry == Permutations(Command)

MCName == {Nvidia, Experimental, Runc, "gpu", "crun"}
MCDir == {"/usr/local/nvidia/toolkit"}
Crun == << "/usr/bin", "crun" >>
OldNvidia == << "/usr/bin", "nvidia-container-runtime" >>
MCUserPath == {Crun, OldNvidia}
MCOther == {"log-level"}

\* The options that take different branches: a name of one's own, the
\* experimental runtime as the default, the standard name, no name, no default.
Option(name, default) ==
  [runtimeName |-> name, setAsDefault |-> default,
   runtimeDir |-> "/usr/local/nvidia/toolkit"]
SomeOptions == {Option("gpu", TRUE), Option(Experimental, TRUE)}
AllOptions ==
  SomeOptions \cup {Option(Nvidia, TRUE), Option("", TRUE), Option("gpu", FALSE)}

WithCrun ==
  [default |-> "crun", table |-> "map", other |-> "log-level",
   runtimes |-> ("crun" :> Crun) @@ EmptyConfig.runtimes]
\* The nvidia runtime was already registered by hand, as the default.
WithNvidia ==
  [default |-> Nvidia, table |-> "map", other |-> "none",
   runtimes |-> (Nvidia :> OldNvidia) @@ EmptyConfig.runtimes]
Plain == [EmptyConfig EXCEPT !.other = "log-level"]

MCUserConfig == {WithCrun, Plain}
OneUserConfig == {WithCrun}

Sound == {FileOf("missing", EmptyConfig), FileOf("config", WithCrun),
          FileOf("config", WithNvidia)}
Unsound ==
  {FileOf("empty", EmptyConfig), FileOf("torn", EmptyConfig),
   FileOf("config", [Plain EXCEPT !.table = "malformed"]),
   FileOf("config", [Plain EXCEPT !.default = "malformed"])}
AnyFile == Sound \cup Unsound

=============================================================================
