------------------------- MODULE MCContainerdCommand -------------------------
(* TLC instances of ContainerdCommand. *)
EXTENDS ContainerdCommand, TLC

CommandSymmetry == Permutations(Command)

MCClass == {Nvidia, Experimental, Runc, "gpu"}
MCDir == {"/usr/local/nvidia/toolkit"}
UserRunc == << "/usr/bin", "runc" >>
MCUserBinary == {UserRunc}
MCBase == {"default", "linux", "systemd-cgroup"}
MCPlainBase == {"default", "linux"}
MCOther == {"root"}

Option(class, default, legacy, mode) ==
  [class |-> class, setAsDefault |-> default, legacy |-> legacy, mode |-> mode,
   dir |-> "/usr/local/nvidia/toolkit"]
\* A class of one's own, and the experimental one for an old containerd.
SomeOptions == {Option("gpu", TRUE, FALSE, "signal"),
                Option(Experimental, TRUE, TRUE, "systemd")}
\* And every other branch: each mode, no class, runc, no default.
AllOptions == SomeOptions \cup {Option("", TRUE, FALSE, "none"),
                                Option(Runc, FALSE, FALSE, "invalid"),
                                Option("gpu", TRUE, FALSE, "systemd")}
\* Setup and cleanup alone, without a restart.
QuietOptions == {Option("gpu", TRUE, FALSE, "none"),
                 Option(Nvidia, TRUE, TRUE, "none"),
                 Option("", FALSE, FALSE, "none")}

WithRunc ==
  [EmptyConfig EXCEPT
     !.version = "v2",
     !.classes[Runc] = [base |-> "systemd-cgroup", binary |-> UserRunc],
     !.other = "root"]
\* An old file, with a default of the user's in the old place.
OldFile ==
  [EmptyConfig EXCEPT
     !.legacy = [base |-> "linux", binary |-> NoBinary], !.other = "root"]

\* What the user of a version 2 and of a version 1 file writes.
MCUserConfig == {[WithRunc EXCEPT !.default = Runc], OldFile}
\* An old file with both a class and the old default, against the version 2 of a setup that finds no file.
OldWithRunc ==
  {[OldFile EXCEPT !.classes = WithRunc.classes, !.default = Runc]}
NoFile == {FileOf("missing", EmptyConfig)}
Sound == NoFile \cup {FileOf("config", WithRunc), FileOf("config", OldFile)}
AnyFile ==
  Sound \cup {FileOf("config", [WithRunc EXCEPT !.version = "unsupported"])}

=============================================================================
