-------------------------- MODULE MCToolkitInstall --------------------------
(* TLC instances of ToolkitInstall. *)
EXTENDS ToolkitInstall, TLC

\* Everything, everything but the library, everything but the links.
MCRemains == {File, File \ {Library, LibraryLink}, File \ Link}

MCShort == {Hook + 1}

\* Installs are interchangeable.
InstallSymmetry == Permutations(Install)

=============================================================================
