-------------------------- MODULE MCInstallerPage ---------------------------
(* Instances of InstallerPage.                                             *)
EXTENDS InstallerPage
=============================================================================
