-------------------------- MODULE MCLicenseNetwork --------------------------
(* Values for the constants of LicenseNetwork in the runs of TLC.            *)
EXTENDS LicenseNetwork, TLC

CONSTANTS php, tomcat, a1, a2, cmnd, cms, here, license

Sym == Permutations(Unit) \cup Permutations(Admin) \cup Permutations(Uid)
=============================================================================
