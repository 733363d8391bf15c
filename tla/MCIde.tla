------------------------------- MODULE MCIde --------------------------------
(* Disks of five sectors whose numbers need both the low registers and the *)
(* drive register; three sectors take two commands.                        *)
EXTENDS Ide
=============================================================================
