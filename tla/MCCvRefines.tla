---------------------------- MODULE MCCvRefines -----------------------------
(***************************************************************************)
(* CvServerRefines for TLC, with the symmetry and the view of MCCvServer.  *)
(***************************************************************************)
EXTENDS MCCvServer, CvServerRefines

=============================================================================
