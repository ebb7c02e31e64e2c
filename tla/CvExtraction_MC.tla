-------------------------- MODULE CvExtraction_MC ---------------------------
(* Small instances of CvExtraction.                                        *)
EXTENDS CvExtraction
=============================================================================
