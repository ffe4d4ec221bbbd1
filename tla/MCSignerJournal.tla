--------------------------- MODULE MCSignerJournal ---------------------------
(* A pool keeper that repairs and a bridge keeper share the signer; one of   *)
(* three endpoints answers anything.                                        *)
EXTENDS SignerJournal
CONSTANTS dn, bridge, r1, r2, r3
=============================================================================
