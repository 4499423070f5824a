--------------------------- MODULE MCCioOperator ----------------------------
(* One operator, one material record, two price levels.                    *)
EXTENDS CioOperator
=============================================================================
