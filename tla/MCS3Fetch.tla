----------------------------- MODULE MCS3Fetch -----------------------------
(* Three requests: two parts of a column, one part of another, one round.   *)
EXTENDS S3Fetch

Parts == <<2, 1>>
Selected == <<2, 1>>
=============================================================================
